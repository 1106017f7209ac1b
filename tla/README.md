# smoldb: a TLA+ model of a small replicated point store

smoldb stores *points* (an id and a JSON payload) in *collections*. A collection
has two shards, a shard has one segment, and a segment is a sled database. Peers
may know each other; a write then goes to the peer that was asked and to the same
collection on the other peers. Paths below are those of the repository; most of
the code is in `src/` (`storage/`, `api/`, `consensus.rs`).

Contents: [the system](#1-the-system) · [modules](#2-modules) ·
[write path](#3-the-write-path-upsert) · [lifecycle](#4-the-lifecycle-of-a-collection-collectionlifecycle) ·
[lists](#5-lists-listpoints) · [membership](#6-membership-membership) ·
[locks](#7-locks-maplock) · [load generator](#8-the-load-generator-loadgenerator) · [runs](#9-runs) ·
[proofs](#10-proofs) · [findings](#11-findings) · [not modelled](#12-not-modelled) · [plan](#13-plan)

## 1. The system

| Component | State | Operations | What makes it hard | What makes it correct |
|---|---|---|---|---|
| `TableOfContent` (`storage/toc.rs`) | map of the collections, under one `RwLock`; the directory `storage/collections` | create, delete, load at start, dispatch of upserts and reads | requests on several threads share the directory without a lock; crashes between file system operations; the read lock is held across RPCs | what is served is what is on disk; acknowledged creates and deletes survive a restart |
| `Collection` (`storage/collection.rs`) | config, replica holder under an `RwLock` | `init`, `delete`, `load`, `upsert_points`, `get_points`, `CollectionConfig::save` | a batch is written shard by shard, replica by replica; not cancel safe | an acknowledged write is on as many replicas as the consistency factor says; a list is complete |
| `ReplicaHolder`, `ReplicaSet` (`storage/replicas/mod.rs`) | shards, hash ring, remotes of each shard | `select_shards`, `execute_cluster_operation`, `add_remote_shards` | every peer has a ring of its own; remotes change while requests run | what is stored is where reads look |
| `LocalShard`, `Segment` | segment 0, a sled database | `insert_points`, `get_points`, `init`, `load` | inserts of several requests interleave; only what was flushed survives | success only after the flush |
| `RemoteShard` | shard id, peer id | the same operations over gRPC | RPCs are lost or late; UUIDs are left out | an error is never counted as a success |
| `PointsInternalService` | - | serves the RPCs of remote shards, locally only | routes the points anew with its own ring | as above |
| `ChannelService`, its pool | channels by URI | get or create | check and insert are under two locks, of a pool that each RPC makes for itself | not modelled: nothing is shared |
| `Consensus` (`consensus.rs`) | a one-voter Raft node, the peers' table | bootstrap, the loop of its thread | bootstrap failure, refused messages, lost answers; both tables are lost in a restart | a bootstrap ends; then caller and member know each other |
| `RaftService` | - | `add_peer_to_known`, `send`, `who_is` | fills two tables one after the other, beside other joins, creates and deletes | of two peers that join through it, one knows the other; remotes are peers of the table |
| HTTP handlers (`api/`) | - | one per route | the client may hang up at every await | answers say what happened |
| The two locks (tokio's `RwLock`) | who has, who waits | read, write, first come first served | kept across RPCs to peers whose handlers wait for the same locks | nobody waits for ever; what a request uses does not change under it |
| `smolbench` (`tools/smolbench`) | its arguments, answers so far | create, delete, upsert in batches, retrieve | requests fail, other clients use the same collection, numbers that do not divide, are 0 or exceed what a `Vec` holds | each id is written once; only what was acknowledged is asked for |

Components interact by calls (HTTP handler → `TableOfContent` → `Collection` →
`ReplicaSet` → `LocalShard`/`RemoteShard`), by RPCs between peers (`RemoteShard` →
`PointsInternalService`, bootstrap → `RaftService`), by a channel to the consensus
thread, and by two shared locks: the map of collections and each collection's
replica holder.

## 2. Modules

| Module | What it is |
|---|---|
| `Upsert` | the write path on any number of peers |
| `AckedWrites` | what a PUT of points promises, without logs, shards and calls |
| `UpsertRefinement` | the mapping by which `Upsert` implements `AckedWrites` |
| `UpsertProofs` | proofs about `Upsert`: types, and how far each execution is |
| `UpsertReadProofs` | proofs about what reads find: `StoredWhereRead`, `AckedIsServed`, `SerialWritesConverge` |
| `UpsertRefinementProofs` | the proof that `Upsert` implements `AckedWrites` |
| `CollectionLifecycle` | creates, deletes, crashes and starts of one collection on one peer |
| `CollectionLifecycleProofs` | proofs about it |
| `ListPoints` | lists of a collection beside everything `Upsert` does; extends `Upsert` |
| `ListPointsProofs` | proofs about it, from those about `Upsert` |
| `Membership` | how peers learn of each other, and the thread that does it |
| `MembershipProofs` | proofs about it |
| `MapLock` | the locks of the maps and of the replica holders of all peers, and everyone who takes them |
| `MapLockProofs` | proofs about it |
| `LoadGenerator` | one run of smolbench against a peer |
| `LoadGeneratorProofs` | proofs about it |
| `MCUpsert`, `MCCollectionLifecycle`, `MCListPoints`, `MCMembership`, `MCMapLock`, `MCLoadGenerator` | instances for TLC: placements, batches, orders of requests, who bootstraps from whom, texts |

The modules rest on each other. `Upsert`, which `ListPoints` extends, takes a collection and its remotes to stay
as they are while a request runs: that is `UsedStays` of `MapLock`. It counts one success per remote: that is right
because of `RemotesAreKnownPeers` of `Membership`: the id of an earlier start that a peer may have among its remotes was drawn, and
is none of those that `RemoteShard` has an address for, so that calls to it fail. `LoadGenerator` takes each request to be answered or to
fail: that is `EveryExecutionEnds` of `Upsert` and `EveryRequestEnds` of `MapLock`.

A definition whose comment begins with "A fault" is not part of the model. It is
the definition below it with a plausible bug in it, and shows that a property can
fail: put in the place of the definition, it must break the property.

Conventions: peers, ids, payloads and requests are model values. Requests are
sets given as constants, each of which is sent once; `Before[q]` names those that
are over when `q` is sent, so that a run says which requests may overlap. `idle`
is a request that was not sent; `gone` is one that nobody waits for any more.

## 3. The write path (`Upsert`)

| Model | Code |
|---|---|
| `log[n][s]`, `flushed[n][s]` | the database of segment 0 of shard `s` on peer `n`, as the log that sled is; the part of it known to be on disk |
| `remotes[n]` | the peers of `ReplicaSet::remotes`, the same in each shard of a collection, in the order in which they were added |
| `task[t]` | the local variables of an execution of `Collection::upsert_points`: of an HTTP request (`t \in Op`) or of an RPC (`t = <<request, shard, peer>>`) |
| `Put`, `Serve` | `perform_points_op`, and the handler of the RPC: locks, lookup, `select_shards` |
| `PickShard`, `Judge`, `Finish` | the loop over shards, `total_success`, `min_desired_success`, the errors |
| `InsertPoint`, `Flush`, `LocalFails` | `Segment::insert_points`, point by point |
| `CallRemote`, `Answered`, `CallFails` | `execute_cluster_operation` and `RemoteShard::upsert_points` |
| `ClientGone`, `Crash`, `Restart` | a dropped handler, a dead process, `Collection::load` |
| `AddRemoteShards` | `add_remote_shards`, which waits for the replica holder's write lock |

Choices that matter:

- An RPC that was sent may be served at any time after, or never: also after its
  sender timed out, hung up or died. An answer may be lost. So one action, `CallFails`,
  stands for the refused connection, the 10 s timeout and the error of the channel.
- A crash keeps each log up to any point at or after what was flushed: sled flushes in
  the background as well.
- A request holds the read locks of the map and of the replica holder to its end (`UsedStays` of
  `MapLock`). So its remotes do not change, and the successes it needs are known when it begins (`need`).
- The ring is a constant: any function from a set of shards and an id to a shard of the
  set. Peers may have different shards, as crashes during a create produce them.
- Batches have one point per id: `points_map` keeps the last. Order within a batch is open.
- Peers that hold a replica are known by `AddRemoteShards` between any two peers and in any
  order, which allows more than bootstrapping does.

Properties, besides `TypeOK`:

- `AckedIsReplicated`: what a 200 promises. Each point is flushed at the peer that answered
  and, when that peer knew of replicas, each one with a numeric id at another peer too.
  Points with a UUID are not sent to replicas (`remote_shard.rs:165`) and a peer that just
  restarted knows none; the property says exactly what remains.
- `WriteProgress`: why that holds; see [proofs](#10-proofs).
- `StoredWhereRead`: a point only lies in the shard in which a get by id at its holder looks.
- `SerialWritesConverge`: two peers, and writes of an id one after the other, each
  acknowledged by a peer that knew the other: both serve the last one. It fails for writes of
  which one was not acknowledged, as its call may still be under way.
- `AckedIsServed`: until a later write begins, the peer that acknowledged serves the write.
- `EveryExecutionEnds` (liveness): no request that was taken up stays unfinished.
- `ImplementsAckedWrites`: each step of the write path is a step of `AckedWrites`, or none.

Fairness (`FairSpec`): weak fairness of the steps of each execution, since tokio goes on
polling a future that is ready, and of the three steps that end an RPC, since the channel
has a timeout (`api/grpc/mod.rs:47`). Nothing is assumed about a call being served, a peer
being restarted or a client staying.

## 4. The lifecycle of a collection (`CollectionLifecycle`)

One name on one peer. `dir`, `config` and `shard` are the files; `lock[s]` says which
collection has the database of shard `s` open, which sled allows once; `served` is the entry
in the map; `req[q]` is where a request is.

| Model | Code |
|---|---|
| `CheckPath`, `MakeDir` | `mkdir_collection_dir`: the check, then `create_dir_all` on a blocking thread |
| `CreateConfig`, `WriteConfig` | `CollectionConfig::save`: `File::create`, then the `BufWriter`, which writes when dropped |
| `MakeShard`, `OpenSegment` | `LocalShard::init` and `Segment::create`, for shards 0 and 1 |
| `Insert`, `CreateFails` | the second look at the map, under the write lock; errors and panics |
| `Ask`, `TakeOut` | the delete request; the removal from the map |
| `RemoveConfig`, `RemoveShard`, `RemoveDir`, `RemoveFails` | `remove_dir_all`, entry by entry |
| `ClientGone`, `Crash`, `Restart` | a dropped handler, a dead process, `TableOfContent::load` |

Choices that matter: a crash is the death of the process, so that what was written to a file
stays (a power failure could lose more: nothing is fsynced except by sled). Writing through a
handle of a removed file reaches nobody; writing over the contents of another create may leave
a tail of them (`"torn"`). The contents of segments are left out; a partly removed database
counts as one that is there.

Properties, besides `TypeOK`, which also says that files lie in directories, that only
segments that exist are locked and that one delete at a time removes files:

- `AckedCreateStays`, `AckedDeleteStays`: for requests sent one after the other, what was
  answered with success survives every later crash and start. For a create that takes the
  config to be written and both shards to be made before the answer; for a delete, that no
  leftover of an earlier, unfinished create is loaded.
- `ServedIsStored`: creates that do not overlap, deletes whenever they like: the collection
  that is served has its own config and its own open segments on disk, so that the next start
  finds the same.
- `UnreadableIsUnfinished`, under the same conditions: while the process runs, a config that no start
  could read is one that a create is just saving. So the crash that `lifecycle_load` finds, between the two
  steps of `CollectionConfig::save`, is the only way to a start that panics on a config. (A start may also panic
  on a database that sled cannot open, `segment.rs:53`, which a `remove_dir_all` that was cut short may leave: the model does not look
  into databases.)
- `ServedIsOpen`: creates that overlap, no deletes: the loser of the race neither closes nor
  replaces a database of the winner. (Its config does replace the winner's: `ServedIsStored` is
  false there; see [findings](#11-findings).)

## 5. Lists (`ListPoints`)

`GET .../points`: shard by shard, the peer reads its own shard, then asks each remote for the
shard of that number, collects the results and merges them, while writes, crashes and joins go
on. A scan of a segment is one step. (sled's iterator is not a snapshot, so a scan may show one
write of a batch and not another; the properties below are about single ids.)

- `ListIsComplete`: a successful answer lacks no point acknowledged before the list began by the
  peer itself, nor a numeric one acknowledged by a peer it knew in a shard that the peer has too (a list
  goes through the shards of its own peer). It rests on the collect of the results, which turns a replica
  that failed into an error of the whole list.
- `LocalTakesPrecedence`: an id that the peer held is listed in a version of its own that is no
  older than the one it had at the start, unless a peer it knew puts the id into another of the reader's
  shards (`SameShard`): that one may be merged before the shard that holds the id here, and its version is
  listed then. TLC finds that case at once when the exception is dropped; see [findings](#11-findings).
- `ListTypeOK`: the type, and no id twice.

## 6. Membership (`Membership`)

A peer started with `--bootstrap` calls `add_peer_to_known` at a member. Each of the two adds the
other to `Persistent::peers` and, as a remote shard, to its collections; the caller does so for all
the peers in the answer. Nothing else tells peers of each other, and none of it is stored.

| Model | Code |
|---|---|
| `<<n, k>>`, `IdOf` | a process, and its peer id: the one given by `--peer-id` (`Named`), or one drawn at start |
| `peers[n]`, `remotes[n]`, `fresh[n]` | `Persistent::peers`; for each collection the peers of its remote shards; the collections made since the start |
| `thread[n]`, `inbox[n]` | where the consensus thread is, and the channel it reads |
| `call[p]` | the RPC of process `p`: what its handler has done, then its answer |
| `Ask`, `Receive`, `BootstrapFails` | `Consensus::bootstrap` and the `unwrap` that ends the thread when it fails |
| `Add`, `Link`, `StartLoop` | the loop over the answer, which skips the caller's own id; `run_loop` |
| `AddPeer`, `AddRemoteShards`, `Answer` | the handler, from await to await |
| `SubmitConsensusOp`, `SendRaft`, `Handle` | the senders, and a round of the loop: a message that `RawNode::step` refuses ends it |
| `Create`, `Delete`, `Crash`, `Restart` | collections come without remotes; a restart has neither table |

Choices that matter:

- A request, a handler between two awaits and an answer may each be lost (`Lose`), and what the handler did
  stays. A handler runs in the process that was called: it ends with it.
- Ids that are drawn are all different. The answer is sorted by ids, so that any order is possible.
- `ASSUME Bootstrap[n] # n`: a peer that is told to bootstrap from itself is left out.
- Ticks are left out: nothing reads what they change. So is what a proposal does, which is to be logged.

Properties, besides `TypeOK`:

- `RemotesAreKnownPeers`: remote shards are on peers of the table. A peer with a given id (`--peer-id`) is never among its own
  remotes; one that draws its id may be, under the id of an earlier start, never under its own. A write counts its
  own copy and one per remote, so `AckedIsReplicated` of `Upsert` rests on this.
- `JoinedIsLinked`: a bootstrap that is over has linked the two in both directions, in every collection that
  was there when the process started, whatever others joined, created or deleted meanwhile. As long as the
  member's process is the one that was called.
- `JoinersMeet`: of two peers that joined through one process of a member, the later one knows the other. The
  earlier one need not: nobody tells it.
- `BootstrapEnds` (liveness): the thread does not hang in its bootstrap, whatever is lost. It may die of it:
- `ThreadRuns`: while the process runs its consensus thread does, as `consensus.rs:160` says. It does not; see
  [findings](#11-findings).

Fairness (`FairSpec`): weak fairness of each thread, which runs on and whose connection has a timeout
(`consensus.rs:172`, `api/grpc/mod.rs:47`). Nothing is assumed of the member: it need not answer.

## 7. Locks (`MapLock`)

A request for points takes the map with `read()`, then the collection's replica holder with `read()`, and keeps
both while it calls other peers, where the handler of the call takes the same two locks. Creates and deletes take
the map with `write()`; `add_peer_to_known` takes the map with `write()` and then each replica holder in
turn; a bootstrap does the same with the map under `read()`. tokio's locks are fair: a reader waits behind
a writer that waits, even if only readers are inside.

| Model | Code |
|---|---|
| `present[n]`, `remotes[n][k]` | the map's keys; the peers in the replica sets of a collection |
| `task[t].wants`, `.ahead`, `.has` | the lock that `t` waits for, those before it in its line, the locks it has |
| `Ask`, `MayEnter`, `GoesOn`, `Ends` | `read()` or `write()`, the turn, the future that goes on, guards that are dropped |
| `Send`, `Serve`, `Refuse` | a request or an RPC arrives; it names no collection of the map, or needs the map only |
| `EnterMap`, `LockHolder`, `EnterHolder` | the two locks of `perform_points_op`, `retrieve_points` and the cluster information |
| `CallRemote`, `CallReturns`, `Finish` | `execute_cluster_operation` and what `get_points` does; the answer |
| `Insert`, `TakeOut`, `RemoveFiles` | `perform_collection_meta_op` under the map's write lock |
| `LockNext`, `AddRemoteShards`, `EndLink` | the loop of `add_peer_to_known` and of the bootstrap |
| `Dropped` | a handler that is dropped where it awaits: the client has gone, or the caller of an RPC has timed out |

Choices that matter:

- Requests are sent again and again, and creates, deletes and joins as well. An RPC is served at once, late or
  never, also when its sender has given up. A request is sent anew only when its earlier calls are not being served: a
  bound on the calls of one request that run at the same time (`Send`).
- The calls of a request come in any order (the code goes shard by shard), and a request may end after any
  of them, as one that fails does. What is read and written is in `Upsert` and `ListPoints`.
- Time is left out: `CallReturns` is the answer, the broken connection or the channel's 10 s timeout, whichever comes.
  So "gets done" means after some timeouts at worst.
- A create makes its files before it asks for the map: the model begins at the lock. A handler is dropped only at an
  await, so that a create or delete that has the map gets through.

Properties, besides `TypeOK`, which also says that a lock held with `write()` is held by nobody else:

- `UsedStays`: what a request uses stays in the map and keeps the remotes it had when the request began.
- `NoCircle`: of any tasks that wait for locks, one waits for none of the others. So each circle (two peers that call
  each other, with a create waiting at each) goes through an RPC, whose timeout opens it.
- `EveryRequestEnds` (liveness): a request for points gets done, behind whatever writers and calls.
- `WritersGetDone` (liveness): creates, deletes, joins and bootstraps get their locks though readers overlap
  and keep arriving. It fails for a lock that prefers readers.

Fairness (`FairSpec`): weak fairness of the steps of each task, since futures that are ready are polled, a lock wakes the
first in line and a call ends with its timeout. Nothing is assumed about requests being sent, RPCs
arriving or clients staying.

## 8. The load generator (`LoadGenerator`)

`smolbench` is a sequential program: it reads numbers such as `100k` or `1_000`, makes the collection (after
deleting an old one, unless it is told otherwise), writes `num_points` points in batches, asks for random ids and prints
percentiles of the latencies. Any request may fail, which ends the run; other clients create and delete the collection
(`OtherClient`).

| Model | Code |
|---|---|
| `num`, `Read`, `Number` | `parse_number_impl`, a character at a time (`args.rs`) |
| `args`, `ParseArgs` | `Args`, `parse_args` |
| `AskExists`, `DeleteCollection`, `CreateCollection` | the first part of `main` and the requests of `apis.rs` |
| `held` | the peer's collection, and whether it is the one from before, the run's own, or another client's |
| `BeginUpsert`, `UpsertBatch`, `NumBatches`, `Start`, `End` | `upsert_points`; `acked` is the ids of the batches that were answered |
| `MaxResults`, `MaxBatch` | how many answers `Vec::with_capacity` (`apis.rs:85`), and how many points `collect` (`apis.rs:93`), can make a `Vec` for; beyond that they panic with "capacity overflow" |
| `BeginQueries`, `RetrievePoint`, `RandomId` | the queries of `main`, `retrieve_point` |
| `LogUpserts`, `LogQueries`, `LogLatencies`, `Indices` | `log_latencies`, which panics when there are no latencies |

Properties, besides `TypeOK`:

- `NumberAsWritten`: the parser returns the number that a text denotes (`Written`), and none when it denotes none or one that
  does not fit: it never wraps. `Written` does not compute: it is the number whose decimal digits the text shows (`Shows`), times
  what the suffix stands for (`Scale`). (What follows an `i` is not looked at: `1kibble` is 1024, and `Scale` says so.)
- `WritesAfresh`: without `--skip-create` and `--skip-if-exists` no point goes to the collection that was there before, although
  any error of `get_collection` counts as "not there".
- `UpsertedOnce`, `AsksForAcked`: each id below `num_points` is acknowledged once, in order, and the ids asked for are among
  them, which is what the comment of `main.rs:79` assumes.
- `PanicsOnlyAtLimits`: it panics only without points, with a batch size of 0, or with more batches or larger ones than a `Vec`
  can be made for (`-n 1000000T -b 1` does so): percentile indices stay inside the latencies, however few and whatever the nines.
- `EveryRunEnds` (liveness), with weak fairness of the run's own steps. `reqwest` is used without a timeout, so this takes the
  peer to answer or the connection to end.

Numbers are scaled down: 1000, 1024 and `u64::MAX` are constants (4, 5 and 1023 in the run), a `Vec` is made for
4 answers or points at most (`isize::MAX` bytes in the code; an allocation that the machine refuses below that aborts the run, and is left out), the
1000 queries at most are 2, and the 17 digits from which `1 - 0.1^d` is 1.0 in an `f64` are 3. Rounding of the percentiles' factors
below that is left out.

## 9. Runs

| Run | Instance | Shows |
|---|---|---|
| `upsert_crash` | 2 peers, 2 shards, 2 serial requests, 1 crash, n1 knows n2 at first | `TypeOK`, `AckedIsReplicated`, `SerialWritesConverge`, `AckedIsServed` |
| `upsert_placement` | 3 peers that know each other, of which n2 lacks shard 1, and n3 has no address and no segment in shard 1; 1 request with a numeric id and a UUID; 1 crash, `FairSpec` | `AckedIsReplicated`, `WriteProgress`, `StoredWhereRead`, `EveryExecutionEnds`, `ImplementsAckedWrites` |
| `lifecycle_orders` | 3 creates in turn and 2 deletes at any time, then a delete, then a create; 2 crashes | `TypeOK`, `AckedCreateStays`, `AckedDeleteStays`, `ServedIsStored`, `UnreadableIsUnfinished` |
| `lifecycle_race` | 3 creates at once, a disk that may be full, 2 crashes | `ServedIsOpen` |
| `lifecycle_load` | 1 create, 1 crash | `EveryCollectionLoads` is violated |
| `lifecycle_overlap` | 2 creates and 1 delete at once | `NewSegmentsOpen` is violated |
| `list_complete` | 2 peers, 3 shards of which n2 lacks the one where n1 has an id, 1 request, 1 crash, 1 join | `ListIsComplete` |
| `list_local` | 2 peers that know each other, 2 shards of which n2 lacks one, 2 serial writes of an id, n1 has no address | `ListTypeOK`, `LocalTakesPrecedence` |
| `membership_join` | a member and 2 peers that bootstrap from it, one of which draws its id, 1 collection, 1 create, delete or message, 1 crash, `FairSpec` | `TypeOK`, `RemotesAreKnownPeers`, `JoinedIsLinked`, `JoinersMeet`, `BootstrapEnds` |
| `membership_thread` | a member and a peer that bootstraps from it, 2 messages, creates or deletes, 1 crash | `ThreadRuns` is violated |
| `lock_waits` | 2 peers, of which n1 knows n2, 1 collection, 1 shard; a request for points at each, at n1 a create or delete and a bootstrap, at n2 an `add_peer_to_known`, all of them over and over, `FairSpec` | `TypeOK`, `UsedStays`, `NoCircle`, `EveryRequestEnds`, `WritersGetDone` |
| `load_generator` | texts of up to 4 of 8 characters, up to 5 points, 5 batch sizes, 4 batches and 4 points of a batch at most, all options | `TypeOK`, `NumberAsWritten`, `WritesAfresh`, `UpsertedOnce`, `AsksForAcked`, `PanicsOnlyAtLimits`, `EveryRunEnds` |

Why the bounds are enough. Two peers give one coordinator and one replica in both directions;
the third one is there where a write has several remotes of which one must fail, and where two peers join
beside each other. Two requests are what it takes to overlap, to overtake and to overwrite; two shards what
it takes for a batch to fail half-way. One crash reaches each point of a write or a bootstrap, and the state
after it (no remotes) is the state after any other; two crashes let a start find what an earlier start left.
Three creates are one that won, one that lost and one that comes later. In `membership_join` one create or delete falls into
each gap of the two joins. `upsert_placement` has one request, as its three peers and the fairness cost the second one; two requests
are in `upsert_crash`. Its ring puts the numeric id into shard 1 at n1 and n3, and into shard 0 at n2, which has no other: each of them
stores what a peer with another ring sent, in another shard than the sender does. That n3 cannot insert into shard 1 lets a write fail at the coordinator's own shard. `list_complete` has two ids, so that a list that has one may lack the other, and a third shard, so that
one of them is in a shard that the other peer lacks. `list_local` has one id for the sake of a second write. In `lock_waits` one request per peer and kind is
enough to wait in each line behind each kind of task, as each comes again and again; a peer's requests for points meet the calls that the other
peer's requests make. One remote shard makes a circle of two peers. In `load_generator` five points fall into batches that fit, do
not fit, are as large as all points or have size 0, into one batch too many, and into a batch with a point too many. The proofs have no such bounds.

Deadlock is not checked: a behaviour ends when all requests, joins, messages and runs are over. (In `MapLock` `NoCircle`,
`EveryRequestEnds` and `WritersGetDone` say more than that.)

## 10. Proofs

`tlapm` checks, for every set of peers, shards, ids and requests, every ring, placement,
batch and bound on the crashes that the modules' `ASSUME`s allow:

| Theorem | States |
|---|---|
| `UpsertProofs!WriteProgressHolds` | `Spec => []WriteProgress` |
| `UpsertProofs!AckedIsReplicatedHolds` | `Spec => []AckedIsReplicated` |
| `UpsertProofs!TypeOKHolds` | `Spec => []TypeOK` |
| `UpsertReadProofs!StoredWhereReadHolds` | `Spec => []StoredWhereRead` |
| `UpsertReadProofs!AckedIsServedHolds` | `Spec => []AckedIsServed` |
| `UpsertReadProofs!SerialWritesConvergeHolds` | `Spec => []SerialWritesConverge` |
| `UpsertRefinementProofs!Refinement` | `Spec => ImplementsAckedWrites` |
| `CollectionLifecycleProofs!LifecycleTypeOKHolds` | `Spec => []TypeOK` |
| `CollectionLifecycleProofs!RacesAreSafe` | `Delete = {} /\ Spec => []ServedIsOpen` |
| `CollectionLifecycleProofs!AckedDeleteStaysHolds` | `Spec => []AckedDeleteStays` |
| `CollectionLifecycleProofs!AckedCreateStaysHolds` | `DiskFull = FALSE /\ Spec => []AckedCreateStays` |
| `CollectionLifecycleProofs!ServedIsStoredHolds` | `CreatesInTurn /\ DiskFull = FALSE /\ Spec => []ServedIsStored` |
| `CollectionLifecycleProofs!UnreadableIsUnfinishedHolds` | `CreatesInTurn /\ DiskFull = FALSE /\ Spec => []UnreadableIsUnfinished` |
| `ListPointsProofs!ListTypeOKHolds` | `ListSpec => []ListTypeOK` |
| `ListPointsProofs!ListIsCompleteHolds` | `ListSpec => ListIsComplete` |
| `ListPointsProofs!LocalTakesPrecedenceHolds` | `ListSpec => LocalTakesPrecedence` |
| `MembershipProofs!TypeOKHolds` | `Spec => []TypeOK` |
| `MembershipProofs!RemotesAreKnownPeersHolds` | `Spec => []RemotesAreKnownPeers` |
| `MembershipProofs!JoinedIsLinkedHolds` | `Spec => []JoinedIsLinked` |
| `MembershipProofs!JoinersMeetHolds` | `Spec => []JoinersMeet` |
| `MapLockProofs!TypeOKHolds` | `Spec => []TypeOK` |
| `MapLockProofs!UsedStaysHolds` | `Spec => []UsedStays` |
| `MapLockProofs!NoCircleHolds` | `Spec => []NoCircle` |
| `LoadGeneratorProofs!TypeOKHolds` | `Spec => []TypeOK` |
| `LoadGeneratorProofs!UpsertedOnceHolds` | `Spec => []UpsertedOnce` |
| `LoadGeneratorProofs!AsksForAckedHolds` | `Spec => []AsksForAcked` |
| `LoadGeneratorProofs!WritesAfreshHolds` | `Spec => []WritesAfresh` |
| `LoadGeneratorProofs!PanicsOnlyAtLimitsHolds` | `Spec => []PanicsOnlyAtLimits` |
| `LoadGeneratorProofs!NumberAsWrittenHolds` | `Spec => []NumberAsWritten` |

The hypotheses are those of the runs, and the code has no more to offer. `Delete = {}`, `DiskFull = FALSE` and `CreatesInTurn` (of any
two creates one waits for the other) exclude what [findings](#11-findings) reports: without them the properties are false.

*The write path.* `AckedIsReplicated` says nothing of a request that still runs, and so is not
inductive. `WriteProgress` adds `TypeOK`, `WellPlaced` (who executes what: a request's peer
calls others only, a call is executed by the peer it names and calls nobody) and `Progress` of each
execution: each of its points is done, or in a shard to come, or in the current shard; there it
waits to be inserted, or is in the log, or, once flushed, on disk; and a remote's success means that
the remote has the points of the shard that have numeric ids. The last part joins the two sides:
an answer may only be counted because the `Progress` of the call, which ran on the other peer with that
peer's own ring, says where its points are. Two lemmas carry the rest: nothing durable is ever
lost (logs grow, a crash cuts them no shorter than the flushed part), and a step of one execution
leaves the `Progress` of the others. One lemma per action follows, and `NextProgress` puts
them together.

*Reads.* What a peer serves of an id is the last version in one segment, so the proofs follow a segment (`LogMove`: a step leaves it,
appends one point, flushes it, or cuts it at a crash) instead of an action. `ReadInv` says that an execution inserts into the shard in which
its peer looks, and that the requests before one that was sent are over. For `AckedIsServed`, `ServeProgress` refines `Progress` from "is in the
log" to "is the last version of its id", which takes that nobody else is about to insert the id at that peer: `SoleWriter`, from the
hypothesis that the other writers are over or not begun. `SerialWritesConverge` says the same of both peers, and there the danger is a
call of an earlier write that arrives late. `CallProgress` rules it out: with two peers a request makes one call per shard, and when it needs
two successes it is not answered before each of its calls has answered, and so is over (this is where a third peer, or a write that failed, would
break it).

*The refinement.* A point is on a peer's disk in `AckedWrites` when a flushed version of it is in the segment in which it belongs, a request
is acknowledged when its execution is. Of each action it is shown which step of `AckedWrites` it is, and that the guard of that step holds. The guards
take three facts besides `WriteProgress` (`MapInv`): what is in a log was sent to that peer by a client or a call
(`LogWasSent`), an execution runs where a process does (`RunsWhereUp`), and the remotes that a request's peer has now are
those it had when the request fixed its number of successes (`LinkedAsks`). A flush maps to a step that adds a set of points,
as it covers what others inserted; a crash maps to no loss, because it never cuts what was flushed.

*The lifecycle.* `TypeOK` is inductive by itself, thanks to the parts that tie files, locks and requests
together: a delete that removes files is alone because it holds the map's lock, a lock is only on a segment
that exists. For races, `RaceInv` adds that a create holds the locks of the shards it has made
(`HoldsMade`), that a create in the map is answered, so that it drops nothing any more (`InMap`), and that
nobody creates while the process is down (`QuietWhenDown`).

What was answered stays: `OrderInv` says that requests that come one after the other are over in that order, for good (`InOrder`,
`Quiet`; an abandoned `create_dir_all` is the exception, and makes a directory only). So the last one may be looked at alone.
`DeletedStays`: after the last delete there is no `config.json`, hence nothing to load. `CreatedStays` follows the last create
from `mkdir` to its answer (`HasMade`: the files it made are there and its own) and beyond (`Answered`). `StoredInv` is
about creates in turn with deletes at any time: while a delete removes files nothing is served (`RemovesAlone`), and while a
create makes files nothing is served and nobody removes (`CreatesAlone`), because a delete first has to find the name in the map. `UnreadableIsUnfinished` follows from it: a create that
writes its config finds the file that it made itself (`CreatesAlone`), and no file is removed meanwhile.

*Lists.* `ListInv` speaks of a list that is half done. `OwnHeld`: what the peer had when the list began it still has, and it had all
that it had acknowledged. `OwnFirst`: each id that the peer had at the start and whose shard was scanned locally is listed, and the version listed is one of its own,
not older, unless a peer it knew has the id in another shard. A remote's answer cannot break this: by `StoredWhereRead` at the remote it contains
only ids that the remote's ring puts into the current shard; unless the exception applies, such an id is in
that shard here too, and the peer's own points of that shard are merged already. `RemotesMerged`: a remote that was asked for a shard has added what it had acknowledged of it. That uses
`AckedIsReplicated` and `StoredWhereRead` at the remote, whose scan of that shard has the id, and `WritersHaveShards`, as a remote that lacks the
shard answers with nothing. A failed replica sets `failed`, which is why both say
nothing then: a list that failed is never answered with success. The lemmas below them are about the last version of an id in a log; that there is one
takes induction over the naturals, which the proofs get from least elements (`Least`, `Greatest`, from `WFMin` of `WellFoundedInduction`).

*Membership.* The three properties speak of threads that are in their loop, long after the calls they rest on.
`Inv` follows a call from its start. `CallsOK`: a handler runs only while the process that was called does, and
processes have rising numbers, so that a restart is never taken for its predecessor. `MemberOK`: once the handler
is through, the member knows the caller, until its process ends. `Told`: a caller has an id in its answer, or,
having taken the answer, knows the peer or will when its thread gets to it (`WillKnow`: the id is in `todo`, or is
`cur`). `CallerOK` says that each caller was told of the member, `CallersOK` that of two callers of one process one
was told of the other: the one answered second, as `MemberOK` puts the first one in the table by then. The step
lemmas rest on `Growth` (while a process runs, its tables only grow, but for collections that are deleted or
new) and on `CallsMove` and `ThreadsMove`, which list what a step can do to a call and to a thread.

*The locks.* `LockInv` adds to the types: which locks a task has and wants in each of its states (`WaitsOK`), that a call still to
be made is not under way (`CallsOK`), and that lines are lines (`QueueOK`: of any that wait, one has none of the others
ahead of it). `QueueOK` survives a task that joins a line, as nobody is behind it yet, and one that leaves. The proof follows the two
things that can happen to a line (`JoinsOK`, `GoesOnOK`) and then the actions. `UsedStays` is a case of exclusion: to take a collection out
one must have its map alone, to give it remotes its replica holder alone. `NoCircle` follows from the order of the locks: nobody who
waits has a replica holder, so the first in line for one waits for nobody else; and if all wait for maps, none of them has anything.

*The load generator.* `LoadInv` says what was acknowledged at each place of the program: before the batches nothing, after `batch` of them the
ids below `batch * batch_size` or `num_points`, whichever is less (`Sent`), and all of them at the queries. `DivCeil` is the arithmetic of `div_ceil`:
`NumBatches` batches cover the points, each of them has a first one, and none is larger than `batch_size` or all points (`BatchIs`). `IndicesAreBelow` bounds the percentiles. The proof showed what the module
took for granted: the first digit must fit into a `u64`, digits are none of the other characters, and there is at least one query if there are
points. `NumberAssumption` says so now. `PowerAssumption` is arithmetic (powers of naturals are naturals, `10^0` is 1, `10^(d+1)` is ten times `10^d`):
the provers know nothing of `^`, so it is stated, and TLC evaluates it.

`NumeralInv` is what is known of a text that is half read. While digits are read, the number so far shows the digits so far
(`Shows`), and each number that shows *all* digits of the text, divided by the power of ten of those still to come, is
the number so far (`Begins`). The first half gives that the number read is one that the text denotes, the second that there is no other; it is
also why an overflow may be answered at once: whatever digits follow, the number is at least as large (`TooLarge`). No induction
over texts is needed, as the characters are read in steps. `NumeralEnds` says that a text has one numeral only, which is why the suffix is unambiguous.

Only model-checked:

- Liveness (`EveryExecutionEnds`, `BootstrapEnds`, `EveryRequestEnds`, `WritersGetDone`, `EveryRunEnds`): liveness under fairness is out of the proof
  system's reach.

Every invariant and action property of a passing run is proved, and the refinement. The three properties that fail are [findings](#11-findings).

## 11. Findings

- A crash between the creation and the write of `config.json` (`collection.rs:276`) makes
  `TableOfContent::load` panic at each later start (`toc.rs:66`); run `lifecycle_load`.
- Two overlapping creates of a name: the second truncates the first one's config, then panics on
  the database that the first one holds (`local_shard.rs:55`); run `lifecycle_overlap`.
- "The thread will run until the program exits." (`consensus.rs:160`): a bootstrap that fails or gets no answer in time panics at
  the `unwrap` of `consensus.rs:172`, and a Raft message that `step()` refuses ends the loop at `consensus.rs:238`. The program goes on without
  the thread: what is in its channel is lost, later Raft messages are answered with an error, and each `peer/add` panics in its
  handler (`api/cluster.rs:26`); run `membership_thread`.

Two more comments say more than the code does. They have no violation run of their own: the properties state the case as an exception, without
which TLC finds it.

- "Skip adding self" (`consensus.rs:126`): the test is on the current id. A peer without `--peer-id` that restarts and joins again is told of the
  id of its earlier start, does not skip it, and has itself as a peer and as a remote (`RemotesAreKnownPeers`).
- "We only insert if the point is not already present so that local shard takes precedence" (`collection.rs:235`): shard by shard only. If a
  peer with another ring has the id in a shard that is read earlier, its version is listed and the local one is dropped (`SameShard` in
  `LocalTakesPrecedence`).

What the models show and no document of the code contradicts: a failed or abandoned create leaves its
directory, and the name can be neither created nor deleted from then on (`toc.rs:83`); a full disk leaves
an empty config behind a create that succeeded (`collection.rs:281`); a delete that fails half-way comes back
partly with the next start; after a restart a write is acknowledged with a single copy; a member that restarts knows none of those who
joined, and they keep its old entry.

## 12. Not modelled

- *sled, tokio, tonic, raft-rs, hashring*: libraries, modelled by what the code relies on.
- *Raft*: `run_consensus_receiver_loop` and `on_ready` are never called, the loop that runs only logs
  proposals, and no collection operation passes through it.
- *Key collisions*: `PointId::into_string` gives `Id(5)` and `Uuid("5")` one key. Keys are ids here.
- *Reads by id* beyond the operator `Serves`: a lookup in one local database.
- *A delete or create of the collection while its points are written*: the map's lock orders them (`UsedStays` of
  `MapLock`); `Hosts` is constant in `Upsert`.
- *The channel pool*: each RPC makes one of its own, so that no two tasks meet in it.
- *Ticks of the Raft node*: nothing reads what they change.
- *Generated code, the peer's command line, wording of errors and logs; `retrieve_points` of smolbench, which only a test calls.*

## 13. Plan

In this order:

1. Reads by id as a process of their own, beside writes and joins, with the key of a point and its collision.
2. Ticks, once the loop does something with a node that is ready.
