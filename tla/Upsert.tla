------------------------------- MODULE Upsert -------------------------------
(***************************************************************************)
(* The replicated write path of one collection: an HTTP PUT of points at   *)
(* any peer, Collection::upsert_points on that peer, the RPCs to its       *)
(* remote shards and Collection::upsert_points again on each of them, with *)
(* crashes, restarts, failed and late RPCs and clients that hang up.       *)
(*                                                                         *)
(* A segment is a sled database, which appends to a log: log[n][s] is what *)
(* peer n's process has inserted in segment 0 of shard s, oldest first,    *)
(* and flushed[n][s] is how much of it is known to be on disk.             *)
(***************************************************************************)
EXTENDS Naturals, Sequences

CONSTANTS
  Node,         \* peers
  Shard,        \* shard ids
  PointId,      \* point ids
  NumericId,    \* the ids that are PointId::Id; the others are PointId::Uuid
  Payload,
  Op,           \* upsert requests, one HTTP PUT each
  Batch,        \* Batch[o]: points of request o, the last one of each id
  Before,       \* Before[o]: requests that are over before o is sent
  Hosts,        \* peers that have the collection in their table of content
  Shards,       \* Shards[n]: the collection's shards loaded at n
  Segmented,    \* Segmented[n]: those that have segment 0
  Ring,         \* Ring[S][id]: where a hash ring of the shards S puts id
  Addressable,  \* peer ids RemoteShard::get_channel_service has a URI for
  InitRemotes,  \* InitRemotes[n]: peers that joining left in n's replica sets
  MaxCrash,     \* bound on the crashes of a behaviour
  None          \* no peer, no shard

ConsistencyFactor == 2

Point == [id : PointId, payload : Payload]

(* A call <<o, s, m>> is the RPC that o's peer sends m for shard s.        *)
Call == Op \X Shard \X Node

(* The executions of Collection::upsert_points: those of an HTTP handler   *)
(* (local_only = false) and those of an RPC handler (local_only = true).   *)
Task == Op \cup Call

ASSUME IdAssumption ==
  /\ NumericId \subseteq PointId
  /\ None \notin Node \cup Shard
  /\ Op \cap Call = {}

ASSUME RequestAssumption ==
  /\ Batch \in [Op -> SUBSET Point]
  /\ \A o \in Op : \A p, q \in Batch[o] : p.id = q.id => p = q
  /\ Before \in [Op -> SUBSET Op]

ASSUME PlacementAssumption ==
  /\ Hosts \subseteq Node
  /\ Shards \in [Node -> SUBSET Shard]
  /\ Segmented \in [Node -> SUBSET Shard]
  /\ Ring \in [SUBSET Shard -> [PointId -> Shard]]
  /\ \A S \in (SUBSET Shard) \ {{}} : \A id \in PointId : Ring[S][id] \in S
  /\ InitRemotes \in [Node -> Seq(Node)]
  /\ \A n \in Node : \A i, j \in 1..Len(InitRemotes[n]) :
       /\ InitRemotes[n][i] # n
       /\ InitRemotes[n][i] = InitRemotes[n][j] => i = j
  /\ MaxCrash \in Nat

VARIABLES
  up,       \* up[n]: n's process runs
  remotes,  \* remotes[n]: peers of the remote shards in n's replica sets
  log,      \* log[n][s]: points inserted in the segment, oldest first
  flushed,  \* flushed[n][s]: length of the log's durable prefix
  task,     \* task[t]: local variables of an execution of upsert_points
  crashes   \* number of crashes so far

vars == <<up, remotes, log, flushed, task, crashes>>

-----------------------------------------------------------------------------

Route(n, id) == Ring[Shards[n]][id]

(* One entry of what select_shards returns, with the points themselves.    *)
Group(n, points, s) == {p \in points : Route(n, p.id) = s}

(* A fault: the RPC carries all points.                                    *)
PointsWithUuids(t) ==
  IF t \in Op THEN Batch[t] ELSE Group(task[t[1]].node, Batch[t[1]], t[2])

(* The points an execution is called with. An RPC carries only the points  *)
(* whose id is numeric.                                                    *)
Points(t) ==
  IF t \in Op THEN Batch[t]
  ELSE {p \in Group(task[t[1]].node, Batch[t[1]], t[2]) : p.id \in NumericId}

Active(t) == task[t].st \in {"pick", "local", "remote", "await"}

MinOf(a, b) == IF a <= b THEN a ELSE b

NumReplicas(n) == Len(remotes[n]) + 1

MinDesiredSuccess(t, n) ==
  IF t \in Op THEN MinOf(NumReplicas(n), ConsistencyFactor) ELSE 1

TotalSuccess(r) == r.remoteOk + (IF r.localOk THEN 1 ELSE 0)

(* An execution that has not begun. Its fields are, once it runs: the peer *)
(* that executes it, the shards to come, the current shard, its points not *)
(* yet inserted, the results of the local and of the remote shards, the    *)
(* successes it needs of a shard and the peers still to be called.         *)
NotBegun == [st |-> "idle", node |-> None, todo |-> {}, shard |-> None,
             left |-> {}, localOk |-> FALSE, remoteOk |-> 0, need |-> 1,
             peers |-> <<>>]

Init ==
  /\ up = [n \in Node |-> TRUE]
  /\ remotes = InitRemotes
  /\ log = [n \in Node |-> [s \in Shard |-> <<>>]]
  /\ flushed = [n \in Node |-> [s \in Shard |-> 0]]
  /\ task = [t \in Task |-> NotBegun]
  /\ crashes = 0

-----------------------------------------------------------------------------

Becomes(t, r) == task' = [task EXCEPT ![t] = r]

(* Lookup of the collection and select_shards: both fail before any write. *)
(* The replica sets stay as they are while the execution holds its locks,  *)
(* so that the successes it asks of each shard are known from here on.     *)
Begin(t, n) ==
  /\ Becomes(t, [task[t] EXCEPT
       !.st = IF n \in Hosts /\ (Points(t) = {} \/ Shards[n] # {}) THEN "pick" ELSE "err",
       !.node = n,
       !.todo = {Route(n, p.id) : p \in Points(t)},
       !.need = MinDesiredSuccess(t, n)])
  /\ UNCHANGED <<up, remotes, log, flushed, crashes>>

(* A client sends its next request once those before it are over.          *)
Put(o, n) ==
  /\ up[n]
  /\ task[o].st = "idle"
  /\ \A q \in Before[o] : task[q].st # "idle" /\ ~Active(q)
  /\ Begin(o, n)

(* The RPC arrives: at once, late, or never. It may arrive after its       *)
(* sender gave up on it.                                                   *)
Serve(c) ==
  /\ up[c[3]]
  /\ task[c].st = "sent"
  /\ Begin(c, c[3])

(* A fault: a replica takes the shard that its caller put the points in.   *)
TakesCallersShard(t) ==
  /\ task[t].st = "pick"
  /\ \E s \in task[t].todo :
       LET n == task[t].node
           at == IF t \in Op THEN s ELSE t[2] IN
       Becomes(t, [task[t] EXCEPT
         !.st = IF at \in Segmented[n] THEN "local" ELSE "remote",
         !.todo = @ \ {s},
         !.shard = at,
         !.left = Group(n, Points(t), s),
         !.localOk = FALSE,
         !.remoteOk = 0,
         !.peers = IF t \in Op THEN remotes[n] ELSE <<>>])
  /\ UNCHANGED <<up, remotes, log, flushed, crashes>>

(* The loop takes the next shard, in the arbitrary order of a HashMap. A   *)
(* shard without segment 0 fails locally, and its remotes are tried still. *)
PickShard(t) ==
  /\ task[t].st = "pick"
  /\ \E s \in task[t].todo :
       LET n == task[t].node IN
       Becomes(t, [task[t] EXCEPT
         !.st = IF s \in Segmented[n] THEN "local" ELSE "remote",
         !.todo = @ \ {s},
         !.shard = s,
         !.left = Group(n, Points(t), s),
         !.localOk = FALSE,
         !.remoteOk = 0,
         !.peers = IF t \in Op THEN remotes[n] ELSE <<>>])
  /\ UNCHANGED <<up, remotes, log, flushed, crashes>>

(* Segment::insert_points, one db.insert at a time: other executions may   *)
(* insert in the same segment in between. The batch's order is left open.  *)
InsertPoint(t) ==
  /\ task[t].st = "local"
  /\ \E p \in task[t].left :
       /\ Becomes(t, [task[t] EXCEPT !.left = @ \ {p}])
       /\ log' = [log EXCEPT ![task[t].node][task[t].shard] = Append(@, p)]
  /\ UNCHANGED <<up, remotes, flushed, crashes>>

(* A fault: the insert returns without db.flush.                           *)
FlushesLater(t) ==
  /\ task[t].st = "local"
  /\ task[t].left = {}
  /\ Becomes(t, [task[t] EXCEPT !.st = "remote", !.localOk = TRUE])
  /\ UNCHANGED <<up, remotes, log, flushed, crashes>>

(* db.flush: all that the segment holds is now on disk.                    *)
Flush(t) ==
  /\ task[t].st = "local"
  /\ task[t].left = {}
  /\ flushed' = [flushed EXCEPT ![task[t].node][task[t].shard] =
                   Len(log[task[t].node][task[t].shard])]
  /\ Becomes(t, [task[t] EXCEPT !.st = "remote", !.localOk = TRUE])
  /\ UNCHANGED <<up, remotes, log, crashes>>

(* An I/O error of an insert or of the flush: insert_points returns, with  *)
(* what it already inserted left in place, and the remotes are next.       *)
LocalFails(t) ==
  /\ task[t].st = "local"
  /\ Becomes(t, [task[t] EXCEPT !.st = "remote", !.left = {}])
  /\ UNCHANGED <<up, remotes, log, flushed, crashes>>

(* execute_cluster_operation calls the next remote. A peer that has no     *)
(* address is an error at once.                                            *)
CallRemote(o) ==
  /\ task[o].st = "remote"
  /\ task[o].peers # <<>>
  /\ LET m == Head(task[o].peers)
         c == <<o, task[o].shard, m>> IN
     IF m \in Addressable
     THEN task' = [task EXCEPT ![o].st = "await", ![c].st = "sent"]
     ELSE Becomes(o, [task[o] EXCEPT !.peers = Tail(@)])
  /\ UNCHANGED <<up, remotes, log, flushed, crashes>>

(* The remote's answer is received.                                        *)
Answered(o) ==
  /\ task[o].st = "await"
  /\ LET c == <<o, task[o].shard, Head(task[o].peers)>> IN
     /\ task[c].st \in {"ok", "err"}
     /\ Becomes(o, [task[o] EXCEPT
          !.st = "remote",
          !.peers = Tail(@),
          !.remoteOk = IF task[c].st = "ok" THEN @ + 1 ELSE @])
  /\ UNCHANGED <<up, remotes, log, flushed, crashes>>

(* A fault: the error of a remote is counted as a success.                 *)
CountsFailure(o) ==
  /\ task[o].st = "await"
  /\ Becomes(o, [task[o] EXCEPT !.st = "remote", !.peers = Tail(@),
                                !.remoteOk = @ + 1])
  /\ UNCHANGED <<up, remotes, log, flushed, crashes>>

(* A fault: no timeout, only a peer that is down is noticed.               *)
FailsIfDown(o) ==
  /\ task[o].st = "await"
  /\ ~up[Head(task[o].peers)]
  /\ Becomes(o, [task[o] EXCEPT !.st = "remote", !.peers = Tail(@)])
  /\ UNCHANGED <<up, remotes, log, flushed, crashes>>

(* The channel's 10 s timeout, a refused connection or a lost answer: an   *)
(* error for the caller, whatever becomes of the call.                     *)
CallFails(o) ==
  /\ task[o].st = "await"
  /\ Becomes(o, [task[o] EXCEPT !.st = "remote", !.peers = Tail(@)])
  /\ UNCHANGED <<up, remotes, log, flushed, crashes>>

(* A fault: only the local result is judged.                               *)
JudgesLocalOnly(t) ==
  /\ task[t].st = "remote"
  /\ task[t].peers = <<>>
  /\ Becomes(t, [task[t] EXCEPT !.st = IF task[t].localOk THEN "pick" ELSE "err"])
  /\ UNCHANGED <<up, remotes, log, flushed, crashes>>

(* All replicas of the shard were tried: give up, or go on with the next.  *)
Judge(t) ==
  /\ task[t].st = "remote"
  /\ task[t].peers = <<>>
  /\ Becomes(t, [task[t] EXCEPT
       !.st = IF task[t].localOk /\ TotalSuccess(task[t]) >= task[t].need
              THEN "pick" ELSE "err"])
  /\ UNCHANGED <<up, remotes, log, flushed, crashes>>

Finish(t) ==
  /\ task[t].st = "pick"
  /\ task[t].todo = {}
  /\ Becomes(t, [task[t] EXCEPT !.st = "ok"])
  /\ UNCHANGED <<up, remotes, log, flushed, crashes>>

(* The HTTP client hangs up: the handler's future is dropped where it      *)
(* awaits, which upsert_points only ever does inside an RPC.               *)
ClientGone(o) ==
  /\ task[o].st = "await"
  /\ Becomes(o, [task[o] EXCEPT !.st = "gone"])
  /\ UNCHANGED <<up, remotes, log, flushed, crashes>>

(* A fault: the log may lose what was flushed.                             *)
LosesFlushed(n) ==
  /\ up[n]
  /\ crashes < MaxCrash
  /\ crashes' = crashes + 1
  /\ up' = [up EXCEPT ![n] = FALSE]
  /\ log' = [log EXCEPT ![n] = [s \in Shard |-> <<>>]]
  /\ task' = [t \in Task |-> IF Active(t) /\ task[t].node = n
                             THEN [task[t] EXCEPT !.st = "gone"] ELSE task[t]]
  /\ UNCHANGED <<remotes, flushed>>

(* The process dies: sled keeps the flushed part of each log, and as much  *)
(* of the rest as its background flushes had written.                      *)
Crash(n) ==
  /\ up[n]
  /\ crashes < MaxCrash
  /\ crashes' = crashes + 1
  /\ up' = [up EXCEPT ![n] = FALSE]
  /\ \E kept \in [Shard -> UNION {flushed[n][s]..Len(log[n][s]) : s \in Shard}] :
       /\ \A s \in Shard : kept[s] \in flushed[n][s]..Len(log[n][s])
       /\ log' = [log EXCEPT ![n] = [s \in Shard |-> SubSeq(log[n][s], 1, kept[s])]]
       /\ flushed' = [flushed EXCEPT ![n] = kept]
  /\ task' = [t \in Task |-> IF Active(t) /\ task[t].node = n
                             THEN [task[t] EXCEPT !.st = "gone"] ELSE task[t]]
  /\ UNCHANGED remotes

(* Collection::load: the replica sets come back without their remotes.     *)
Restart(n) ==
  /\ ~up[n]
  /\ up' = [up EXCEPT ![n] = TRUE]
  /\ remotes' = [remotes EXCEPT ![n] = <<>>]
  /\ UNCHANGED <<log, flushed, task, crashes>>

(* add_remote_shards, when n learns of m as a peer, in add_peer_to_known   *)
(* or when it bootstraps: it needs the replica holder's write lock, and    *)
(* executions hold the read lock to their end. Peer ids are distinct.      *)
AddRemoteShards(n, m) ==
  /\ up[n]
  /\ n \in Hosts
  /\ n # m
  /\ \A t \in Task : Active(t) => task[t].node # n
  /\ \A i \in 1..Len(remotes[n]) : remotes[n][i] # m
  /\ remotes' = [remotes EXCEPT ![n] = Append(@, m)]
  /\ UNCHANGED <<up, log, flushed, task, crashes>>

(* One step of the code that runs an execution.                            *)
LocalStep(t) ==
  \/ PickShard(t)
  \/ InsertPoint(t)
  \/ Flush(t)
  \/ LocalFails(t)
  \/ Judge(t)
  \/ Finish(t)

RemoteStep(o) ==
  \/ CallRemote(o)
  \/ Answered(o)
  \/ CallFails(o)

Next ==
  \/ \E o \in Op : RemoteStep(o) \/ ClientGone(o)
  \/ \E o \in Op, n \in Node : Put(o, n)
  \/ \E c \in Call : Serve(c)
  \/ \E t \in Task : LocalStep(t)
  \/ \E n \in Node : Crash(n) \/ Restart(n)
  \/ \E n, m \in Node : AddRemoteShards(n, m)

(* The runtime keeps running an execution, and a call that is not answered *)
(* times out. Nothing says that a call is served or a peer restarted.      *)
Fairness ==
  /\ \A t \in Task : WF_vars(LocalStep(t))
  /\ \A o \in Op : WF_vars(RemoteStep(o))

Spec == Init /\ [][Next]_vars

FairSpec == Spec /\ Fairness

-----------------------------------------------------------------------------

TaskRecord ==
  [st : {"idle", "sent", "pick", "local", "remote", "await", "ok", "err", "gone"},
   node : Node \cup {None}, todo : SUBSET Shard, shard : Shard \cup {None},
   left : SUBSET Point, localOk : BOOLEAN, remoteOk : Nat, need : {1, 2},
   peers : Seq(Node)]

(* Every variable has the type its declaration says, and what is on disk   *)
(* is a prefix of what was inserted.                                       *)
TypeOK ==
  /\ up \in [Node -> BOOLEAN]
  /\ remotes \in [Node -> Seq(Node)]
  /\ log \in [Node -> [Shard -> Seq(Point)]]
  /\ flushed \in [Node -> [Shard -> Nat]]
  /\ \A n \in Node, s \in Shard : flushed[n][s] <= Len(log[n][s])
  /\ task \in [Task -> TaskRecord]
  /\ crashes \in 0..MaxCrash

HoldsDurably(n, p) ==
  \E s \in Shard : \E i \in 1..flushed[n][s] : log[n][s][i] = p

(* What a 200 of the PUT promises, whatever crashes, fails or arrives late *)
(* before or after it: each point was written to disk by the peer that     *)
(* answered and, when that peer knew of other replicas, each point with a  *)
(* numeric id also by one of them. That is the consistency factor of 2,    *)
(* kept although the RPC drops UUIDs, successes are counted per shard, the *)
(* remote routes the points anew and an execution may die half-way.        *)
AckedIsReplicated ==
  \A o \in Op : task[o].st = "ok" =>
    \A p \in Batch[o] :
      /\ HoldsDurably(task[o].node, p)
      /\ task[o].need = 2 /\ p.id \in NumericId =>
           \E m \in Node \ {task[o].node} : HoldsDurably(m, p)

(* The argument for AckedIsReplicated: an invariant every step keeps.      *)

HeldByOther(n, p) == \E m \in Node \ {n} : HoldsDurably(m, p)

(* As many replicas as t asks of a shard have p on disk.                   *)
Done(t, p) ==
  /\ HoldsDurably(task[t].node, p)
  /\ task[t].need = 2 /\ p.id \in NumericId => HeldByOther(task[t].node, p)

(* Who executes what: a request that began has a peer and calls others     *)
(* only; a call that was sent belongs to a request that began, and is      *)
(* executed by the peer it names, which calls nobody.                      *)
WellPlaced ==
  /\ \A n \in Node : \A i \in 1..Len(remotes[n]) : remotes[n][i] # n
  /\ \A o \in Op :
       /\ task[o].st # "sent"
       /\ task[o].st = "idle" <=> task[o].node = None
       /\ task[o].st = "idle" => task[o].peers = <<>>
       /\ task[o].st = "await" => task[o].peers # <<>>
       /\ \A i \in 1..Len(task[o].peers) : task[o].peers[i] # task[o].node
  /\ \A c \in Call :
       /\ task[c].st # "await"
       /\ task[c].peers = <<>>
       /\ task[c].need = 1
       /\ task[c].st # "idle" => task[c[1]].node \in Node \ {c[3]}
       /\ task[c].st \notin {"idle", "sent"} => task[c].node = c[3]

InShard(t) == {p \in Points(t) : Route(task[t].node, p.id) = task[t].shard}

(* How far an execution is: each of its points is done, or in a shard to   *)
(* come, or in the current shard. There it waits to be inserted, or is in  *)
(* the log and, once that is flushed, on disk; and a remote's success says *)
(* that the remote has those of its points that have numeric ids.          *)
Progress(t) ==
  LET r == task[t]
      n == r.node IN
  /\ r.st \in {"local", "remote", "await"} => r.shard \in Shard
  /\ Active(t) \/ r.st = "ok" =>
       \A p \in Points(t) :
         \/ Done(t, p)
         \/ Active(t) /\ Route(n, p.id) \in r.todo
         \/ Active(t) /\ r.st # "pick" /\ p \in InShard(t)
  /\ r.st = "local" =>
       /\ ~r.localOk
       /\ r.remoteOk = 0
       /\ \A p \in InShard(t) \ r.left :
            \E i \in 1..Len(log[n][r.shard]) : log[n][r.shard][i] = p
  /\ r.st \in {"remote", "await"} =>
       /\ r.localOk => \A p \in InShard(t) : HoldsDurably(n, p)
       /\ r.remoteOk > 0 =>
            \A p \in InShard(t) : p.id \in NumericId => HeldByOther(n, p)

WriteProgress ==
  /\ TypeOK
  /\ WellPlaced
  /\ \A t \in Task : Progress(t)

(* A point only ever lies in the shard where its holder's own hash ring    *)
(* puts its id, so that a get by id, which asks that shard alone, finds it *)
(* at every peer that holds it: even when the peers have different shards, *)
(* since an RPC's shard is not taken from its sender.                      *)
StoredWhereRead ==
  \A n \in Node, s \in Shard : \A i \in 1..Len(log[n][s]) :
    Route(n, log[n][s][i].id) = s

(* The version of a point that n serves: the last one inserted.            *)
Versions(n, id) ==
  {i \in 1..Len(log[n][Route(n, id)]) : log[n][Route(n, id)][i].id = id}

Serves(n, p) ==
  LET l == log[n][Route(n, p.id)] IN
  \E i \in Versions(n, p.id) :
    /\ l[i] = p
    /\ \A j \in Versions(n, p.id) : j <= i

Writers(id) == {q \in Op : \E p \in Batch[q] : p.id = id}

(* Two peers, and a client that sends its writes of an id one after the    *)
(* other, through whichever peer, each answered 200 by a peer that knew    *)
(* the other: both peers then serve its last write of that id. Every       *)
(* replica was waited for, so no call is left that could overtake.         *)
SerialWritesConverge ==
  \A o \in Op : \A p \in Batch[o] :
    /\ \A q \in Writers(p.id) :
         \/ q \in Before[o] \cup {o} /\ task[q].st = "ok" /\ task[q].need = 2
         \/ task[q].st = "idle"
    /\ task[o].st = "ok"
    /\ p.id \in NumericId
    /\ \E n, m \in Node : Node = {n, m}
    => \A n \in Node : Serves(n, p)

(* The same client and an answered peer: until a later write of the id     *)
(* begins, the peer that answered 200 serves that write, crash or not,     *)
(* provided the client's writes of the id all went through this peer and   *)
(* nobody else writes the id. Earlier writes that failed, or whose caller  *)
(* hung up, may have left inserts and calls behind; none of them shows.    *)
AckedIsServed ==
  \A o \in Op : \A p \in Batch[o] :
    /\ task[o].st = "ok"
    /\ \A q \in Writers(p.id) :
         \/ q \in Before[o] \cup {o} /\ task[q].node = task[o].node
         \/ task[q].st = "idle"
    => Serves(task[o].node, p)

(* A request that a peer took up does not stay unfinished: its RPCs are    *)
(* awaited one after the other for 10 s at most.                           *)
EveryExecutionEnds == \A t \in Task : Active(t) ~> ~Active(t)
=============================================================================
