----------------------------- MODULE ListPoints -----------------------------
(***************************************************************************)
(* Reads of a whole collection, GET .../points, beside the writes: the     *)
(* branch of Collection::get_points without ids. Shard by shard, the peer  *)
(* reads its own shard, asks each remote for the shard of the same number  *)
(* and merges the answers. Writes, crashes and joins go on meanwhile.      *)
(*                                                                         *)
(* A scan of a segment is one step, and so is a remote's answer: nobody    *)
(* but the reader sees when the answer arrives.                            *)
(***************************************************************************)
EXTENDS Upsert

VARIABLE
  list  \* local variables of the request

listVars == <<vars, list>>

(* Besides the peer, the shards to come, the current shard, its remotes to *)
(* come, the points merged so far and whether a replica failed, the record *)
(* keeps what the properties compare the answer with: the requests that    *)
(* were answered with success when it began, the peers it knew, and where  *)
(* the newest version of each id was in the peer's log.                    *)
NotListed == [st |-> "idle", node |-> None, todo |-> {}, shard |-> None,
              peers |-> <<>>, merged |-> {}, failed |-> FALSE,
              acked |-> {}, known |-> {}, newest |-> [id \in PointId |-> 0]]

ListInit == Init /\ list = NotListed

Listing == list.st \in {"pick", "local", "remote"}

(* Once it is answered or dropped, nothing of the request is left.         *)
Ends(st) == list' = [NotListed EXCEPT !.st = st]

(* Segment::get_points of a whole segment: the last version of each id.    *)
Contents(n, s) ==
  LET l == log[n][s] IN
  {l[i] : i \in {k \in 1..Len(l) : \A j \in (k + 1)..Len(l) : l[j].id # l[k].id}}

(* A fault: a later answer replaces an earlier one.                        *)
LastWins(merged, points) ==
  points \cup {p \in merged : \A q \in points : q.id # p.id}

(* A fault: an id may have several points.                                 *)
KeepsAll(merged, points) == merged \cup points

(* An id that is there already keeps its point.                            *)
Merge(merged, points) ==
  merged \cup {p \in points : \A q \in merged : q.id # p.id}

(* The position of the newest version of id in the segment n reads it from.*)
Newest(n, id) ==
  CHOOSE i \in 0..Len(log[n][Route(n, id)]) :
    /\ i \in Versions(n, id) \cup {0}
    /\ \A j \in Versions(n, id) : j <= i

ListBegin(n) ==
  /\ up[n]
  /\ list.st = "idle"
  /\ n \in Hosts
  /\ list' = [list EXCEPT
       !.st = "pick",
       !.node = n,
       !.todo = Shards[n],
       !.acked = {o \in Op : task[o].st = "ok"},
       !.known = {remotes[n][i] : i \in 1..Len(remotes[n])},
       !.newest = [id \in PointId |-> IF Shards[n] = {} THEN 0 ELSE Newest(n, id)]]

ListPickShard ==
  /\ list.st = "pick"
  /\ \E s \in list.todo :
       list' = [list EXCEPT !.st = "local", !.todo = @ \ {s}, !.shard = s]

(* The local replica: a shard without segment 0 is an error.               *)
ListLocal ==
  /\ list.st = "local"
  /\ LET n == list.node IN
     IF list.shard \in Segmented[n]
     THEN list' = [list EXCEPT !.st = "remote", !.peers = remotes[n],
                               !.merged = Merge(@, Contents(n, list.shard))]
     ELSE list' = [list EXCEPT !.st = "remote", !.peers = remotes[n],
                               !.failed = TRUE]

(* A remote answers with its shard of the same number, or with nothing if  *)
(* it has none. The answer leaves out the ids that are not numeric.        *)
ListRemote ==
  /\ list.st = "remote"
  /\ list.peers # <<>>
  /\ LET m == Head(list.peers)
         s == list.shard IN
     /\ m \in Addressable /\ up[m] /\ m \in Hosts
     /\ s \in Shards[m] => s \in Segmented[m]
     /\ list' = [list EXCEPT !.peers = Tail(@),
          !.merged = IF s \in Shards[m]
                     THEN Merge(@, {p \in Contents(m, s) : p.id \in NumericId})
                     ELSE @]

(* A fault: the error of a remote is dropped.                              *)
SkipsRemote ==
  /\ list.st = "remote"
  /\ list.peers # <<>>
  /\ list' = [list EXCEPT !.peers = Tail(@)]

(* A remote without an address, a refused or lost call, a timeout, or an   *)
(* error of the remote. The other remotes are asked still.                 *)
ListRemoteFails ==
  /\ list.st = "remote"
  /\ list.peers # <<>>
  /\ list' = [list EXCEPT !.peers = Tail(@), !.failed = TRUE]

(* The shard's results are collected, and one error among them is the      *)
(* answer.                                                                 *)
ListCollect ==
  /\ list.st = "remote"
  /\ list.peers = <<>>
  /\ IF list.failed THEN Ends("err") ELSE list' = [list EXCEPT !.st = "pick"]

(* No points at all is answered as an error.                               *)
ListFinish ==
  /\ list.st = "pick"
  /\ list.todo = {}
  /\ Ends(IF list.merged = {} THEN "err" ELSE "ok")

(* The client hangs up while a remote is awaited.                          *)
ListGone ==
  /\ list.st = "remote"
  /\ list.peers # <<>>
  /\ Ends("gone")

ListStep ==
  \/ \E n \in Node : ListBegin(n)
  \/ ListPickShard
  \/ ListLocal
  \/ ListRemote
  \/ ListRemoteFails
  \/ ListCollect
  \/ ListFinish
  \/ ListGone

ListCrash(n) ==
  /\ Crash(n)
  /\ IF Listing /\ list.node = n THEN Ends("gone") ELSE UNCHANGED list

(* A request holds the replica holder's read lock to its end.              *)
Join(n, m) ==
  /\ AddRemoteShards(n, m)
  /\ Listing => list.node # n
  /\ UNCHANGED list

ListNext ==
  \/ ListStep /\ UNCHANGED vars
  \/ \E o \in Op : (RemoteStep(o) \/ ClientGone(o)) /\ UNCHANGED list
  \/ \E o \in Op, n \in Node : Put(o, n) /\ UNCHANGED list
  \/ \E c \in Call : Serve(c) /\ UNCHANGED list
  \/ \E t \in Task : LocalStep(t) /\ UNCHANGED list
  \/ \E n \in Node : Restart(n) /\ UNCHANGED list
  \/ \E n \in Node : ListCrash(n)
  \/ \E n, m \in Node : Join(n, m)

ListSpec == ListInit /\ [][ListNext]_listVars

-----------------------------------------------------------------------------

(* The request's record has its type, and no id is listed twice.           *)
ListTypeOK ==
  /\ list \in [st : {"idle", "pick", "local", "remote", "ok", "err", "gone"},
               node : Node \cup {None}, todo : SUBSET Shard,
               shard : Shard \cup {None}, peers : Seq(Node),
               merged : SUBSET Point, failed : BOOLEAN, acked : SUBSET Op,
               known : SUBSET Node, newest : [PointId -> Nat]]
  /\ \A p, q \in list.merged : p.id = q.id => p = q

Answers == list.st # "ok" /\ list'.st = "ok"

(* A list that is answered with success lacks no point that was answered   *)
(* for before it began by the peer itself or, with a numeric id, by a peer *)
(* it knew, in a shard that the peer has too: whatever failed, crashed or  *)
(* joined since, a replica that could not be read makes the list fail and  *)
(* never makes it shorter. Peers may have different shards.                *)
ListIsComplete ==
  [][Answers =>
       \A o \in list.acked : \A p \in Batch[o] :
         \/ task[o].node = list.node
         \/ /\ task[o].node \in list.known /\ p.id \in NumericId
            /\ Route(task[o].node, p.id) \in Shards[list.node]
         => \E q \in list.merged : q.id = p.id]_listVars

(* None of the peers that n knows has an id in another one of n's shards,  *)
(* as it may when the peers were given different shards.                   *)
SameShard(n, known, id) ==
  \A m \in known \cap Hosts : Route(m, id) \in Shards[n] => Route(m, id) = Route(n, id)

(* collection.rs:235 says that the local shard takes precedence: an id     *)
(* that the peer held when the list began is listed with a version of the  *)
(* peer's own that is at least that new, though remotes that hold others   *)
(* answer too and writes go on. A remote that has the id in another shard, *)
(* which may be listed first, is the only exception.                       *)
LocalTakesPrecedence ==
  [][Answers =>
       \A p \in list.merged :
         LET n == list.node IN
         list.newest[p.id] > 0 /\ SameShard(n, list.known, p.id) =>
           \E i \in Versions(n, p.id) :
             i >= list.newest[p.id] /\ log[n][Route(n, p.id)][i] = p]_listVars
=============================================================================
