------------------------------ MODULE MapLock ------------------------------
(***************************************************************************)
(* Who waits for whom: the lock of each peer's map of collections and the  *)
(* lock of each collection's replica holder, which requests keep while     *)
(* they call other peers, where the call waits for the same locks.         *)
(*                                                                         *)
(* Both are tokio RwLocks, which are fair: whoever asks stands in line     *)
(* behind all who asked before, and a reader behind a writer waits even    *)
(* while other readers have the lock.                                      *)
(***************************************************************************)
CONSTANTS
  Node,        \* peers
  Coll,        \* names of collections
  Shard,       \* shards of a collection
  Points,      \* requests that write, list, read or count points
  Meta,        \* requests that create or delete a collection
  AddPeer,     \* add_peer_to_known of a peer, called at a member
  Link,        \* what a bootstrap does for a peer in the answer
  PeerOf,      \* PeerOf[t]: the peer a request or bootstrap runs on
  CollOf,      \* CollOf[t]: the collection a request names
  NewPeer,     \* NewPeer[t]: the peer that an AddPeer or a Link adds
  Loaded,      \* Loaded[n]: collections of n at first
  InitRemotes, \* InitRemotes[n]: peers of the remote shards of each of them
  None

Request == Points \cup Meta \cup AddPeer \cup Link

(* A call <<t, s, m>> is the RPC that t sends m for shard s.               *)
Call == {c \in Points \X Shard \X Node : c[3] # PeerOf[c[1]]}

Task == Request \cup Call

(* Those that use a collection, those that take a map with write(), and    *)
(* those that go through all collections.                                  *)
User == Points \cup Call
Writer == Meta \cup AddPeer
Linker == AddPeer \cup Link

(* The lock of n's map, and that of the replica holder of its collection k.*)
Map(n) == <<n, None>>
Holder(n, k) == <<n, k>>
Lock == Node \X (Coll \cup {None})

ASSUME KindAssumption ==
  /\ Points \cap (Meta \cup AddPeer \cup Link) = {}
  /\ Meta \cap (AddPeer \cup Link) = {}
  /\ AddPeer \cap Link = {}
  /\ Request \cap Call = {}

ASSUME PlacementAssumption ==
  /\ PeerOf \in [Request -> Node]
  /\ CollOf \in [Request -> Coll]
  /\ NewPeer \in [AddPeer \cup Link -> Node]
  /\ Loaded \in [Node -> SUBSET Coll]
  /\ InitRemotes \in [Node -> SUBSET Node]
  /\ \A n \in Node : n \notin InitRemotes[n]
  /\ \A t \in AddPeer \cup Link : NewPeer[t] # PeerOf[t]
  /\ None \notin Coll \cup Lock

VARIABLES
  present,  \* present[n]: collections in n's map
  remotes,  \* remotes[n][k]: peers of the remote shards of n's collection k
  task      \* task[t]: where t is, and the locks it has or waits for

vars == <<present, remotes, task>>

-----------------------------------------------------------------------------

Home(t) == IF t \in Request THEN PeerOf[t] ELSE t[3]

(* A task's fields: its state, the lock it waits for, who waits for that   *)
(* lock since before it did, the locks it has, the collection it is at,    *)
(* the calls (of a request for points) or the collections (of a linker)    *)
(* still to come, the call it waits for, and the remotes it found.         *)
NotBegun(t) ==
  [st |-> "idle", wants |-> None, ahead |-> {}, has |-> {},
   at |-> IF t \in Request THEN CollOf[t] ELSE CollOf[t[1]],
   todo |-> {}, call |-> None, saw |-> {}]

Init ==
  /\ present = Loaded
  /\ remotes = [n \in Node |-> [k \in Coll |->
                  IF k \in Loaded[n] THEN InitRemotes[n] ELSE {}]]
  /\ task = [t \in Task |-> NotBegun(t)]

Active(t) == task[t].st \notin {"idle", "sent"}

(* Who takes a lock with write(), everyone else takes it with read().      *)
Exclusive(t, l) ==
  \/ t \in Writer /\ l = Map(Home(t))
  \/ t \in Linker /\ l # Map(Home(t))

Clash(t, u, l) == Exclusive(t, l) \/ Exclusive(u, l)

(* RwLock::read and write: t joins those who wait for l, as r.             *)
Ask(t, l, r) ==
  task' = [task EXCEPT ![t] = [r EXCEPT
             !.wants = l, !.ahead = {u \in Task \ {t} : task[u].wants = l}]]

(* t goes on as r, which waits for nothing: nobody is behind it any more.  *)
GoesOn(t, r) ==
  task' = [u \in Task |->
             IF u = t THEN r
             ELSE [task[u] EXCEPT !.ahead = task[u].ahead \ {t}]]

(* t is over: it has no lock and waits for none. It may be sent again.     *)
Ends(t) == GoesOn(t, NotBegun(t))

(* A fault: readers do not mind a writer that waits.                       *)
ReadersFirst(t) ==
  /\ task[t].wants # None
  /\ Exclusive(t, task[t].wants) => task[t].ahead = {}
  /\ \A u \in Task :
       task[t].wants \in task[u].has => ~Clash(t, u, task[t].wants)

(* A fault: the first in line enters whoever is inside.                    *)
EntersOccupied(t) == task[t].wants # None /\ task[t].ahead = {}

(* t is the first in line, and nobody inside minds.                        *)
MayEnter(t) ==
  /\ task[t].wants # None
  /\ task[t].ahead = {}
  /\ \A u \in Task :
       task[t].wants \in task[u].has => ~Clash(t, u, task[t].wants)

-----------------------------------------------------------------------------

(* A request arrives, again and again, and asks for the map, a create with *)
(* its files made. The calls of its last time are over, or lost: a bound   *)
(* on the calls of a request that are served at the same time.             *)
Send(t) ==
  LET n == Home(t) IN
  /\ task[t].st = "idle"
  /\ \A c \in Call : c[1] = t => ~Active(c)
  /\ task' = [u \in Task |->
       IF u = t THEN [NotBegun(t) EXCEPT
                        !.st = "map", !.wants = Map(n),
                        !.ahead = {v \in Task : task[v].wants = Map(n)}]
       ELSE IF u \in Call /\ u[1] = t THEN NotBegun(u)
       ELSE task[u]]
  /\ UNCHANGED <<present, remotes>>

(* An RPC arrives: at once, late, or never.                                *)
Serve(c) ==
  /\ task[c].st = "sent"
  /\ Ask(c, Map(Home(c)), [task[c] EXCEPT !.st = "map"])
  /\ UNCHANGED <<present, remotes>>

(* The map is locked. A linker goes through what is in it now.             *)
EnterMap(t) ==
  /\ task[t].st = "map"
  /\ MayEnter(t)
  /\ GoesOn(t, [task[t] EXCEPT !.st = "found", !.wants = None,
                  !.has = @ \cup {Map(Home(t))},
                  !.todo = IF t \in Linker THEN present[Home(t)] ELSE {}])
  /\ UNCHANGED <<present, remotes>>

(* A fault: the map is not kept locked once the collection is found.       *)
LetsGoOfMap(t) ==
  /\ task[t].st = "found"
  /\ t \in User
  /\ task[t].at \in present[Home(t)]
  /\ Ask(t, Holder(Home(t), task[t].at),
         [task[t] EXCEPT !.st = "holder", !.has = {}])
  /\ UNCHANGED <<present, remotes>>

(* A fault: the collection is looked up twice, each time with a lock.      *)
LocksMapAgain(t) ==
  /\ task[t].st = "found"
  /\ t \in User
  /\ task[t].at \in present[Home(t)]
  /\ Ask(t, Map(Home(t)), [task[t] EXCEPT !.st = "map"])
  /\ UNCHANGED <<present, remotes>>

(* The collection is there: what uses it asks for its replica holder.      *)
LockHolder(t) ==
  /\ task[t].st = "found"
  /\ t \in User
  /\ task[t].at \in present[Home(t)]
  /\ Ask(t, Holder(Home(t), task[t].at), [task[t] EXCEPT !.st = "holder"])
  /\ UNCHANGED <<present, remotes>>

(* There is no such collection, or all that is asked for is in the map.    *)
Refuse(t) ==
  /\ t \in User
  /\ task[t].st = "found"
  /\ Ends(t)
  /\ UNCHANGED <<present, remotes>>

(* The replica sets can be used, as they are, until t is over. A write or  *)
(* a list has each remote of each shard to call.                           *)
EnterHolder(t) ==
  LET rs == remotes[Home(t)][task[t].at] IN
  /\ task[t].st = "holder"
  /\ MayEnter(t)
  /\ GoesOn(t, [task[t] EXCEPT !.st = "run", !.wants = None,
                  !.has = @ \cup {task[t].wants},
                  !.todo = IF t \in Points THEN Shard \X rs ELSE @,
                  !.saw = rs])
  /\ UNCHANGED <<present, remotes>>

(* execute_cluster_operation calls a remote, with both locks held. Any     *)
(* order of the calls is allowed; the code goes shard by shard.            *)
CallRemote(t) ==
  /\ t \in Points
  /\ task[t].st = "run"
  /\ \E x \in task[t].todo :
       LET c == <<t, x[1], x[2]>> IN
       task' = [task EXCEPT ![t].st = "await", ![t].todo = @ \ {x},
                            ![t].call = c, ![c].st = "sent"]
  /\ UNCHANGED <<present, remotes>>

(* A fault: a call that is being served is waited for without a timeout.   *)
WaitsForever(t) ==
  /\ t \in Points
  /\ task[t].st = "await"
  /\ ~Active(task[t].call)
  /\ task' = [task EXCEPT ![t].st = "run", ![t].call = None]
  /\ UNCHANGED <<present, remotes>>

(* The answer, a broken connection, or the channel's 10 s timeout.         *)
CallReturns(t) ==
  /\ t \in Points
  /\ task[t].st = "await"
  /\ task' = [task EXCEPT ![t].st = "run", ![t].call = None]
  /\ UNCHANGED <<present, remotes>>

(* All calls are made, a read has none to make, or a call or the local     *)
(* shard failed: the answer is ready, and both locks are let go of.        *)
Finish(t) ==
  /\ task[t].st = "run"
  /\ t \in User
  /\ Ends(t)
  /\ UNCHANGED <<present, remotes>>

-----------------------------------------------------------------------------

(* A create, with the map locked, puts the collection in, without remotes, *)
(* unless it is there already.                                             *)
Insert(t) ==
  LET n == Home(t) IN
  /\ t \in Meta
  /\ task[t].st = "found"
  /\ IF task[t].at \in present[n]
     THEN UNCHANGED <<present, remotes>>
     ELSE /\ present' = [present EXCEPT ![n] = @ \cup {task[t].at}]
          /\ remotes' = [remotes EXCEPT ![n][task[t].at] = {}]
  /\ Ends(t)

(* A delete takes the collection out, and keeps the map locked while its   *)
(* files are removed.                                                      *)
TakeOut(t) ==
  LET n == Home(t) IN
  /\ t \in Meta
  /\ task[t].st = "found"
  /\ IF task[t].at \in present[n]
     THEN /\ present' = [present EXCEPT ![n] = @ \ {task[t].at}]
          /\ GoesOn(t, [task[t] EXCEPT !.st = "remove"])
     ELSE UNCHANGED present /\ Ends(t)
  /\ UNCHANGED remotes

RemoveFiles(t) ==
  /\ task[t].st = "remove"
  /\ Ends(t)
  /\ UNCHANGED <<present, remotes>>

(* A linker, with the map locked, asks for the next replica holder.        *)
LockNext(t) ==
  /\ t \in Linker
  /\ task[t].st = "found"
  /\ \E k \in task[t].todo :
       Ask(t, Holder(Home(t), k),
           [task[t] EXCEPT !.st = "holder", !.at = k, !.todo = @ \ {k}])
  /\ UNCHANGED <<present, remotes>>

(* add_remote_shards, in each of the collection's replica sets.            *)
AddRemoteShards(t) ==
  LET n == Home(t)
      k == task[t].at IN
  /\ t \in Linker
  /\ task[t].st = "run"
  /\ remotes' = [remotes EXCEPT ![n][k] = @ \cup {NewPeer[t]}]
  /\ GoesOn(t, [task[t] EXCEPT !.st = "found", !.has = {Map(n)}])
  /\ UNCHANGED present

EndLink(t) ==
  /\ t \in Linker
  /\ task[t].st = "found"
  /\ task[t].todo = {}
  /\ Ends(t)
  /\ UNCHANGED <<present, remotes>>

(* A handler is dropped where it awaits, a lock or an RPC, because whoever *)
(* sent the request is gone: the client, or the caller of an RPC that has  *)
(* timed out. A bootstrap has no such client.                              *)
Dropped(t) ==
  /\ t \notin Link
  /\ task[t].st \in {"map", "holder", "await"}
  /\ t \in Call => task[t[1]].call # t
  /\ Ends(t)
  /\ UNCHANGED <<present, remotes>>

(* What the runtime does for t as soon as it can.                          *)
Step(t) ==
  \/ EnterMap(t)
  \/ LockHolder(t)
  \/ Refuse(t)
  \/ EnterHolder(t)
  \/ CallRemote(t)
  \/ CallReturns(t)
  \/ Finish(t)
  \/ Insert(t)
  \/ TakeOut(t)
  \/ RemoveFiles(t)
  \/ LockNext(t)
  \/ AddRemoteShards(t)
  \/ EndLink(t)

Next ==
  \/ \E t \in Request : Send(t)
  \/ \E c \in Call : Serve(c)
  \/ \E t \in Task : Step(t) \/ Dropped(t)

Spec == Init /\ [][Next]_vars

(* Futures that are ready are polled, a lock wakes the first in line, and  *)
(* a call ends with an answer or the timeout. Nothing says that requests   *)
(* are sent, RPCs arrive or clients stay.                                  *)
FairSpec == Spec /\ \A t \in Task : WF_vars(Step(t))

-----------------------------------------------------------------------------

TaskRecord ==
  [st : {"idle", "sent", "map", "found", "holder", "run", "await", "remove"},
   wants : Lock \cup {None}, ahead : SUBSET Task, has : SUBSET Lock, at : Coll,
   todo : (SUBSET Coll) \cup (SUBSET (Shard \X Node)), call : Call \cup {None},
   saw : SUBSET Node]

(* Every variable has its type, no peer is its own remote, and who has a   *)
(* lock with write() is the only one that has it.                          *)
TypeOK ==
  /\ present \in [Node -> SUBSET Coll]
  /\ remotes \in [Node -> [Coll -> SUBSET Node]]
  /\ \A n \in Node, k \in Coll : n \notin remotes[n][k]
  /\ task \in [Task -> TaskRecord]
  /\ \A t \in Points :
       task[t].todo \subseteq Shard \X (Node \ {PeerOf[t]})
  /\ \A t \in Linker : task[t].todo \subseteq Coll
  /\ \A t, u \in Task : \A l \in task[t].has \cap task[u].has :
       t # u => ~Clash(t, u, l)

(* A collection that a request uses, from its lookup to the answer, stays  *)
(* in the map, and its replica sets keep the remotes that they had when    *)
(* the request began, whatever deletes, creates and joins arrive and       *)
(* however long the calls take: the count of successes rests on this.      *)
UsedStays ==
  \A t \in User :
    /\ task[t].st \in {"holder", "run", "await"} =>
         task[t].at \in present[Home(t)]
    /\ task[t].st \in {"run", "await"} =>
         remotes[Home(t)][task[t].at] = task[t].saw

Waiting == {t \in Task : task[t].wants # None}

(* u keeps t out: it is ahead of t, or has the lock and one of them writes.*)
Blocks(u, t) ==
  \/ u \in task[t].ahead
  \/ task[t].wants \in task[u].has /\ Clash(t, u, task[t].wants)

(* Locks alone never make tasks wait for each other in a circle: of those  *)
(* that wait for a lock, one waits for none of the others. So each circle  *)
(* goes through a call to another peer, and the call's timeout opens it.   *)
NoCircle ==
  \A S \in (SUBSET Waiting) \ {{}} : \E t \in S : \A u \in S : ~Blocks(u, t)

(* The argument for NoCircle: who waits for a replica holder has the map   *)
(* only, who waits for a map has nothing, and nobody waits for a lock that *)
(* it got already.                                                         *)
HasOK(t, r) ==
  LET m == Map(Home(t))
      h == Holder(Home(t), r.at) IN
  /\ r.st \in {"idle", "sent", "map"} => r.has = {}
  /\ r.st \in {"found", "holder", "remove"} => r.has = {m}
  /\ r.st \in {"run", "await"} => r.has = {m, h}
  /\ r.st = "map" => r.wants = m
  /\ r.st = "holder" => r.wants = h
  /\ r.st \notin {"map", "holder"} => r.wants = None
  /\ r.st = "remove" => t \in Meta
  /\ r.st \in {"holder", "run", "await"} => t \in User \cup Linker

WaitsOK ==
  \A t \in Task :
    /\ HasOK(t, task[t])
    /\ \A u \in task[t].ahead :
         task[t].wants # None /\ task[u].wants = task[t].wants

(* A call that its request has still to make is not under way.            *)
CallsOK ==
  \A c \in Call :
    \/ task[c[1]].st \in {"map", "found", "holder"}
    \/ <<c[2], c[3]>> \in task[c[1]].todo
    => task[c].st = "idle"

(* Of any that wait, one has none of the others ahead of it: the lines are *)
(* lines.                                                                  *)
QueueOK ==
  \A S \in (SUBSET Waiting) \ {{}} : \E t \in S : task[t].ahead \cap S = {}

LockInv == TypeOK /\ WaitsOK /\ CallsOK /\ QueueOK /\ UsedStays

(* A request for points gets done, though it may wait behind writers that  *)
(* wait behind requests that call other peers, where the same goes on.     *)
EveryRequestEnds == \A t \in Points : Active(t) ~> ~Active(t)

(* Creates, deletes and joins get their locks and get done, though requests*)
(* that read the map arrive again and again, and overlap.                  *)
WritersGetDone ==
  \A t \in Writer \cup Link : Active(t) ~> ~Active(t)
=============================================================================
