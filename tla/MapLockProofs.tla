--------------------------- MODULE MapLockProofs ---------------------------
(* Proofs about MapLock: types and exclusion, the collection in use stays, *)
(* and no circle of tasks that wait for locks.                             *)
EXTENDS MapLock, TLAPS

(* What the locks rest on, without what the maps hold.                     *)
RecordOK(t, r) ==
  /\ r \in TaskRecord
  /\ t \in Points => r.todo \subseteq Shard \X (Node \ {PeerOf[t]})
  /\ t \in Linker => r.todo \subseteq Coll
  /\ HasOK(t, r)

Exclusion ==
  \A t, u \in Task : \A l \in task[t].has \cap task[u].has :
    t # u => ~Clash(t, u, l)

TasksOK ==
  /\ task \in [Task -> TaskRecord]
  /\ \A t \in Task : RecordOK(t, task[t])
  /\ \A t \in Task : \A u \in task[t].ahead :
       task[t].wants # None /\ task[u].wants = task[t].wants
  /\ Exclusion
  /\ QueueOK

MapsOK ==
  /\ present \in [Node -> SUBSET Coll]
  /\ remotes \in [Node -> [Coll -> SUBSET Node]]
  /\ \A n \in Node, c \in Coll : n \notin remotes[n][c]

Parts == TasksOK /\ MapsOK /\ CallsOK /\ UsedStays

LEMMA PartsOfInv == Parts <=> LockInv
<1>. Points \subseteq Task /\ Linker \subseteq Task
  BY DEF Task, Request, Linker
<1>. QED
  BY DEF Parts, LockInv, TypeOK, WaitsOK, TasksOK, MapsOK, Exclusion, RecordOK

LEMMA Kinds ==
  ASSUME NEW t \in Task
  PROVE  /\ Home(t) \in Node
         /\ t \in Meta => t \notin User /\ t \notin Linker
         /\ t \in User => t \notin Writer /\ t \notin Linker
         /\ t \in Points => Home(t) = PeerOf[t]
         /\ t \in Linker => Home(t) # NewPeer[t] /\ NewPeer[t] \in Node
         /\ NotBegun(t).at \in Coll
<1>. USE KindAssumption DEF KindAssumption
<1>. USE PlacementAssumption DEF PlacementAssumption
<1>1. CASE t \in Request
  <2>1. Home(t) = PeerOf[t] /\ Home(t) \in Node /\ NotBegun(t).at = CollOf[t]
    BY <1>1 DEF Home, NotBegun
  <2>. QED
    BY <1>1, <2>1 DEF Request, Task, User, Writer, Linker
<1>2. CASE t \in Call
  <2>1. /\ t \notin Request /\ t[1] \in Points /\ t[3] \in Node
    BY <1>2 DEF Call
  <2>2. Home(t) = t[3] /\ NotBegun(t).at = CollOf[t[1]]
    BY <2>1 DEF Home, NotBegun
  <2>. QED
    BY <2>1, <2>2 DEF Request, Task, User, Writer, Linker
<1>. QED
  BY <1>1, <1>2 DEF Task

LEMMA Locks ==
  ASSUME NEW n \in Node, NEW c \in Coll
  PROVE  /\ Map(n) \in Lock /\ Map(n) # None
         /\ Holder(n, c) \in Lock /\ Holder(n, c) # None
         /\ \A m \in Node : Holder(n, c) # Map(m)
         /\ \A m \in Node, d \in Coll :
              Holder(n, c) = Holder(m, d) => n = m /\ c = d
<1>. USE PlacementAssumption DEF PlacementAssumption
<1>. QED
  BY DEF Map, Holder, Lock

LEMMA IdleOK ==
  ASSUME NEW t \in Task
  PROVE  RecordOK(t, NotBegun(t))
BY Kinds DEF RecordOK, NotBegun, TaskRecord, HasOK

-----------------------------------------------------------------------------
(* What happens to the tasks when one of them goes on or asks for a lock.  *)

(* The other tasks stay where they are, and with what they have to do.     *)
OthersStay(t) ==
  \A u \in Task \ {t} :
    /\ task'[u].st = task[u].st /\ task'[u].at = task[u].at
    /\ task'[u].saw = task[u].saw /\ task'[u].todo = task[u].todo

(* Fewer are ahead: the rest of the record is as it was.                   *)
LEMMA FewerAhead ==
  ASSUME NEW u \in Task, NEW r, RecordOK(u, r), NEW A \in SUBSET Task
  PROVE  /\ RecordOK(u, [r EXCEPT !.ahead = A])
         /\ [r EXCEPT !.ahead = A].st = r.st
         /\ [r EXCEPT !.ahead = A].wants = r.wants
         /\ [r EXCEPT !.ahead = A].has = r.has
         /\ [r EXCEPT !.ahead = A].at = r.at
         /\ [r EXCEPT !.ahead = A].saw = r.saw
         /\ [r EXCEPT !.ahead = A].todo = r.todo
         /\ [r EXCEPT !.ahead = A].ahead = A
<1>1. r \in TaskRecord
  BY DEF RecordOK
<1>. DEFINE h == [r EXCEPT !.ahead = A]
<1>2. /\ h \in TaskRecord
      /\ h.st = r.st /\ h.wants = r.wants /\ h.has = r.has /\ h.at = r.at
      /\ h.todo = r.todo /\ h.saw = r.saw /\ h.ahead = A /\ h.call = r.call
  BY <1>1 DEF TaskRecord
<1>. HIDE DEF h
<1>3. RecordOK(u, h)
  BY <1>2 DEF RecordOK, HasOK
<1>. QED
  BY <1>2, <1>3 DEF h

LEMMA GoesOnOK ==
  ASSUME TasksOK, NEW t \in Task, NEW r, RecordOK(t, r), r.wants = None,
         r.ahead = {}, GoesOn(t, r),
         \A u \in Task \ {t} : \A l \in r.has \cap task[u].has :
           ~Clash(t, u, l) /\ ~Clash(u, t, l)
  PROVE  /\ TasksOK'
         /\ task'[t] = r
         /\ OthersStay(t)
<1>1. task'[t] = r
  BY DEF GoesOn
<1>2. \A u \in Task \ {t} :
        task'[u] = [task[u] EXCEPT !.ahead = task[u].ahead \ {t}]
  BY DEF GoesOn
<1>3. \A u \in Task \ {t} :
        /\ task'[u].wants = task[u].wants
        /\ task'[u].has = task[u].has
        /\ task'[u].ahead = task[u].ahead \ {t}
        /\ RecordOK(u, task'[u])
        /\ task'[u].st = task[u].st /\ task'[u].at = task[u].at
        /\ task'[u].saw = task[u].saw /\ task'[u].todo = task[u].todo
  <2>. TAKE u \in Task \ {t}
  <2>. DEFINE A == task[u].ahead \ {t}
  <2>1. RecordOK(u, task[u]) /\ A \in SUBSET Task
    BY DEF TasksOK, TaskRecord
  <2>2. task'[u] = [task[u] EXCEPT !.ahead = A]
    BY <1>2
  <2>. HIDE DEF A
  <2>3. /\ RecordOK(u, [task[u] EXCEPT !.ahead = A])
        /\ [task[u] EXCEPT !.ahead = A].st = task[u].st
        /\ [task[u] EXCEPT !.ahead = A].wants = task[u].wants
        /\ [task[u] EXCEPT !.ahead = A].has = task[u].has
        /\ [task[u] EXCEPT !.ahead = A].at = task[u].at
        /\ [task[u] EXCEPT !.ahead = A].saw = task[u].saw
        /\ [task[u] EXCEPT !.ahead = A].todo = task[u].todo
        /\ [task[u] EXCEPT !.ahead = A].ahead = A
    BY <2>1, FewerAhead
  <2>. QED
    BY <2>2, <2>3 DEF A
<1>4. \A u \in Task : RecordOK(u, task'[u])
  BY <1>1, <1>3
<1>5. task' \in [Task -> TaskRecord]
  BY <1>4 DEF GoesOn, RecordOK
<1>6. \A u \in Task : \A v \in task'[u].ahead :
        task'[u].wants # None /\ task'[v].wants = task'[u].wants
  BY <1>1, <1>3 DEF TasksOK, TaskRecord
<1>7. Exclusion'
  BY <1>1, <1>3 DEF Exclusion, TasksOK, Clash, Exclusive
<1>8. QueueOK'
  <2>1. Waiting' \subseteq Waiting
    BY <1>1, <1>3 DEF Waiting
  <2>2. \A u \in Waiting' : task'[u].ahead \subseteq task[u].ahead
    BY <1>1, <1>3 DEF Waiting
  <2>. QED
    BY <2>1, <2>2 DEF QueueOK, TasksOK
<1>. QED
  BY <1>1, <1>3, <1>4, <1>5, <1>6, <1>7, <1>8 DEF TasksOK, OthersStay

LEMMA JoinsOK ==
  ASSUME TasksOK, NEW t \in Task, NEW l \in Lock, l # None,
         task[t].wants = None, task' \in [Task -> TaskRecord],
         RecordOK(t, task'[t]), task'[t].wants = l,
         task'[t].has = task[t].has,
         t \notin task'[t].ahead,
         \A v \in task'[t].ahead : task[v].wants = l,
         \A u \in Task \ {t} : /\ RecordOK(u, task'[u])
                               /\ task'[u].has = task[u].has
                               /\ task'[u].wants = task[u].wants
                               /\ task'[u].ahead = task[u].ahead
  PROVE  TasksOK'
<1>1. \A u \in Task : RecordOK(u, task'[u])
  OBVIOUS
<1>2. \A u \in Task : \A v \in task'[u].ahead :
        task'[u].wants # None /\ task'[v].wants = task'[u].wants
  BY DEF TasksOK, TaskRecord
<1>3. Exclusion'
  BY DEF Exclusion, TasksOK, Clash, Exclusive
<1>4. QueueOK'
  <2>. SUFFICES ASSUME NEW S \in (SUBSET Waiting') \ {{}}
                PROVE  \E u \in S : task'[u].ahead \cap S = {}
    BY DEF QueueOK
  <2>1. CASE S \subseteq {t}
    BY <2>1
  <2>2. CASE ~(S \subseteq {t})
    <3>1. S \ {t} \in (SUBSET Waiting) \ {{}}
      BY <2>2 DEF Waiting
    <3>2. PICK u \in S \ {t} : task[u].ahead \cap (S \ {t}) = {}
      BY <3>1 DEF QueueOK, TasksOK
    <3>3. u \in Task
      BY <3>1 DEF Waiting
    <3>4. t \notin task[u].ahead
      BY <3>3 DEF TasksOK
    <3>. QED
      BY <3>2, <3>3, <3>4
  <2>. QED
    BY <2>1, <2>2
<1>. QED
  BY <1>1, <1>2, <1>3, <1>4 DEF TasksOK

LEMMA AskOK ==
  ASSUME TasksOK, NEW t \in Task, task[t].wants = None, NEW r \in TaskRecord,
         NEW l \in Lock, l # None, Ask(t, l, r), r.has = task[t].has,
         \A h \in TaskRecord :
           /\ h.st = r.st /\ h.at = r.at /\ h.has = r.has
           /\ h.todo = r.todo /\ h.wants = l
           => RecordOK(t, h)
  PROVE  /\ TasksOK'
         /\ task'[t].st = r.st /\ task'[t].at = r.at /\ task'[t].saw = r.saw
         /\ OthersStay(t)
<1>. DEFINE A == {u \in Task \ {t} : task[u].wants = l}
            h == [r EXCEPT !.wants = l, !.ahead = A]
<1>0. task \in [Task -> TaskRecord]
  BY DEF TasksOK
<1>1. task' = [task EXCEPT ![t] = h]
  BY DEF Ask
<1>2. /\ h \in TaskRecord /\ h.st = r.st /\ h.at = r.at /\ h.has = r.has
      /\ h.todo = r.todo /\ h.wants = l /\ h.ahead = A /\ h.saw = r.saw
  BY DEF TaskRecord
<1>. HIDE DEF h
<1>3. RecordOK(t, h)
  BY <1>2
<1>4. task'[t] = h /\ \A u \in Task \ {t} : task'[u] = task[u]
  BY <1>0, <1>1
<1>5. task' \in [Task -> TaskRecord]
  BY <1>0, <1>1, <1>2
<1>6. \A u \in Task \ {t} : /\ RecordOK(u, task'[u])
                             /\ task'[u].has = task[u].has
                             /\ task'[u].wants = task[u].wants
                             /\ task'[u].ahead = task[u].ahead
  BY <1>4 DEF TasksOK
<1>7. TasksOK'
  BY <1>2, <1>3, <1>4, <1>5, <1>6, JoinsOK
<1>. QED
  BY <1>2, <1>4, <1>7 DEF OthersStay

(* Tasks may change as long as they keep their locks and their places.     *)
LEMMA QuietOK ==
  ASSUME TasksOK, task' \in [Task -> TaskRecord],
         \A u \in Task : /\ RecordOK(u, task'[u])
                         /\ task'[u].has = task[u].has
                         /\ task'[u].wants = task[u].wants
                         /\ task'[u].ahead = task[u].ahead
  PROVE  TasksOK'
<1>1. \A u \in Task : \A v \in task'[u].ahead :
        task'[u].wants # None /\ task'[v].wants = task'[u].wants
  BY DEF TasksOK, TaskRecord
<1>2. Exclusion'
  BY DEF Exclusion, TasksOK, Clash, Exclusive
<1>3. QueueOK'
  <2>1. Waiting' = Waiting /\ Waiting \subseteq Task
    BY DEF Waiting
  <2>. QED
    BY <2>1 DEF QueueOK, TasksOK
<1>. QED
  BY <1>1, <1>2, <1>3 DEF TasksOK

-----------------------------------------------------------------------------
(* The locks, action by action.                                            *)

LEMMA InitOK == Init => Parts
<1>. SUFFICES ASSUME Init PROVE TasksOK /\ MapsOK /\ CallsOK /\ UsedStays
  BY DEF Parts
<1>. USE PlacementAssumption DEF PlacementAssumption
<1>1. /\ \A t \in Task : RecordOK(t, task[t])
      /\ task \in [Task -> TaskRecord]
  BY IdleOK DEF Init, RecordOK
<1>2. \A t \in Task : /\ task[t].st = "idle" /\ task[t].has = {}
                       /\ task[t].wants = None /\ task[t].ahead = {}
  BY DEF Init, NotBegun
<1>3. Waiting = {}
  BY <1>2 DEF Waiting
<1>4. TasksOK
  BY <1>1, <1>2, <1>3 DEF TasksOK, Exclusion, QueueOK
<1>5. MapsOK
  BY DEF Init, MapsOK
<1>6. UsedStays
  <2>1. \A t \in User : t \in Task
    BY DEF User, Task, Request
  <2>. QED
    BY <1>2, <2>1 DEF UsedStays
<1>7. CallsOK
  BY <1>2 DEF CallsOK, Task
<1>. QED
  BY <1>4, <1>5, <1>6, <1>7

(* Ending is going on as a task that has nothing.                          *)
LEMMA EndsOK ==
  ASSUME TasksOK, NEW t \in Task, Ends(t)
  PROVE  /\ TasksOK'
         /\ task'[t].st = "idle" /\ task'[t].todo = {}
         /\ OthersStay(t)
<1>. DEFINE r == NotBegun(t)
<1>1. RecordOK(t, r)
  BY IdleOK
<1>2. /\ r.wants = None /\ r.ahead = {} /\ r.has = {} /\ r.st = "idle"
      /\ r.todo = {}
  BY DEF NotBegun
<1>3. GoesOn(t, r)
  BY DEF Ends
<1>. HIDE DEF r
<1>. QED
  BY <1>1, <1>2, <1>3, GoesOnOK

(* Calls still to be made are not under way, if t makes none of them.      *)
LEMMA CallsStay ==
  ASSUME CallsOK, NEW t \in Task, OthersStay(t),
         task'[t].st = "idle" \/ task[t].st # "idle",
         t \in Points =>
           \/ task[t].st \in {"map", "found", "holder"}
           \/ /\ task'[t].st \notin {"map", "found", "holder"}
              /\ task'[t].todo \subseteq task[t].todo
  PROVE  CallsOK'
<1>. SUFFICES ASSUME NEW c \in Call,
                     \/ task'[c[1]].st \in {"map", "found", "holder"}
                     \/ <<c[2], c[3]>> \in task'[c[1]].todo
              PROVE  task'[c].st = "idle"
  BY DEF CallsOK
<1>1. c \in Task /\ c[1] \in Points /\ c[1] \in Task
  BY DEF Call, Task, Request
<1>2. \/ task[c[1]].st \in {"map", "found", "holder"}
      \/ <<c[2], c[3]>> \in task[c[1]].todo
  BY <1>1 DEF OthersStay
<1>3. task[c].st = "idle"
  BY <1>2 DEF CallsOK
<1>. QED
  BY <1>1, <1>3 DEF OthersStay

(* What a task uses stays when the maps do, and so does it.                *)
LEMMA MapsStay ==
  ASSUME Parts, NEW t \in Task, UNCHANGED <<present, remotes>>,
         TasksOK', OthersStay(t),
         t \in User =>
           /\ task'[t].st \in {"holder", "run", "await"} =>
                task'[t].at \in present[Home(t)]
           /\ task'[t].st \in {"run", "await"} =>
                remotes[Home(t)][task'[t].at] = task'[t].saw,
         task'[t].st = "idle" \/ task[t].st # "idle",
         t \in Points =>
           \/ task[t].st \in {"map", "found", "holder"}
           \/ /\ task'[t].st \notin {"map", "found", "holder"}
              /\ task'[t].todo \subseteq task[t].todo
  PROVE  Parts'
<1>. USE DEF Parts
<1>1. \A u \in User : u \in Task
  BY DEF User, Task, Request
<1>2. UsedStays'
  BY <1>1 DEF UsedStays, OthersStay
<1>3. CallsOK'
  BY CallsStay
<1>. QED
  BY <1>2, <1>3 DEF MapsOK

LEMMA SendOK ==
  ASSUME Parts, NEW t \in Request, Send(t)
  PROVE  Parts'
<1>. USE DEF Parts
<1>. DEFINE n == Home(t)
            A == {v \in Task : task[v].wants = Map(n)}
            r == [NotBegun(t) EXCEPT !.st = "map", !.wants = Map(n),
                                     !.ahead = A]
<1>0. t \in Task /\ task[t].st = "idle" /\ task \in [Task -> TaskRecord]
      /\ n \in Node /\ Map(n) \in Lock /\ Map(n) # None
  <2>1. t \in Task
    BY DEF Task
  <2>. QED
    BY <2>1, Kinds, Locks, PlacementAssumption
       DEF Send, TasksOK, Map, Lock, PlacementAssumption
<1>1. task[t].wants = None /\ task[t].has = {}
  BY <1>0 DEF TasksOK, RecordOK, HasOK
<1>2. /\ r \in TaskRecord /\ r.st = "map" /\ r.wants = Map(n)
      /\ r.ahead = A /\ r.has = {} /\ r.todo = {}
  BY <1>0, Kinds DEF NotBegun, TaskRecord
<1>. HIDE DEF r
<1>3. RecordOK(t, r)
  BY <1>2 DEF RecordOK, HasOK
<1>4. /\ task'[t] = r
      /\ \A u \in Task \ {t} :
           \/ task'[u] = task[u]
           \/ task'[u] = NotBegun(u) /\ ~Active(u)
  BY <1>0 DEF Send, r, Request, Call
<1>5. \A u \in Task \ {t} :
        /\ RecordOK(u, task'[u])
        /\ task'[u].wants = task[u].wants /\ task'[u].has = task[u].has
        /\ task'[u].ahead = task[u].ahead
  <2>. TAKE u \in Task \ {t}
  <2>1. CASE task'[u] = task[u]
    BY <2>1 DEF TasksOK
  <2>2. CASE task'[u] = NotBegun(u) /\ ~Active(u)
    <3>1. task[u].wants = None /\ task[u].has = {} /\ task[u].ahead = {}
      BY <2>2 DEF Active, TasksOK, RecordOK, HasOK, TaskRecord
    <3>2. /\ NotBegun(u).wants = None /\ NotBegun(u).has = {}
          /\ NotBegun(u).ahead = {}
      BY DEF NotBegun
    <3>. QED
      BY <2>2, <3>1, <3>2, IdleOK
  <2>. QED
    BY <1>4, <2>1, <2>2
<1>6. A = {v \in Task \ {t} : task[v].wants = Map(n)}
  BY <1>0, <1>1
<1>7. task' \in [Task -> TaskRecord]
  <2>1. \A u \in Task : task'[u] \in TaskRecord
    BY <1>2, <1>4, <1>5 DEF RecordOK
  <2>. QED
    BY <2>1 DEF Send
<1>8. TasksOK'
  <2>1. PICK l \in Lock : l = Map(n) /\ l # None
    BY <1>0
  <2>2. /\ RecordOK(t, task'[t]) /\ task'[t].wants = l
        /\ task'[t].has = task[t].has
        /\ t \notin task'[t].ahead
        /\ \A v \in task'[t].ahead : task[v].wants = l
    BY <1>1, <1>2, <1>3, <1>4, <1>6, <2>1
  <2>3. t \in Task /\ task[t].wants = None /\ TasksOK
    BY <1>0, <1>1
  <2>. HIDE DEF n, A, Parts
  <2>. QED
    BY <2>1, <2>2, <2>3, <1>5, <1>7, JoinsOK
<1>9. UsedStays'
  <2>1. \A u \in User : u \in Task
    BY DEF User, Task, Request
  <2>2. \A u \in Task : NotBegun(u).st = "idle"
    BY DEF NotBegun
  <2>. QED
    BY <1>2, <1>4, <2>1, <2>2 DEF UsedStays, Send
<1>10. CallsOK'
  <2>1. \A c \in Call :
          /\ c \in Task /\ c[1] \in Points /\ c[1] \in Task /\ c # t
          /\ c[1] = t => task'[c] = NotBegun(c)
          /\ c[1] # t => task'[c[1]] = task[c[1]] /\ task'[c] = task[c]
    BY KindAssumption, <1>0 DEF KindAssumption, Send, Call, Task, Request
  <2>2. \A c \in Call : NotBegun(c).st = "idle"
    BY DEF NotBegun
  <2>. QED
    BY <2>1, <2>2 DEF CallsOK
<1>. QED
  BY <1>8, <1>9, <1>10 DEF MapsOK, Send

LEMMA ServeOK ==
  ASSUME Parts, NEW t \in Call, Serve(t)
  PROVE  Parts'
<1>. USE DEF Parts
<1>0. t \in Task /\ task[t] \in TaskRecord /\ RecordOK(t, task[t])
  BY DEF Task, TasksOK
<1>. DEFINE r == [task[t] EXCEPT !.st = "map"]
<1>1. /\ r \in TaskRecord /\ r.st = "map" /\ r.has = task[t].has
      /\ r.todo = task[t].todo /\ r.at = task[t].at
  BY <1>0 DEF TaskRecord
<1>2. task[t].wants = None /\ r.has = {}
  BY <1>0, <1>1 DEF Serve, RecordOK, HasOK
<1>3. PICK l \in Lock : l = Map(Home(t)) /\ l # None
  BY <1>0, Kinds, Locks, PlacementAssumption
     DEF PlacementAssumption, Lock, Map
<1>4. Ask(t, l, r)
  BY <1>3 DEF Serve
<1>. HIDE DEF r
<1>5. \A h \in TaskRecord :
        /\ h.st = r.st /\ h.at = r.at /\ h.has = r.has
        /\ h.todo = r.todo /\ h.wants = l
        => RecordOK(t, h)
  BY <1>0, <1>1, <1>2, <1>3 DEF RecordOK, HasOK
<1>6. /\ TasksOK'
      /\ task'[t].st = "map"
      /\ OthersStay(t)
  BY <1>0, <1>1, <1>2, <1>3, <1>4, <1>5, AskOK
<1>7. t \notin Points
  BY KindAssumption DEF KindAssumption, Request
<1>. QED
  BY <1>0, <1>6, <1>7, MapsStay DEF Serve

LEMMA EnterMapOK ==
  ASSUME Parts, NEW t \in Task, EnterMap(t)
  PROVE  Parts'
<1>. USE DEF Parts
<1>0. task[t] \in TaskRecord /\ RecordOK(t, task[t])
  BY DEF TasksOK
<1>. DEFINE T == IF t \in Linker THEN present[Home(t)] ELSE {}
            r == [task[t] EXCEPT !.st = "found", !.wants = None,
                    !.has = task[t].has \cup {Map(Home(t))}, !.todo = T]
<1>1. /\ task[t].has = {} /\ task[t].wants = Map(Home(t))
      /\ task[t].ahead = {}
  BY <1>0 DEF EnterMap, RecordOK, HasOK, MayEnter
<1>2. Home(t) \in Node /\ Map(Home(t)) \in Lock /\ T \in SUBSET Coll
  BY Kinds, PlacementAssumption DEF PlacementAssumption, Lock, Map, MapsOK
<1>3. /\ r \in TaskRecord /\ r.st = "found" /\ r.has = {Map(Home(t))}
      /\ r.todo = T /\ r.wants = None /\ r.ahead = {}
  BY <1>0, <1>1, <1>2 DEF TaskRecord
<1>4. GoesOn(t, r)
  BY DEF EnterMap
<1>5. t \in Points => T = {}
  BY Kinds DEF User
<1>. HIDE DEF r
<1>6. RecordOK(t, r)
  BY <1>2, <1>3, <1>5 DEF RecordOK, HasOK
<1>7. \A u \in Task \ {t} : \A l \in r.has \cap task[u].has :
        ~Clash(t, u, l) /\ ~Clash(u, t, l)
  BY <1>1, <1>3 DEF EnterMap, MayEnter, Clash
<1>8. /\ TasksOK'
      /\ task'[t].st = "found"
      /\ OthersStay(t)
  BY <1>3, <1>4, <1>6, <1>7, GoesOnOK
<1>. QED
  BY <1>8, MapsStay DEF EnterMap

LEMMA LockHolderOK ==
  ASSUME Parts, NEW t \in Task, LockHolder(t)
  PROVE  Parts'
<1>. USE DEF Parts
<1>0. task[t] \in TaskRecord /\ RecordOK(t, task[t])
  BY DEF TasksOK
<1>. DEFINE r == [task[t] EXCEPT !.st = "holder"]
<1>1. /\ r \in TaskRecord /\ r.st = "holder" /\ r.has = task[t].has
      /\ r.todo = task[t].todo /\ r.at = task[t].at /\ r.at \in Coll
  BY <1>0 DEF TaskRecord
<1>2. task[t].wants = None /\ r.has = {Map(Home(t))} /\ t \in User
  BY <1>0, <1>1 DEF LockHolder, RecordOK, HasOK
<1>3. PICK l \in Lock : l = Holder(Home(t), r.at) /\ l # None
  BY <1>1, Kinds, Locks
<1>4. Ask(t, l, r)
  BY <1>1, <1>3 DEF LockHolder
<1>. HIDE DEF r
<1>5. \A h \in TaskRecord :
        /\ h.st = r.st /\ h.at = r.at /\ h.has = r.has
        /\ h.todo = r.todo /\ h.wants = l
        => RecordOK(t, h)
  BY <1>0, <1>1, <1>2, <1>3 DEF RecordOK, HasOK
<1>6. /\ TasksOK'
      /\ task'[t].st = "holder" /\ task'[t].at = task[t].at
      /\ OthersStay(t)
  BY <1>0, <1>1, <1>2, <1>3, <1>4, <1>5, AskOK
<1>. QED
  BY <1>6, MapsStay DEF LockHolder

(* Those who end, with the maps as they are.                               *)
LEMMA OverOK ==
  ASSUME Parts, NEW t \in Task, Ends(t), UNCHANGED <<present, remotes>>
  PROVE  Parts'
<1>. USE DEF Parts
<1>1. /\ TasksOK'
      /\ task'[t].st = "idle" /\ task'[t].todo = {}
      /\ OthersStay(t)
  BY EndsOK
<1>. QED
  BY <1>1, MapsStay

LEMMA EnterHolderOK ==
  ASSUME Parts, NEW t \in Task, EnterHolder(t)
  PROVE  Parts'
<1>. USE DEF Parts
<1>0. task[t] \in TaskRecord /\ RecordOK(t, task[t])
  BY DEF TasksOK
<1>. DEFINE rs == remotes[Home(t)][task[t].at]
            T == IF t \in Points THEN Shard \X rs ELSE task[t].todo
            r == [task[t] EXCEPT !.st = "run", !.wants = None,
                    !.has = task[t].has \cup {task[t].wants}, !.todo = T,
                    !.saw = rs]
<1>1. /\ task[t].has = {Map(Home(t))} /\ task[t].ahead = {}
      /\ task[t].wants = Holder(Home(t), task[t].at)
      /\ t \in User \cup Linker
  BY <1>0 DEF EnterHolder, RecordOK, HasOK, MayEnter
<1>2. /\ Home(t) \in Node /\ task[t].at \in Coll
      /\ Holder(Home(t), task[t].at) \in Lock
      /\ rs \in SUBSET Node /\ Home(t) \notin rs
      /\ \A l \in task[t].has : l # task[t].wants
  BY <1>0, <1>1, Kinds, Locks DEF MapsOK, TaskRecord
<1>3. /\ T \in (SUBSET Coll) \cup (SUBSET (Shard \X Node))
      /\ t \in Points => T \subseteq Shard \X (Node \ {PeerOf[t]})
      /\ t \in Linker => T \subseteq Coll
  <2>1. CASE t \in Points
    BY <2>1, <1>2, Kinds DEF User
  <2>2. CASE t \notin Points
    BY <2>2, <1>0 DEF RecordOK, TaskRecord
  <2>. QED
    BY <2>1, <2>2
<1>. HIDE DEF T
<1>4. /\ r \in TaskRecord /\ r.st = "run" /\ r.todo = T /\ r.ahead = {}
      /\ r.has = {Map(Home(t)), Holder(Home(t), r.at)} /\ r.wants = None
      /\ r.at = task[t].at /\ r.saw = rs
  BY <1>0, <1>1, <1>2, <1>3 DEF TaskRecord
<1>5. GoesOn(t, r)
  BY DEF EnterHolder, T
<1>. HIDE DEF r
<1>6. RecordOK(t, r)
  BY <1>1, <1>2, <1>3, <1>4 DEF RecordOK, HasOK
<1>7. \A u \in Task \ {t} : \A l \in r.has \cap task[u].has :
        ~Clash(t, u, l) /\ ~Clash(u, t, l)
  <2>. TAKE u \in Task \ {t}
  <2>. TAKE l \in r.has \cap task[u].has
  <2>1. CASE l = Map(Home(t))
    BY <2>1, <1>1 DEF TasksOK, Exclusion, Clash
  <2>2. CASE l = task[t].wants
    BY <2>2 DEF EnterHolder, MayEnter, Clash
  <2>. QED
    BY <2>1, <2>2, <1>1, <1>4
<1>8. /\ TasksOK'
      /\ task'[t] = r
      /\ OthersStay(t)
  BY <1>4, <1>5, <1>6, <1>7, GoesOnOK
<1>. QED
  BY <1>4, <1>8, MapsStay DEF EnterHolder, UsedStays

LEMMA CallRemoteOK ==
  ASSUME Parts, NEW t \in Task, CallRemote(t)
  PROVE  Parts'
<1>. USE DEF Parts
<1>0. task[t] \in TaskRecord /\ RecordOK(t, task[t])
  BY DEF TasksOK
<1>1. PICK x \in task[t].todo :
        task' = [task EXCEPT ![t].st = "await",
                             ![t].todo = task[t].todo \ {x},
                             ![t].call = <<t, x[1], x[2]>>,
                             ![<<t, x[1], x[2]>>].st = "sent"]
  BY DEF CallRemote
<1>2. t \in Points /\ task[t].st = "run"
  BY DEF CallRemote
<1>3. x \in Shard \X (Node \ {PeerOf[t]})
  BY <1>0, <1>2 DEF RecordOK
<1>4. PICK c \in Call : c = <<t, x[1], x[2]>>
  BY <1>2, <1>3 DEF Call
<1>5. c \in Task /\ c # t /\ c[1] = t /\ <<c[2], c[3]>> = x
      /\ task[c] \in TaskRecord /\ RecordOK(c, task[c])
  BY <1>2, <1>3, <1>4, KindAssumption
     DEF KindAssumption, Task, Request, TasksOK
<1>6. task[c].st = "idle"
  BY <1>5 DEF CallsOK
<1>7. task' = [task EXCEPT
        ![t] = [task[t] EXCEPT !.st = "await", !.todo = task[t].todo \ {x},
                               !.call = c],
        ![c] = [task[c] EXCEPT !.st = "sent"]]
  BY <1>1, <1>4, <1>5 DEF TasksOK
<1>. DEFINE r == [task[t] EXCEPT !.st = "await",
                                 !.todo = task[t].todo \ {x}, !.call = c]
            q == [task[c] EXCEPT !.st = "sent"]
<1>8. /\ r \in TaskRecord /\ r.st = "await" /\ r.at = task[t].at
      /\ r.todo = task[t].todo \ {x} /\ r.has = task[t].has
      /\ r.wants = task[t].wants /\ r.ahead = task[t].ahead
      /\ r.saw = task[t].saw
  <2>1. task[t].todo \ {x} \in SUBSET (Shard \X Node)
    BY <1>0, <1>2 DEF RecordOK
  <2>. QED
    BY <1>0, <2>1 DEF TaskRecord
<1>9. /\ q \in TaskRecord /\ q.st = "sent" /\ q.at = task[c].at
      /\ q.todo = task[c].todo /\ q.has = task[c].has
      /\ q.wants = task[c].wants /\ q.ahead = task[c].ahead
  BY <1>5 DEF TaskRecord
<1>10. task' = [task EXCEPT ![t] = r, ![c] = q]
  BY <1>7
<1>. HIDE DEF r, q
<1>11. RecordOK(t, r) /\ RecordOK(c, q)
  BY <1>0, <1>2, <1>5, <1>6, <1>8, <1>9 DEF RecordOK, HasOK, User
<1>12. /\ task'[t] = r /\ task'[c] = q
       /\ \A u \in Task \ {t, c} : task'[u] = task[u]
       /\ task' \in [Task -> TaskRecord]
  BY <1>5, <1>8, <1>9, <1>10 DEF TasksOK
<1>13. TasksOK'
  <2>1. \A u \in Task : /\ RecordOK(u, task'[u])
                         /\ task'[u].has = task[u].has
                         /\ task'[u].wants = task[u].wants
                         /\ task'[u].ahead = task[u].ahead
    BY <1>8, <1>9, <1>11, <1>12 DEF TasksOK
  <2>. QED
    BY <1>12, <2>1, QuietOK
<1>14. UsedStays'
  <2>1. \A u \in User : u \in Task
    BY DEF User, Task, Request
  <2>2. task'[c].st = "sent"
    BY <1>9, <1>12
  <2>3. \A u \in User \ {c} :
          /\ task'[u].at = task[u].at /\ task'[u].saw = task[u].saw
          /\ u = t => task[u].st = "run" /\ task'[u].st = "await"
          /\ u # t => task'[u].st = task[u].st
    BY <1>2, <1>8, <1>12, <2>1
  <2>. QED
    BY <2>2, <2>3 DEF UsedStays, CallRemote
<1>15. CallsOK'
  <2>. SUFFICES ASSUME NEW d \in Call,
                       \/ task'[d[1]].st \in {"map", "found", "holder"}
                       \/ <<d[2], d[3]>> \in task'[d[1]].todo
                PROVE  task'[d].st = "idle"
    BY DEF CallsOK
  <2>1. d \in Task /\ d[1] \in Points /\ d[1] \in Task /\ d # t /\ d[1] # c
    BY <1>2, <1>4, KindAssumption
       DEF KindAssumption, Call, Task, Request
  <2>2. CASE d[1] = t
    <3>1. d # c
      BY <1>2, <1>5, <1>8, <1>12, <2>2
    <3>. QED
      BY <2>1, <2>2, <3>1, <1>8, <1>12 DEF CallsOK
  <2>3. CASE d[1] # t
    <3>1. d # c
      BY <1>5, <2>3
    <3>. QED
      BY <2>1, <2>3, <3>1, <1>12 DEF CallsOK
  <2>. QED
    BY <2>2, <2>3
<1>. QED
  BY <1>13, <1>14, <1>15 DEF MapsOK, CallRemote

LEMMA CallReturnsOK ==
  ASSUME Parts, NEW t \in Task, CallReturns(t)
  PROVE  Parts'
<1>. USE DEF Parts
<1>0. task[t] \in TaskRecord /\ RecordOK(t, task[t])
  BY DEF TasksOK
<1>. DEFINE r == [task[t] EXCEPT !.st = "run", !.call = None]
<1>1. /\ r \in TaskRecord /\ r.st = "run" /\ r.at = task[t].at
      /\ r.todo = task[t].todo /\ r.has = task[t].has
      /\ r.wants = task[t].wants /\ r.ahead = task[t].ahead
      /\ r.saw = task[t].saw
  BY <1>0 DEF TaskRecord
<1>2. task' = [task EXCEPT ![t] = r]
  BY DEF CallReturns, TasksOK
<1>. HIDE DEF r
<1>3. RecordOK(t, r)
  BY <1>0, <1>1 DEF RecordOK, HasOK, CallReturns, User
<1>4. /\ task'[t] = r
      /\ \A u \in Task \ {t} : task'[u] = task[u]
      /\ task' \in [Task -> TaskRecord]
  BY <1>1, <1>2 DEF TasksOK
<1>5. TasksOK'
  <2>1. \A u \in Task : /\ RecordOK(u, task'[u])
                         /\ task'[u].has = task[u].has
                         /\ task'[u].wants = task[u].wants
                         /\ task'[u].ahead = task[u].ahead
    BY <1>1, <1>3, <1>4 DEF TasksOK
  <2>. QED
    BY <1>4, <2>1, QuietOK
<1>. QED
  <2>1. /\ t \in User /\ task[t].st = "await" /\ task'[t].st = "run"
        /\ task'[t].at = task[t].at /\ task'[t].saw = task[t].saw
        /\ task'[t].todo = task[t].todo
    BY <1>1, <1>4 DEF CallReturns, User
  <2>2. /\ task'[t].at \in present[Home(t)]
        /\ remotes[Home(t)][task'[t].at] = task'[t].saw
    BY <2>1 DEF UsedStays
  <2>3. OthersStay(t) /\ UNCHANGED <<present, remotes>>
    BY <1>4 DEF OthersStay, CallReturns
  <2>. QED
    BY <2>1, <2>2, <2>3, <1>5, MapsStay

LEMMA InsertOK ==
  ASSUME Parts, NEW t \in Task, Insert(t)
  PROVE  Parts'
<1>. USE DEF Parts
<1>0. task[t] \in TaskRecord /\ Ends(t) /\ Home(t) \in Node
  BY Kinds DEF TasksOK, Insert
<1>. DEFINE n == Home(t)
            c == task[t].at
<1>1. CASE c \in present[n]
  BY <1>1, <1>0, OverOK DEF Insert
<1>2. CASE c \notin present[n]
  <2>1. /\ present' = [present EXCEPT ![n] = present[n] \cup {c}]
        /\ remotes' = [remotes EXCEPT ![n][c] = {}]
        /\ c \in Coll
    BY <1>0, <1>2 DEF Insert, TaskRecord
  <2>2. /\ TasksOK'
        /\ task'[t].st = "idle" /\ task'[t].todo = {}
        /\ OthersStay(t)
    BY <1>0, EndsOK
  <2>3. MapsOK'
    BY <2>1, <1>0 DEF MapsOK
  <2>4. CallsOK'
    BY <2>2, CallsStay
  <2>5. UsedStays'
    <3>. SUFFICES ASSUME NEW u \in User, u # t,
                         task[u].st \in {"holder", "run", "await"}
                  PROVE  /\ task[u].at \in present'[Home(u)]
                         /\ remotes'[Home(u)][task[u].at]
                              = remotes[Home(u)][task[u].at]
      <4>1. \A u \in User : u \in Task
        BY DEF User, Task, Request
      <4>. QED
        BY <2>2, <4>1 DEF UsedStays, OthersStay
    <3>1. u \in Task /\ task[u].at \in present[Home(u)] /\ Home(u) \in Node
      BY Kinds DEF UsedStays, User, Task, Request
    <3>. QED
      BY <3>1, <2>1, <1>0, <1>2 DEF MapsOK
  <2>. QED
    BY <2>2, <2>3, <2>4, <2>5
<1>. QED
  BY <1>1, <1>2

(* A map with write(): nobody uses a collection of that peer meanwhile.    *)
LEMMA NobodyInside ==
  ASSUME TasksOK, NEW t \in Meta, task[t].st = "found", NEW u \in User,
         task[u].st \in {"holder", "run", "await"}
  PROVE  Home(u) # Home(t)
<1>1. t \in Task /\ u \in Task /\ t # u
  BY Kinds DEF Task, Request, User
<1>2. Map(Home(t)) \in task[t].has /\ Map(Home(u)) \in task[u].has
  BY <1>1 DEF TasksOK, RecordOK, HasOK
<1>3. Exclusive(t, Map(Home(t)))
  BY DEF Exclusive, Writer
<1>. QED
  BY <1>1, <1>2, <1>3 DEF TasksOK, Exclusion, Clash

LEMMA TakeOutOK ==
  ASSUME Parts, NEW t \in Task, TakeOut(t)
  PROVE  Parts'
<1>. USE DEF Parts
<1>0. /\ task[t] \in TaskRecord /\ RecordOK(t, task[t]) /\ Home(t) \in Node
      /\ t \in Meta /\ task[t].st = "found" /\ remotes' = remotes
  BY Kinds DEF TasksOK, TakeOut
<1>. DEFINE n == Home(t)
            c == task[t].at
<1>1. CASE c \notin present[n]
  BY <1>1, <1>0, OverOK DEF TakeOut
<1>2. CASE c \in present[n]
  <2>. DEFINE r == [task[t] EXCEPT !.st = "remove"]
  <2>1. GoesOn(t, r) /\ present' = [present EXCEPT ![n] = present[n] \ {c}]
    BY <1>2 DEF TakeOut
  <2>2. task[t].wants = None /\ task[t].ahead = {}
        /\ task[t].has = {Map(n)}
    BY <1>0 DEF RecordOK, HasOK, TasksOK
  <2>3. /\ r \in TaskRecord /\ r.st = "remove" /\ r.at = task[t].at
        /\ r.todo = task[t].todo /\ r.has = task[t].has
        /\ r.wants = task[t].wants /\ r.ahead = task[t].ahead
    BY <1>0 DEF TaskRecord
  <2>. HIDE DEF r
  <2>4. RecordOK(t, r)
    BY <1>0, <2>2, <2>3 DEF RecordOK, HasOK
  <2>5. \A u \in Task \ {t} : \A l \in r.has \cap task[u].has :
          ~Clash(t, u, l) /\ ~Clash(u, t, l)
    BY <2>3 DEF TasksOK, Exclusion, Clash
  <2>6. TasksOK' /\ task'[t] = r /\ OthersStay(t)
    BY <2>1, <2>2, <2>3, <2>4, <2>5, GoesOnOK
  <2>7. MapsOK'
    BY <2>1, <1>0 DEF MapsOK
  <2>8. CallsOK'
    BY <1>0, <2>3, <2>6, CallsStay
  <2>9. UsedStays'
    <3>. SUFFICES ASSUME NEW u \in User, u # t,
                         task[u].st \in {"holder", "run", "await"}
                  PROVE  task[u].at \in present'[Home(u)]
      <4>1. \A u \in User : u \in Task /\ u # t
        BY <1>0, Kinds DEF User, Task, Request
      <4>. QED
        BY <1>0, <2>6, <4>1 DEF UsedStays, OthersStay
    <3>1. task[u].at \in present[Home(u)] /\ Home(u) # n
      BY <1>0, NobodyInside DEF UsedStays
    <3>2. present'[Home(u)] = present[Home(u)]
      BY <2>1, <3>1, Kinds DEF MapsOK, User, Task, Request
    <3>. QED
      BY <3>1, <3>2
  <2>. QED
    BY <2>6, <2>7, <2>8, <2>9
<1>. QED
  BY <1>1, <1>2

LEMMA LockNextOK ==
  ASSUME Parts, NEW t \in Task, LockNext(t)
  PROVE  Parts'
<1>. USE DEF Parts
<1>0. /\ task[t] \in TaskRecord /\ RecordOK(t, task[t])
      /\ t \in Linker /\ task[t].st = "found" /\ Home(t) \in Node
  BY Kinds DEF TasksOK, LockNext
<1>1. PICK k \in task[t].todo :
        Ask(t, Holder(Home(t), k),
            [task[t] EXCEPT !.st = "holder", !.at = k,
                            !.todo = task[t].todo \ {k}])
  BY DEF LockNext
<1>. DEFINE r == [task[t] EXCEPT !.st = "holder", !.at = k,
                                 !.todo = task[t].todo \ {k}]
<1>2. task[t].todo \subseteq Coll /\ k \in Coll
  BY <1>0 DEF RecordOK
<1>3. /\ r \in TaskRecord /\ r.st = "holder" /\ r.has = task[t].has
      /\ r.todo = task[t].todo \ {k} /\ r.at = k
  BY <1>0, <1>2 DEF TaskRecord
<1>4. task[t].wants = None /\ task[t].has = {Map(Home(t))}
  BY <1>0 DEF RecordOK, HasOK
<1>5. PICK l \in Lock : l = Holder(Home(t), k) /\ l # None
  BY <1>0, <1>2, Locks
<1>6. Ask(t, l, r)
  BY <1>1, <1>5
<1>. HIDE DEF r
<1>7. t \notin Points
  BY <1>0, Kinds DEF User
<1>8. \A h \in TaskRecord :
        /\ h.st = r.st /\ h.at = r.at /\ h.has = r.has
        /\ h.todo = r.todo /\ h.wants = l
        => RecordOK(t, h)
  BY <1>0, <1>2, <1>3, <1>4, <1>5, <1>7 DEF RecordOK, HasOK
<1>9. /\ TasksOK'
      /\ OthersStay(t)
  <2>1. r \in TaskRecord /\ r.has = task[t].has
    BY <1>3
  <2>. QED
    BY <2>1, <1>4, <1>5, <1>6, <1>8, AskOK
<1>10. t \notin User
  BY <1>0, Kinds
<1>. QED
  BY <1>0, <1>7, <1>9, <1>10, MapsStay DEF LockNext

LEMMA AddRemoteShardsOK ==
  ASSUME Parts, NEW t \in Task, AddRemoteShards(t)
  PROVE  Parts'
<1>. USE DEF Parts
<1>0. /\ task[t] \in TaskRecord /\ RecordOK(t, task[t])
      /\ t \in Linker /\ task[t].st = "run" /\ Home(t) \in Node
      /\ t \notin User /\ t \notin Points /\ task[t].at \in Coll
      /\ NewPeer[t] \in Node /\ NewPeer[t] # Home(t)
      /\ present' = present
  BY Kinds DEF TasksOK, AddRemoteShards, TaskRecord, User
<1>. DEFINE n == Home(t)
            k == task[t].at
            r == [task[t] EXCEPT !.st = "found", !.has = {Map(n)}]
<1>1. /\ remotes' = [remotes EXCEPT ![n][k] = remotes[n][k] \cup {NewPeer[t]}]
      /\ GoesOn(t, r)
  BY DEF AddRemoteShards
<1>2. /\ task[t].wants = None /\ task[t].ahead = {}
      /\ task[t].has = {Map(n), Holder(n, k)}
  BY <1>0 DEF RecordOK, HasOK, TasksOK
<1>3. /\ r \in TaskRecord /\ r.st = "found" /\ r.at = k
      /\ r.todo = task[t].todo /\ r.has = {Map(n)}
      /\ r.wants = task[t].wants /\ r.ahead = task[t].ahead
  BY <1>0, <1>2 DEF TaskRecord
<1>. HIDE DEF r
<1>4. RecordOK(t, r)
  BY <1>0, <1>2, <1>3 DEF RecordOK, HasOK
<1>5. \A u \in Task \ {t} : \A l \in r.has \cap task[u].has :
        ~Clash(t, u, l) /\ ~Clash(u, t, l)
  BY <1>2, <1>3 DEF TasksOK, Exclusion, Clash
<1>6. TasksOK' /\ task'[t] = r /\ OthersStay(t)
  BY <1>1, <1>2, <1>3, <1>4, <1>5, GoesOnOK
<1>7. MapsOK'
  BY <1>0, <1>1 DEF MapsOK
<1>8. CallsOK'
  BY <1>0, <1>6, CallsStay
<1>9. UsedStays'
  <2>. SUFFICES ASSUME NEW u \in User, u \in Task, u # t,
                       task[u].st \in {"run", "await"}
                PROVE  remotes'[Home(u)][task[u].at]
                         = remotes[Home(u)][task[u].at]
    <3>1. \A u \in User : u \in Task /\ u # t
      BY <1>0 DEF User, Task, Request
    <3>. QED
      BY <1>0, <1>6, <3>1 DEF UsedStays, OthersStay
  <2>1. /\ Holder(Home(u), task[u].at) \in task[u].has
        /\ task[u].at \in Coll /\ Home(u) \in Node
    BY Kinds DEF TasksOK, RecordOK, HasOK, TaskRecord
  <2>2. Exclusive(t, Holder(n, k))
    BY <1>0, Locks DEF Exclusive
  <2>3. Holder(n, k) \in task[t].has
    BY <1>2
  <2>4. Holder(Home(u), task[u].at) # Holder(n, k)
    BY <2>1, <2>2, <2>3 DEF TasksOK, Exclusion, Clash
  <2>5. Home(u) # n \/ task[u].at # k
    BY <2>4
  <2>. QED
    BY <2>1, <2>5, <1>0, <1>1 DEF MapsOK
<1>. QED
  BY <1>6, <1>7, <1>8, <1>9

LEMMA NextOK ==
  ASSUME Parts, [Next]_vars
  PROVE  Parts'
<1>1. CASE UNCHANGED vars
  BY <1>1 DEF vars, Parts, TasksOK, MapsOK, CallsOK, UsedStays, Exclusion,
              QueueOK, Waiting
<1>2. ASSUME NEW t \in Request, Send(t) PROVE Parts'
  BY <1>2, SendOK
<1>3. ASSUME NEW c \in Call, Serve(c) PROVE Parts'
  BY <1>3, ServeOK
<1>4. ASSUME NEW t \in Task, Step(t) PROVE Parts'
  <2>1. CASE Refuse(t) \/ Finish(t) \/ RemoveFiles(t) \/ EndLink(t)
    BY <2>1, OverOK DEF Refuse, Finish, RemoveFiles, EndLink
  <2>. QED
    BY <1>4, <2>1, EnterMapOK, LockHolderOK, EnterHolderOK, CallRemoteOK,
       CallReturnsOK, InsertOK, TakeOutOK, LockNextOK, AddRemoteShardsOK
       DEF Step
<1>5. ASSUME NEW t \in Task, Dropped(t) PROVE Parts'
  BY <1>5, OverOK DEF Dropped
<1>. QED
  BY <1>1, <1>2, <1>3, <1>4, <1>5 DEF Next

-----------------------------------------------------------------------------
(* The theorems.                                                           *)

(* Nobody who waits has a replica holder. So of those that wait for one,   *)
(* the first in line waits for none of the others; and if there are none,  *)
(* all wait for maps and have nothing.                                     *)
LEMMA NoCircleOfInv == Parts => NoCircle
<1>. SUFFICES ASSUME Parts, NEW S \in (SUBSET Waiting) \ {{}}
              PROVE  \E t \in S : \A u \in S : ~Blocks(u, t)
  BY DEF NoCircle
<1>. USE DEF Parts
<1>1. \A t \in S :
        /\ t \in Task /\ Home(t) \in Node /\ task[t].at \in Coll
        /\ \/ /\ task[t].st = "map" /\ task[t].has = {}
              /\ task[t].wants = Map(Home(t))
           \/ /\ task[t].st = "holder" /\ task[t].has = {Map(Home(t))}
              /\ task[t].wants = Holder(Home(t), task[t].at)
  BY Kinds DEF Waiting, TasksOK, RecordOK, HasOK, TaskRecord
<1>. DEFINE H == {t \in S : task[t].st = "holder"}
<1>2. CASE H = {}
  <2>1. PICK t \in S : task[t].ahead \cap S = {}
    BY DEF TasksOK, QueueOK
  <2>2. \A u \in S : task[u].has = {}
    BY <1>1, <1>2
  <2>. QED
    BY <2>1, <2>2 DEF Blocks
<1>3. CASE H # {}
  <2>1. H \in (SUBSET Waiting) \ {{}}
    BY <1>3
  <2>2. PICK t \in H : task[t].ahead \cap H = {}
    BY <2>1 DEF TasksOK, QueueOK
  <2>3. /\ t \in S /\ Home(t) \in Node /\ task[t].at \in Coll /\ t \in Task
        /\ task[t].wants = Holder(Home(t), task[t].at)
    BY <1>1
  <2>4. \A u \in S : task[t].wants \notin task[u].has
    BY <1>1, <2>3, Locks
  <2>5. \A u \in S : u \in task[t].ahead => u \in H
    <3>. SUFFICES ASSUME NEW u \in S, u \in task[t].ahead PROVE u \in H
      OBVIOUS
    <3>1. task[u].wants = Holder(Home(t), task[t].at)
      BY <2>3 DEF TasksOK
    <3>2. task[u].wants # Map(Home(u))
      BY <3>1, <1>1, <2>3, Locks
    <3>. QED
      BY <3>2, <1>1
  <2>. QED
    BY <2>2, <2>3, <2>4, <2>5 DEF Blocks
<1>. QED
  BY <1>2, <1>3

LEMMA PartsHold == Spec => []Parts
<1>1. Init => Parts
  BY InitOK
<1>2. Parts /\ [Next]_vars => Parts'
  BY NextOK
<1>. QED
  BY <1>1, <1>2, PTL DEF Spec

(* Types, and who has a lock with write() has it alone.                    *)
THEOREM TypeOKHolds == Spec => []TypeOK
<1>1. Parts => TypeOK
  BY PartsOfInv DEF LockInv
<1>. QED
  BY <1>1, PartsHold, PTL

(* What a request uses stays in the map, with the remotes it found, until  *)
(* its answer: get_collection's lock and the replica holder's are kept     *)
(* across the calls to other peers, and whoever would change either one    *)
(* needs it with write().                                                  *)
THEOREM UsedStaysHolds == Spec => []UsedStays
<1>1. Parts => UsedStays
  BY DEF Parts
<1>. QED
  BY <1>1, PartsHold, PTL

(* No tasks wait for each other's locks in a circle, at any number of      *)
(* peers, collections and requests: the locks are taken map first, and     *)
(* neither is taken twice.                                                 *)
THEOREM NoCircleHolds == Spec => []NoCircle
<1>1. Parts => NoCircle
  BY NoCircleOfInv
<1>. QED
  BY <1>1, PartsHold, PTL
=============================================================================
