---------------------------- MODULE UpsertProofs ----------------------------
(* Theorems about Upsert, for every value of its constants.                *)
EXTENDS Upsert, TLAPS

(* The operators that only read state are typed.                           *)
LEMMA PointsType ==
  ASSUME TypeOK, NEW t \in Task
  PROVE  Points(t) \subseteq Point
BY RequestAssumption DEF Points, Group, Task, Call

LEMMA RouteType ==
  ASSUME NEW n \in Node, NEW id \in PointId
  PROVE  Route(n, id) \in Shard
BY PlacementAssumption DEF Route

LEMMA NotBegunType == NotBegun \in TaskRecord
BY DEF NotBegun, TaskRecord

LEMMA NeedType ==
  ASSUME NEW n \in Node, NEW t, TypeOK
  PROVE  MinDesiredSuccess(t, n) \in {1, 2}
<1>1. Len(remotes[n]) \in Nat
  BY DEF TypeOK
<1>2. QED
  BY <1>1 DEF MinDesiredSuccess, MinOf, NumReplicas, ConsistencyFactor

(* Init establishes the types and every step keeps them.                   *)
LEMMA TypeInit == Init => TypeOK
<1>1. ASSUME Init PROVE TypeOK
  BY <1>1, PlacementAssumption, NotBegunType DEF Init, TypeOK
<1>2. QED
  BY <1>1

(* A step that writes one execution's record and nothing else.             *)
LEMMA UpdateType ==
  ASSUME TypeOK, NEW t \in Task, NEW r \in TaskRecord,
         Becomes(t, r),
         UNCHANGED <<up, remotes, log, flushed, crashes>>
  PROVE  TypeOK'
BY DEF TypeOK, Becomes

LEMMA BeginType ==
  ASSUME TypeOK, NEW t \in Task, NEW n \in Node, Begin(t, n)
  PROVE  TypeOK'
<1> DEFINE todo == {Route(n, p.id) : p \in Points(t)}
           need == MinDesiredSuccess(t, n)
           st == IF n \in Hosts /\ (Points(t) = {} \/ Shards[n] # {})
                 THEN "pick" ELSE "err"
           r == [task[t] EXCEPT !.st = st, !.node = n, !.todo = todo, !.need = need]
<1>1. todo \subseteq Shard
  BY PointsType, RouteType DEF Point
<1>2. need \in {1, 2}
  BY NeedType
<1>3. task[t] \in TaskRecord
  BY DEF TypeOK
<1>4. st \in {"pick", "err"}
  OBVIOUS
<1>5. Becomes(t, r)
  BY DEF Begin
<1> HIDE DEF todo, need, st
<1>6. r \in TaskRecord
  BY <1>1, <1>2, <1>3, <1>4 DEF TaskRecord
<1>7. QED
  BY <1>5, <1>6, UpdateType DEF Begin
LEMMA PickShardType ==
  ASSUME TypeOK, NEW t \in Task, PickShard(t), task[t].node \in Node
  PROVE  TypeOK'
<1> DEFINE st(s) == IF s \in Segmented[task[t].node] THEN "local" ELSE "remote"
           left(s) == Group(task[t].node, Points(t), s)
           peers == IF t \in Op THEN remotes[task[t].node] ELSE <<>>
           r(s) == [task[t] EXCEPT !.st = st(s), !.todo = @ \ {s}, !.shard = s,
                                   !.left = left(s), !.localOk = FALSE,
                                   !.remoteOk = 0, !.peers = peers]
<1>1. PICK s \in task[t].todo : Becomes(t, r(s))
  BY DEF PickShard
<1>2. left(s) \subseteq Point
  BY PointsType DEF Group
<1>3. peers \in Seq(Node)
  BY DEF TypeOK
<1>4. task[t] \in TaskRecord
  BY DEF TypeOK
<1>5. st(s) \in {"local", "remote"}
  OBVIOUS
<1> HIDE DEF st, left, peers
<1>6. r(s) \in TaskRecord
  BY <1>2, <1>3, <1>4, <1>5 DEF TaskRecord
<1>7. QED
  BY <1>1, <1>6, UpdateType DEF PickShard

LEMMA InsertPointType ==
  ASSUME TypeOK, NEW t \in Task, InsertPoint(t), task[t].node \in Node,
         task[t].shard \in Shard
  PROVE  TypeOK'
<1>1. PICK p \in task[t].left :
        /\ Becomes(t, [task[t] EXCEPT !.left = @ \ {p}])
        /\ log' = [log EXCEPT ![task[t].node][task[t].shard] = Append(@, p)]
  BY DEF InsertPoint
<1> DEFINE n == task[t].node
           s == task[t].shard
<1>2. /\ task[t] \in TaskRecord
      /\ p \in Point
  BY DEF TypeOK, TaskRecord
<1>3. task' \in [Task -> TaskRecord]
  <2>1. [task[t] EXCEPT !.left = @ \ {p}] \in TaskRecord
    BY <1>2 DEF TaskRecord
  <2>2. QED
    BY <1>1, <2>1 DEF TypeOK, Becomes
<1>4. /\ Append(log[n][s], p) \in Seq(Point)
      /\ Len(Append(log[n][s], p)) = Len(log[n][s]) + 1
  BY <1>2 DEF TypeOK
<1>5. log' \in [Node -> [Shard -> Seq(Point)]]
  BY <1>1, <1>4 DEF TypeOK
<1>6. ASSUME NEW m \in Node, NEW z \in Shard
      PROVE  flushed'[m][z] <= Len(log'[m][z])
  <2>1. log'[m][z] = IF m = n /\ z = s THEN Append(log[n][s], p) ELSE log[m][z]
    BY <1>1 DEF TypeOK
  <2>2. flushed[m][z] \in Nat /\ Len(log[m][z]) \in Nat
    BY DEF TypeOK
  <2>3. QED
    BY <2>1, <2>2, <1>4 DEF TypeOK, InsertPoint
<1>7. QED
  BY <1>3, <1>5, <1>6 DEF TypeOK, InsertPoint

LEMMA FlushType ==
  ASSUME TypeOK, NEW t \in Task, Flush(t), task[t].node \in Node,
         task[t].shard \in Shard
  PROVE  TypeOK'
<1> DEFINE n == task[t].node
           s == task[t].shard
<1>1. task' \in [Task -> TaskRecord]
  <2>1. task[t] \in TaskRecord
    BY DEF TypeOK
  <2>2. [task[t] EXCEPT !.st = "remote", !.localOk = TRUE] \in TaskRecord
    BY <2>1 DEF TaskRecord
  <2>3. QED
    BY <2>2 DEF TypeOK, Flush, Becomes
<1>2. flushed' = [flushed EXCEPT ![n][s] = Len(log[n][s])]
  BY DEF Flush
<1>3. \A m \in Node, z \in Shard :
        flushed'[m][z] = IF m = n /\ z = s THEN Len(log[n][s]) ELSE flushed[m][z]
  BY <1>2 DEF TypeOK
<1>4. Len(log[n][s]) \in Nat
  BY DEF TypeOK
<1>5. flushed' \in [Node -> [Shard -> Nat]]
  BY <1>2, <1>4 DEF TypeOK
<1>6. \A m \in Node, z \in Shard : flushed'[m][z] <= Len(log'[m][z])
  BY <1>3, <1>4 DEF TypeOK, Flush
<1>7. QED
  BY <1>1, <1>5, <1>6 DEF TypeOK, Flush

LEMMA LocalStepType ==
  ASSUME TypeOK, NEW t \in Task,
         LocalFails(t) \/ Judge(t) \/ Finish(t)
  PROVE  TypeOK'
<1>1. task[t] \in TaskRecord
  BY DEF TypeOK
<1>2. CASE LocalFails(t)
  <2>1. [task[t] EXCEPT !.st = "remote", !.left = {}] \in TaskRecord
    BY <1>1 DEF TaskRecord
  <2>2. QED
    BY <1>2, <2>1, UpdateType DEF LocalFails
<1>3. CASE Judge(t)
  <2>1. \A st \in {"pick", "err"} : [task[t] EXCEPT !.st = st] \in TaskRecord
    BY <1>1 DEF TaskRecord
  <2>2. QED
    BY <1>3, <2>1, UpdateType DEF Judge
<1>4. CASE Finish(t)
  <2>1. [task[t] EXCEPT !.st = "ok"] \in TaskRecord
    BY <1>1 DEF TaskRecord
  <2>2. QED
    BY <1>4, <2>1, UpdateType DEF Finish
<1>5. QED
  BY <1>2, <1>3, <1>4

LEMMA RemoteStepType ==
  ASSUME TypeOK, NEW o \in Op, task[o].shard \in Shard,
         RemoteStep(o) \/ ClientGone(o),
         task[o].st = "await" => task[o].peers # <<>>
  PROVE  TypeOK'
<1>1. task[o] \in TaskRecord /\ o \in Task
  BY DEF TypeOK, Task
<1>2. task[o].peers \in Seq(Node)
  BY <1>1 DEF TaskRecord
<1>3. ASSUME task[o].peers # <<>>
      PROVE  Head(task[o].peers) \in Node /\ Tail(task[o].peers) \in Seq(Node)
  BY <1>2, <1>3
<1>4. CASE CallRemote(o)
  <2> DEFINE m == Head(task[o].peers)
             c == <<o, task[o].shard, m>>
  <2>1. m \in Node /\ Tail(task[o].peers) \in Seq(Node)
    BY <1>3, <1>4 DEF CallRemote
  <2>2. CASE m \in Addressable
    <3>1. c \in Call
      BY <2>1 DEF Call
    <3>2. task' = [task EXCEPT ![o].st = "await", ![c].st = "sent"]
      BY <1>4, <2>2 DEF CallRemote
    <3>3. ASSUME NEW t \in Task
          PROVE  /\ [task[t] EXCEPT !.st = "await"] \in TaskRecord
                 /\ [task[t] EXCEPT !.st = "sent"] \in TaskRecord
      <4>1. task[t] \in TaskRecord
        BY DEF TypeOK
      <4>2. QED
        BY <4>1 DEF TaskRecord
    <3>4. o # c /\ c \in Task
      BY <3>1, IdAssumption DEF Task
    <3> HIDE DEF c, m
    <3>5. task' \in [Task -> TaskRecord]
      BY <1>1, <3>2, <3>3, <3>4 DEF TypeOK
    <3>6. QED
      BY <1>4, <3>5 DEF TypeOK, CallRemote
  <2>3. CASE m \notin Addressable
    <3>1. [task[o] EXCEPT !.peers = Tail(@)] \in TaskRecord
      BY <1>1, <2>1 DEF TaskRecord
    <3>2. QED
      BY <1>1, <1>4, <2>3, <3>1, UpdateType DEF CallRemote
  <2>4. QED
    BY <2>2, <2>3
<1>5. CASE Answered(o)
  <2> DEFINE c == <<o, task[o].shard, Head(task[o].peers)>>
             k == IF task[c].st = "ok" THEN task[o].remoteOk + 1 ELSE task[o].remoteOk
             r == [task[o] EXCEPT !.st = "remote", !.peers = Tail(@), !.remoteOk = k]
  <2>1. Tail(task[o].peers) \in Seq(Node)
    BY <1>3, <1>5 DEF Answered
  <2>2. k \in Nat
    BY <1>1 DEF TaskRecord
  <2>3. Becomes(o, r)
    BY <1>5 DEF Answered
  <2> HIDE DEF k
  <2>4. r \in TaskRecord
    BY <1>1, <2>1, <2>2 DEF TaskRecord
  <2>5. QED
    BY <1>1, <1>5, <2>3, <2>4, UpdateType DEF Answered
<1>6. CASE CallFails(o)
  <2>1. Tail(task[o].peers) \in Seq(Node)
    BY <1>3, <1>6 DEF CallFails
  <2>2. [task[o] EXCEPT !.st = "remote", !.peers = Tail(@)] \in TaskRecord
    BY <1>1, <2>1 DEF TaskRecord
  <2>3. QED
    BY <1>1, <1>6, <2>2, UpdateType DEF CallFails
<1>7. CASE ClientGone(o)
  <2>1. [task[o] EXCEPT !.st = "gone"] \in TaskRecord
    BY <1>1 DEF TaskRecord
  <2>2. QED
    BY <1>1, <1>7, <2>1, UpdateType DEF ClientGone
<1>8. QED
  BY <1>4, <1>5, <1>6, <1>7 DEF RemoteStep

LEMMA PrefixType ==
  ASSUME NEW l \in Seq(Point), NEW k \in 0..Len(l)
  PROVE  k \in Nat /\ SubSeq(l, 1, k) \in Seq(Point) /\ Len(SubSeq(l, 1, k)) = k
OBVIOUS

LEMMA CrashType ==
  ASSUME TypeOK, NEW n \in Node, Crash(n)
  PROVE  TypeOK'
<1>1. PICK kept \in [Shard -> UNION {flushed[n][s]..Len(log[n][s]) : s \in Shard}] :
        /\ \A s \in Shard : kept[s] \in flushed[n][s]..Len(log[n][s])
        /\ log' = [log EXCEPT ![n] = [s \in Shard |-> SubSeq(log[n][s], 1, kept[s])]]
        /\ flushed' = [flushed EXCEPT ![n] = kept]
  BY DEF Crash
<1>2. ASSUME NEW s \in Shard
      PROVE  /\ kept[s] \in Nat
             /\ SubSeq(log[n][s], 1, kept[s]) \in Seq(Point)
             /\ Len(SubSeq(log[n][s], 1, kept[s])) = kept[s]
  <2>1. /\ flushed[n][s] \in Nat
        /\ log[n][s] \in Seq(Point)
        /\ Len(log[n][s]) \in Nat
    BY DEF TypeOK
  <2>2. kept[s] \in flushed[n][s]..Len(log[n][s])
    BY <1>1, Zenon
  <2>3. \A f, l \in Nat : \A k \in f..l : k \in 0..l
    OBVIOUS
  <2>4. kept[s] \in 0..Len(log[n][s])
    BY <2>1, <2>2, <2>3, Zenon
  <2>5. QED
    BY <2>1, <2>4, PrefixType
<1>3. log' \in [Node -> [Shard -> Seq(Point)]]
  BY <1>1, <1>2 DEF TypeOK
<1>4. flushed' \in [Node -> [Shard -> Nat]]
  BY <1>1, <1>2 DEF TypeOK
<1>5. ASSUME NEW m \in Node, NEW s \in Shard
      PROVE  flushed'[m][s] <= Len(log'[m][s])
  <2>1. CASE m = n
    <3>1. /\ log'[m][s] = SubSeq(log[n][s], 1, kept[s])
          /\ flushed'[m][s] = kept[s]
      BY <1>1, <2>1 DEF TypeOK
    <3>2. QED
      BY <1>2, <3>1
  <2>2. CASE m # n
    <3>1. log'[m][s] = log[m][s] /\ flushed'[m][s] = flushed[m][s]
      BY <1>1, <2>2 DEF TypeOK
    <3>2. QED
      BY <3>1 DEF TypeOK
  <2>3. QED
    BY <2>1, <2>2
<1>6. task' \in [Task -> TaskRecord]
  <2>1. ASSUME NEW t \in Task
        PROVE  [task[t] EXCEPT !.st = "gone"] \in TaskRecord
    <3>1. task[t] \in TaskRecord
      BY DEF TypeOK
    <3>2. QED
      BY <3>1 DEF TaskRecord
  <2>2. QED
    BY <2>1 DEF TypeOK, Crash
<1>7. up' \in [Node -> BOOLEAN] /\ crashes' \in 0..MaxCrash
  BY PlacementAssumption DEF TypeOK, Crash
<1>8. QED
  BY <1>3, <1>4, <1>5, <1>6, <1>7 DEF TypeOK, Crash

LEMMA MembershipType ==
  ASSUME TypeOK, NEW n \in Node, NEW m \in Node,
         Restart(n) \/ AddRemoteShards(n, m)
  PROVE  TypeOK'
<1>1. CASE Restart(n)
  BY <1>1 DEF TypeOK, Restart
<1>2. CASE AddRemoteShards(n, m)
  <2>1. Append(remotes[n], m) \in Seq(Node)
    BY DEF TypeOK
  <2>2. QED
    BY <1>2, <2>1 DEF TypeOK, AddRemoteShards
<1>3. QED
  BY <1>1, <1>2

-----------------------------------------------------------------------------

(* What a step may do to the logs: what is on disk stays on disk, and      *)
(* unless the process dies, what is inserted stays inserted.               *)
KeepsDisk ==
  \A n \in Node, s \in Shard :
    /\ flushed[n][s] <= flushed'[n][s]
    /\ \A i \in 1..flushed[n][s] : log'[n][s][i] = log[n][s][i]

KeepsLog(n) ==
  \A s \in Shard :
    /\ Len(log[n][s]) <= Len(log'[n][s])
    /\ \A i \in 1..Len(log[n][s]) : log'[n][s][i] = log[n][s][i]

LEMMA SameDisk ==
  ASSUME TypeOK, UNCHANGED <<log, flushed>>
  PROVE  KeepsDisk /\ \A n \in Node : KeepsLog(n)
<1>1. \A n \in Node, s \in Shard : flushed[n][s] \in Nat /\ Len(log[n][s]) \in Nat
  BY DEF TypeOK
<1>2. QED
  BY <1>1 DEF KeepsDisk, KeepsLog

LEMMA DurableStays ==
  ASSUME TypeOK, TypeOK', KeepsDisk, NEW n \in Node, NEW p, HoldsDurably(n, p)
  PROVE  HoldsDurably(n, p)'
<1>1. PICK s \in Shard : \E i \in 1..flushed[n][s] : log[n][s][i] = p
  BY DEF HoldsDurably
<1>2. PICK i \in 1..flushed[n][s] : log[n][s][i] = p
  BY <1>1
<1>3. flushed[n][s] \in Nat /\ flushed'[n][s] \in Nat
  BY DEF TypeOK
<1>4. i \in 1..flushed'[n][s] /\ log'[n][s][i] = p
  BY <1>2, <1>3 DEF KeepsDisk
<1>5. QED
  BY <1>4 DEF HoldsDurably

LEMMA DoneStays ==
  ASSUME TypeOK, TypeOK', KeepsDisk, NEW t \in Task, NEW p,
         task[t].node \in Node, task'[t].node = task[t].node,
         task'[t].need = task[t].need, Done(t, p)
  PROVE  Done(t, p)'
BY DurableStays DEF Done, HeldByOther

(* Points and their shards are fixed while an execution runs.              *)
LEMMA PointsStay ==
  ASSUME NEW t \in Task, t \in Call => task'[t[1]].node = task[t[1]].node
  PROVE  Points(t)' = Points(t)
<1>1. CASE t \in Op
  BY <1>1 DEF Points
<1>2. CASE t \in Call
  BY <1>2, IdAssumption DEF Points, Group, Route
<1>3. QED
  BY <1>1, <1>2 DEF Task

LEMMA InRange ==
  ASSUME NEW a \in Nat, NEW b \in Nat, a <= b, NEW i \in 1..a
  PROVE  i \in 1..b
OBVIOUS

(* The progress of an execution that does not move.                        *)
LEMMA Frame ==
  ASSUME TypeOK, TypeOK', KeepsDisk, NEW t \in Task, Progress(t),
         task'[t] = task[t],
         task[t].st \notin {"idle", "sent"} => task[t].node \in Node,
         task[t].st = "local" => KeepsLog(task[t].node),
         task[t].st # "idle" /\ t \in Call => task'[t[1]].node = task[t[1]].node
  PROVE  Progress(t)'
<1>1. CASE task[t].st \in {"idle", "sent", "err", "gone"}
  BY <1>1 DEF Progress, Active
<1>2. CASE task[t].st \notin {"idle", "sent", "err", "gone"}
  <2> DEFINE n == task[t].node
             z == task[t].shard
  <2>1. Points(t)' = Points(t) /\ InShard(t)' = InShard(t)
    BY <1>2, PointsStay DEF InShard, Route
  <2>2. n \in Node
    BY <1>2
  <2>3. \A p : HoldsDurably(n, p) => HoldsDurably(n, p)'
    BY <2>2, DurableStays
  <2>4. \A p : HeldByOther(n, p) => HeldByOther(n, p)'
    BY DurableStays DEF HeldByOther
  <2>5. \A p : Done(t, p) => Done(t, p)'
    BY <2>2, DoneStays
  <2>6. ASSUME task[t].st = "local", NEW p,
               \E i \in 1..Len(log[n][z]) : log[n][z][i] = p
        PROVE  \E i \in 1..Len(log'[n][z]) : log'[n][z][i] = p
    <3>1. z \in Shard
      BY <2>6 DEF Progress
    <3>2. Len(log[n][z]) \in Nat /\ Len(log'[n][z]) \in Nat
      <4>1. log[n][z] \in Seq(Point) /\ log'[n][z] \in Seq(Point)
        <5>1. log \in [Node -> [Shard -> Seq(Point)]]
          BY DEF TypeOK
        <5>2. log' \in [Node -> [Shard -> Seq(Point)]]
          BY DEF TypeOK
        <5>3. QED
          BY <2>2, <3>1, <5>1, <5>2
      <4>2. \A l \in Seq(Point) : Len(l) \in Nat
        OBVIOUS
      <4> DEFINE l == log[n][z]
                 k == log'[n][z]
      <4>3. l \in Seq(Point) /\ k \in Seq(Point)
        BY <4>1
      <4> HIDE DEF l, k
      <4>4. Len(l) \in Nat /\ Len(k) \in Nat
        BY <4>2, <4>3
      <4>5. QED
        BY <4>4 DEF l, k
    <3>3. PICK i \in 1..Len(log[n][z]) : log[n][z][i] = p
      BY <2>6
    <3>4. KeepsLog(n)
      BY <2>6
    <3>5. Len(log[n][z]) <= Len(log'[n][z]) /\ log'[n][z][i] = log[n][z][i]
      BY <3>1, <3>3, <3>4 DEF KeepsLog
    <3>6. i \in 1..Len(log'[n][z])
      BY <3>2, <3>3, <3>5, InRange
    <3>7. QED
      BY <3>3, <3>5, <3>6
  <2>7. (\A p \in Points(t) :
           \/ Done(t, p)
           \/ Active(t) /\ Route(n, p.id) \in task[t].todo
           \/ Active(t) /\ task[t].st # "pick" /\ p \in InShard(t))
        => (\A p \in Points(t) :
           \/ Done(t, p)
           \/ Active(t) /\ Route(n, p.id) \in task[t].todo
           \/ Active(t) /\ task[t].st # "pick" /\ p \in InShard(t))'
    BY <2>1, <2>5 DEF Active, Route
  <2>8. QED
    BY <2>1, <2>3, <2>4, <2>6, <2>7, SMTT(20) DEF Progress, Active
<1>3. QED
  BY <1>1, <1>2

(* An execution that runs has a peer; what runs, and where, is settled.    *)
LEMMA HasNode ==
  ASSUME WriteProgress, NEW t \in Task, task[t].st \notin {"idle", "sent"}
  PROVE  task[t].node \in Node
<1>1. task[t].node \in Node \cup {None}
  BY DEF WriteProgress, TypeOK, TaskRecord
<1>2. CASE t \in Op
  BY <1>1, <1>2 DEF WriteProgress, WellPlaced
<1>3. CASE t \in Call
  BY <1>3 DEF WriteProgress, WellPlaced, Call
<1>4. QED
  BY <1>2, <1>3 DEF Task

(* A step that writes the record of one execution, which runs or has just  *)
(* begun, keeps the invariant if it keeps that execution's own part of it. *)
LEMMA OneExecution ==
  ASSUME WriteProgress, TypeOK', KeepsDisk, \A n \in Node : KeepsLog(n),
         remotes' = remotes,
         NEW t \in Task, NEW r \in TaskRecord, Becomes(t, r),
         r.st \notin {"idle", "sent", "await"},
         r.node \in Node,
         \A i \in 1..Len(r.peers) : r.peers[i] # r.node,
         t \in Op /\ task[t].st # "idle" => r.node = task[t].node,
         t \in Call => /\ task[t].st # "idle"
                       /\ r.peers = <<>>
                       /\ r.need = 1
                       /\ r.node = t[3],
         Progress(t)'
  PROVE  WriteProgress'
<1>1. \A u \in Task : task'[u] = IF u = t THEN r ELSE task[u]
  BY DEF Becomes, WriteProgress, TypeOK
<1>2. \A c \in Call : c \in Task /\ c \notin Op /\ c[1] \in Op /\ c[1] \in Task
  BY IdAssumption DEF Call, Task
<1>3. ASSUME NEW c \in Call, task[c].st # "idle"
      PROVE  task'[c[1]].node = task[c[1]].node
  <2>1. CASE c[1] = t
    <3>1. t \in Op /\ task[t].node \in Node
      BY <1>2, <1>3, <2>1 DEF WriteProgress, WellPlaced
    <3>2. task[t].st # "idle"
      BY <3>1, IdAssumption DEF WriteProgress, WellPlaced
    <3>3. QED
      BY <1>1, <2>1, <3>1, <3>2
  <2>2. CASE c[1] # t
    BY <1>1, <1>2, <2>2
  <2>3. QED
    BY <2>1, <2>2
<1>4. WellPlaced'
  <2>1. \A n \in Node : \A i \in 1..Len(remotes'[n]) : remotes'[n][i] # n
    BY DEF WriteProgress, WellPlaced
  <2>2. ASSUME NEW o \in Op
        PROVE  /\ task'[o].st # "sent"
               /\ task'[o].st = "idle" <=> task'[o].node = None
               /\ task'[o].st = "idle" => task'[o].peers = <<>>
               /\ task'[o].st = "await" => task'[o].peers # <<>>
               /\ \A i \in 1..Len(task'[o].peers) : task'[o].peers[i] # task'[o].node
    BY <1>1, IdAssumption DEF WriteProgress, WellPlaced, Task
  <2>3. ASSUME NEW c \in Call
        PROVE  /\ task'[c].st # "await"
               /\ task'[c].peers = <<>>
               /\ task'[c].need = 1
               /\ task'[c].st # "idle" => task'[c[1]].node \in Node \ {c[3]}
               /\ task'[c].st \notin {"idle", "sent"} => task'[c].node = c[3]
    <3>1. CASE c = t
      BY <1>1, <1>2, <1>3, <3>1 DEF WriteProgress, WellPlaced
    <3>2. CASE c # t
      BY <1>1, <1>2, <1>3, <3>2 DEF WriteProgress, WellPlaced
    <3>3. QED
      BY <3>1, <3>2
  <2>4. QED
    BY <2>1, <2>2, <2>3 DEF WellPlaced
<1>5. ASSUME NEW u \in Task, u # t
      PROVE  Progress(u)'
  <2>1. task'[u] = task[u]
    BY <1>1, <1>5
  <2>2. task[u].st \notin {"idle", "sent"} => task[u].node \in Node
    BY HasNode
  <2>3. TypeOK /\ Progress(u)
    BY DEF WriteProgress
  <2>4. task[u].st = "local" => KeepsLog(task[u].node)
    BY <2>2
  <2>5. task[u].st # "idle" /\ u \in Call => task'[u[1]].node = task[u[1]].node
    BY <1>3
  <2>6. QED
    BY <2>1, <2>2, <2>3, <2>4, <2>5, Frame
<1>6. QED
  BY <1>4, <1>5 DEF WriteProgress

LEMMA InitProgress == Init => WriteProgress
<1>1. ASSUME Init PROVE WriteProgress
  <2>1. TypeOK
    BY <1>1, TypeInit
  <2>2. \A t \in Task : task[t] = NotBegun
    BY <1>1 DEF Init
  <2>3. WellPlaced
    BY <1>1, <2>2, IdAssumption, PlacementAssumption
    DEF Init, WellPlaced, NotBegun, Task
  <2>4. \A t \in Task : Progress(t)
    BY <2>2 DEF Progress, Active, NotBegun
  <2>5. QED
    BY <2>1, <2>3, <2>4 DEF WriteProgress
<1>2. QED
  BY <1>1

(* An execution begins: all its points are in shards to come.              *)
LEMMA BeginProgress ==
  ASSUME WriteProgress, NEW t \in Task, NEW n \in Node, Begin(t, n),
         t \in Op => task[t].st = "idle",
         t \in Call => task[t].st = "sent" /\ n = t[3]
  PROVE  WriteProgress'
<1> DEFINE todo == {Route(n, p.id) : p \in Points(t)}
           need == MinDesiredSuccess(t, n)
           st == IF n \in Hosts /\ (Points(t) = {} \/ Shards[n] # {})
                 THEN "pick" ELSE "err"
           r == [task[t] EXCEPT !.st = st, !.node = n, !.todo = todo, !.need = need]
<1>1. TypeOK /\ TypeOK' /\ WellPlaced
  BY BeginType DEF WriteProgress
<1>2. task[t] \in TaskRecord
  BY <1>1 DEF TypeOK
<1>3. Becomes(t, r) /\ remotes' = remotes
  BY DEF Begin
<1>4. task'[t] = r
  BY <1>1, <1>3 DEF Becomes, TypeOK
<1>5. r \in TaskRecord
  BY <1>1, <1>4 DEF TypeOK
<1>6. KeepsDisk /\ \A m \in Node : KeepsLog(m)
  BY <1>1, SameDisk DEF Begin
<1>7. t \in Call => task'[t[1]].node = task[t[1]].node
  BY <1>1, <1>3, IdAssumption DEF Becomes, TypeOK, Call, Task
<1>8. Points(t)' = Points(t)
  BY <1>7, PointsStay
<1>9. /\ r.st = st /\ r.node = n /\ r.todo = todo /\ r.need = need
      /\ r.peers = task[t].peers
  BY <1>2 DEF TaskRecord
<1>10. st \in {"pick", "err"}
  OBVIOUS
<1> HIDE DEF st, need, r
<1>11. Progress(t)'
  BY <1>4, <1>8, <1>9, <1>10 DEF Progress, Active, Route
<1>12. t \in Call => r.need = 1
  BY <1>9, IdAssumption DEF need, MinDesiredSuccess
<1>13. task[t].peers = <<>>
  <2>1. CASE t \in Call
    BY <1>1, <2>1 DEF WellPlaced
  <2>2. CASE t \in Op
    BY <1>1, <2>2 DEF WellPlaced
  <2>3. QED
    BY <2>1, <2>2 DEF Task
<1>14. QED
  BY <1>3, <1>5, <1>6, <1>9, <1>10, <1>11, <1>12, <1>13, <1>1, OneExecution

LEMMA PickShardProgress ==
  ASSUME WriteProgress, NEW t \in Task, PickShard(t)
  PROVE  WriteProgress'
<1> DEFINE n == task[t].node
           st(s) == IF s \in Segmented[n] THEN "local" ELSE "remote"
           left(s) == Group(n, Points(t), s)
           peers == IF t \in Op THEN remotes[n] ELSE <<>>
           r(s) == [task[t] EXCEPT !.st = st(s), !.todo = @ \ {s}, !.shard = s,
                                   !.left = left(s), !.localOk = FALSE,
                                   !.remoteOk = 0, !.peers = peers]
<1>1. PICK s \in task[t].todo : Becomes(t, r(s))
  BY DEF PickShard
<1>2. n \in Node /\ task[t].st = "pick"
  BY HasNode DEF PickShard
<1>3. TypeOK /\ TypeOK' /\ WellPlaced /\ Progress(t)
  BY <1>2, PickShardType DEF WriteProgress
<1>4. task[t] \in TaskRecord
  BY <1>3 DEF TypeOK
<1>5. task'[t] = r(s)
  BY <1>1, <1>3 DEF Becomes, TypeOK
<1>6. r(s) \in TaskRecord
  BY <1>3, <1>5 DEF TypeOK
<1>7. KeepsDisk /\ (\A m \in Node : KeepsLog(m)) /\ remotes' = remotes
  BY <1>3, SameDisk DEF PickShard
<1>8. t \in Call => task'[t[1]].node = task[t[1]].node
  BY <1>3, <1>1, IdAssumption DEF Becomes, TypeOK, Call, Task
<1>9. Points(t)' = Points(t)
  BY <1>8, PointsStay
<1>10. /\ r(s).st = st(s) /\ r(s).node = n /\ r(s).todo = task[t].todo \ {s}
       /\ r(s).shard = s /\ r(s).left = left(s) /\ r(s).localOk = FALSE
       /\ r(s).remoteOk = 0 /\ r(s).peers = peers /\ r(s).need = task[t].need
  BY <1>4 DEF TaskRecord
<1>11. s \in Shard
  BY <1>4 DEF TaskRecord
<1>12. InShard(t)' = left(s)
  BY <1>5, <1>9, <1>10 DEF InShard, Group, Route
<1>13. \A p : Done(t, p) => Done(t, p)'
  BY <1>2, <1>3, <1>5, <1>7, <1>10, DoneStays
<1>14. \A p \in Points(t) : Done(t, p) \/ Route(n, p.id) \in task[t].todo
  BY <1>2, <1>3 DEF Progress, Active
<1>15. \A i \in 1..Len(peers) : peers[i] # n
  BY <1>2, <1>3 DEF WellPlaced
<1>16. st(s) \in {"local", "remote"}
  OBVIOUS
<1>17. \A p \in Points(t) : p \in left(s) <=> Route(n, p.id) = s
  BY DEF Group
<1>18. t \in Call => peers = <<>> /\ task[t].need = 1 /\ n = t[3]
  BY <1>2, <1>3, IdAssumption DEF WellPlaced
<1> HIDE DEF st, left, peers, r
<1>19. \A p \in Points(t) :
         Done(t, p)' \/ Route(n, p.id) \in task'[t].todo \/ p \in InShard(t)'
  BY <1>5, <1>10, <1>12, <1>13, <1>14, <1>17
<1>20. Progress(t)'
  BY <1>5, <1>9, <1>10, <1>11, <1>12, <1>16, <1>19 DEF Progress, Active, Route
<1>21. QED
  BY <1>1, <1>2, <1>3, <1>6, <1>7, <1>10, <1>15, <1>16, <1>18, <1>20, OneExecution

(* What Append puts last.                                                  *)
LEMMA AppendLast ==
  ASSUME NEW l \in Seq(Point), NEW x \in Point
  PROVE  \E k \in 1..Len(Append(l, x)) : Append(l, x)[k] = x
<1>1. /\ Len(Append(l, x)) = Len(l) + 1
      /\ Append(l, x)[Len(l) + 1] = x
      /\ Len(l) \in Nat
  OBVIOUS
<1>2. Len(l) + 1 \in 1..Len(Append(l, x))
  BY <1>1
<1>3. QED
  BY <1>1, <1>2

(* What Append leaves where it was.                                        *)
LEMMA AppendKeeps ==
  ASSUME NEW l \in Seq(Point), NEW x \in Point, NEW i \in 1..Len(l)
  PROVE  i \in 1..Len(Append(l, x)) /\ Append(l, x)[i] = l[i]
<1>1. Len(Append(l, x)) = Len(l) + 1 /\ Len(l) \in Nat
  OBVIOUS
<1>2. i \in 1..(Len(l) + 1)
  BY <1>1
<1>3. Append(l, x)[i] = l[i]
  OBVIOUS
<1>4. QED
  BY <1>1, <1>2, <1>3

(* The insertion extends the log of the execution's own shard.             *)
LEMMA InsertKeeps ==
  ASSUME TypeOK, NEW n \in Node, NEW s \in Shard, NEW p \in Point,
         log' = [log EXCEPT ![n][s] = Append(@, p)], flushed' = flushed
  PROVE  /\ KeepsDisk
         /\ \A m \in Node : KeepsLog(m)
         /\ log'[n][s] = Append(log[n][s], p)
<1>1. \A m \in Node, z \in Shard :
        log'[m][z] = IF m = n /\ z = s THEN Append(log[n][s], p) ELSE log[m][z]
  BY DEF TypeOK
<1>2. ASSUME NEW m \in Node, NEW z \in Shard
      PROVE  /\ Len(log[m][z]) <= Len(log'[m][z])
             /\ \A i \in 1..Len(log[m][z]) : log'[m][z][i] = log[m][z][i]
  <2>1. log[m][z] \in Seq(Point) /\ Len(log[m][z]) \in Nat
    BY DEF TypeOK
  <2>2. QED
    BY <1>1, <2>1
<1>3. \A m \in Node, z \in Shard :
        /\ flushed[m][z] \in Nat /\ Len(log[m][z]) \in Nat
        /\ flushed[m][z] <= Len(log[m][z])
  BY DEF TypeOK
<1>4. \A m \in Node : KeepsLog(m)
  BY <1>2 DEF KeepsLog
<1>5. KeepsDisk
  <2>1. ASSUME NEW m \in Node, NEW z \in Shard
        PROVE  /\ flushed[m][z] <= flushed'[m][z]
               /\ \A i \in 1..flushed[m][z] : log'[m][z][i] = log[m][z][i]
    BY <1>2, <1>3
  <2>2. QED
    BY <2>1 DEF KeepsDisk
<1>6. QED
  BY <1>1, <1>4, <1>5

LEMMA InsertPointProgress ==
  ASSUME WriteProgress, NEW t \in Task, InsertPoint(t)
  PROVE  WriteProgress'
<1> DEFINE n == task[t].node
           s == task[t].shard
           r(p) == [task[t] EXCEPT !.left = @ \ {p}]
<1>1. PICK p \in task[t].left :
        Becomes(t, r(p)) /\ log' = [log EXCEPT ![n][s] = Append(@, p)]
  BY DEF InsertPoint
<1>2. n \in Node /\ task[t].st = "local"
  BY HasNode DEF InsertPoint
<1>3. TypeOK /\ WellPlaced /\ Progress(t)
  BY DEF WriteProgress
<1>4. s \in Shard
  BY <1>2, <1>3 DEF Progress
<1>5. TypeOK'
  BY <1>2, <1>3, <1>4, InsertPointType
<1>6. task[t] \in TaskRecord
  BY <1>3 DEF TypeOK
<1>7. task'[t] = r(p) /\ r(p) \in TaskRecord
  BY <1>1, <1>3, <1>5 DEF Becomes, TypeOK
<1>8. p \in Point
  BY <1>6 DEF TaskRecord
<1>9. /\ KeepsDisk
      /\ \A m \in Node : KeepsLog(m)
      /\ log'[n][s] = Append(log[n][s], p)
  <2>1. TypeOK /\ n \in Node /\ s \in Shard /\ p \in Point
    BY <1>2, <1>3, <1>4, <1>8
  <2>2. log' = [log EXCEPT ![n][s] = Append(@, p)] /\ flushed' = flushed
    BY <1>1 DEF InsertPoint
  <2>3. QED
    BY <2>1, <2>2, InsertKeeps, Zenon
<1>10. /\ r(p).left = task[t].left \ {p}
       /\ r(p) = [task[t] EXCEPT !.left = r(p).left]
       /\ r(p).st = "local" /\ r(p).node = n /\ r(p).todo = task[t].todo
       /\ r(p).shard = s /\ r(p).localOk = task[t].localOk
       /\ r(p).remoteOk = task[t].remoteOk /\ r(p).peers = task[t].peers
       /\ r(p).need = task[t].need
  BY <1>2, <1>6 DEF TaskRecord
<1> HIDE DEF r
<1>11. t \in Call => task'[t[1]].node = task[t[1]].node
  BY <1>3, <1>1, IdAssumption DEF Becomes, TypeOK, Call, Task
<1>12. Points(t)' = Points(t)
  BY <1>11, PointsStay
<1>13. InShard(t)' = InShard(t)
  BY <1>7, <1>10, <1>12 DEF InShard, Route
<1>14. \A q : Done(t, q) => Done(t, q)'
  BY <1>2, <1>3, <1>5, <1>7, <1>9, <1>10, DoneStays
<1>15. \A q \in Points(t) :
         Done(t, q)' \/ Route(n, q.id) \in task'[t].todo \/ q \in InShard(t)'
  BY <1>2, <1>3, <1>7, <1>10, <1>13, <1>14 DEF Progress, Active
<1>16. ASSUME NEW q \in InShard(t) \ r(p).left
       PROVE  \E i \in 1..Len(log'[n][s]) : log'[n][s][i] = q
  <2>1. log[n][s] \in Seq(Point) /\ Len(log[n][s]) \in Nat
    BY <1>2, <1>3, <1>4 DEF TypeOK
  <2>2. CASE q = p
    <3>1. \E k \in 1..Len(Append(log[n][s], p)) : Append(log[n][s], p)[k] = p
      <4> DEFINE l == log[n][s]
      <4>1. l \in Seq(Point)
        BY <2>1
      <4> HIDE DEF l
      <4>2. \E k \in 1..Len(Append(l, p)) : Append(l, p)[k] = p
        BY <1>8, <4>1, AppendLast
      <4>3. QED
        BY <4>2 DEF l
    <3>2. log'[n][s] = Append(log[n][s], p)
      BY <1>9
    <3>3. QED
      BY <2>2, <3>1, <3>2, Zenon
  <2>3. CASE q # p
    <3>1. PICK i \in 1..Len(log[n][s]) : log[n][s][i] = q
      BY <1>2, <1>3, <1>10, <2>3 DEF Progress
    <3>2. /\ i \in 1..Len(Append(log[n][s], p))
          /\ Append(log[n][s], p)[i] = log[n][s][i]
      <4> DEFINE l == log[n][s]
      <4>1. l \in Seq(Point) /\ i \in 1..Len(l)
        BY <2>1, <3>1
      <4> HIDE DEF l
      <4>2. i \in 1..Len(Append(l, p)) /\ Append(l, p)[i] = l[i]
        BY <1>8, <4>1, AppendKeeps
      <4>3. QED
        BY <4>2 DEF l
    <3>3. QED
      BY <1>9, <3>1, <3>2, Zenon
  <2>4. QED
    BY <2>2, <2>3
<1>17. ~task[t].localOk /\ task[t].remoteOk = 0
  BY <1>2, <1>3 DEF Progress
<1>18. Progress(t)'
  <2>1. task'[t].st = "local" /\ task'[t].node = n /\ task'[t].shard = s
    BY <1>7, <1>10
  <2>2. ~task'[t].localOk /\ task'[t].remoteOk = 0
    BY <1>7, <1>10, <1>17
  <2>3. \A q \in InShard(t)' \ task'[t].left :
          \E i \in 1..Len(log'[n][s]) : log'[n][s][i] = q
    BY <1>7, <1>13, <1>16
  <2>4. QED
    BY <1>4, <1>12, <1>15, <2>1, <2>2, <2>3 DEF Progress, Active, Route
<1>19. remotes' = remotes
  BY DEF InsertPoint
<1>20. \A i \in 1..Len(r(p).peers) : r(p).peers[i] # r(p).node
  BY <1>3, <1>10 DEF WellPlaced, Task
<1>21. t \in Call => /\ r(p).peers = <<>> /\ r(p).need = 1 /\ r(p).node = t[3]
  BY <1>2, <1>3, <1>10 DEF WellPlaced
<1>22. QED
  BY <1>1, <1>2, <1>5, <1>7, <1>9, <1>10, <1>18, <1>19, <1>20, <1>21, OneExecution

(* A flush puts the whole log of the shard on disk.                        *)
LEMMA FlushKeeps ==
  ASSUME TypeOK, NEW n \in Node, NEW s \in Shard, log' = log,
         flushed' = [flushed EXCEPT ![n][s] = Len(log[n][s])]
  PROVE  /\ KeepsDisk
         /\ \A m \in Node : KeepsLog(m)
         /\ flushed'[n][s] = Len(log[n][s])
<1>1. \A m \in Node, z \in Shard :
        flushed'[m][z] = IF m = n /\ z = s THEN Len(log[n][s]) ELSE flushed[m][z]
  BY DEF TypeOK
<1>2. \A m \in Node, z \in Shard :
        /\ flushed[m][z] \in Nat /\ Len(log[m][z]) \in Nat
        /\ flushed[m][z] <= Len(log[m][z])
  BY DEF TypeOK
<1>3. \A m \in Node : KeepsLog(m)
  BY <1>2 DEF KeepsLog
<1>4. KeepsDisk
  BY <1>1, <1>2 DEF KeepsDisk
<1>5. QED
  BY <1>1, <1>3, <1>4

LEMMA FlushProgress ==
  ASSUME WriteProgress, NEW t \in Task, Flush(t)
  PROVE  WriteProgress'
<1> DEFINE n == task[t].node
           s == task[t].shard
           r == [task[t] EXCEPT !.st = "remote", !.localOk = TRUE]
<1>1. n \in Node /\ task[t].st = "local" /\ task[t].left = {}
  BY HasNode DEF Flush
<1>2. TypeOK /\ WellPlaced /\ Progress(t)
  BY DEF WriteProgress
<1>3. s \in Shard
  BY <1>1, <1>2 DEF Progress
<1>4. TypeOK'
  BY <1>1, <1>2, <1>3, FlushType
<1>5. task[t] \in TaskRecord
  BY <1>2 DEF TypeOK
<1>6. Becomes(t, r) /\ remotes' = remotes /\ log' = log
  BY DEF Flush
<1>7. task'[t] = r /\ r \in TaskRecord
  BY <1>2, <1>4, <1>6 DEF Becomes, TypeOK
<1>8. /\ KeepsDisk
      /\ \A m \in Node : KeepsLog(m)
      /\ flushed'[n][s] = Len(log[n][s])
  BY <1>1, <1>2, <1>3, <1>6, FlushKeeps DEF Flush
<1>9. /\ r.st = "remote" /\ r.node = n /\ r.todo = task[t].todo /\ r.shard = s
      /\ r.localOk = TRUE /\ r.remoteOk = task[t].remoteOk
      /\ r.peers = task[t].peers /\ r.need = task[t].need
  BY <1>5 DEF TaskRecord
<1> HIDE DEF r
<1>10. t \in Call => task'[t[1]].node = task[t[1]].node
  BY <1>2, <1>6, IdAssumption DEF Becomes, TypeOK, Call, Task
<1>11. Points(t)' = Points(t)
  BY <1>10, PointsStay
<1>12. InShard(t)' = InShard(t)
  BY <1>7, <1>9, <1>11 DEF InShard, Route
<1>13. \A q : Done(t, q) => Done(t, q)'
  BY <1>1, <1>2, <1>4, <1>7, <1>8, <1>9, DoneStays
<1>14. \A q \in Points(t) :
         Done(t, q)' \/ Route(n, q.id) \in task'[t].todo \/ q \in InShard(t)'
  BY <1>1, <1>2, <1>7, <1>9, <1>12, <1>13 DEF Progress, Active
<1>15. ASSUME NEW q \in InShard(t)
       PROVE  HoldsDurably(n, q)'
  <2>1. PICK i \in 1..Len(log[n][s]) : log[n][s][i] = q
    BY <1>1, <1>2 DEF Progress
  <2>2. i \in 1..flushed'[n][s] /\ log'[n][s][i] = q
    BY <1>6, <1>8, <2>1
  <2>3. n' = n
    BY <1>7, <1>9
  <2>4. QED
    BY <1>3, <2>2, <2>3 DEF HoldsDurably
<1>16. task[t].remoteOk = 0
  BY <1>1, <1>2 DEF Progress
<1>17. Progress(t)'
  BY <1>3, <1>7, <1>9, <1>11, <1>12, <1>14, <1>15, <1>16 DEF Progress, Active, Route
<1>18. \A i \in 1..Len(r.peers) : r.peers[i] # r.node
  BY <1>2, <1>9 DEF WellPlaced, Task
<1>19. t \in Call => r.peers = <<>> /\ r.need = 1 /\ r.node = t[3]
  BY <1>1, <1>2, <1>9 DEF WellPlaced
<1>20. QED
  BY <1>1, <1>4, <1>6, <1>7, <1>8, <1>9, <1>17, <1>18, <1>19, OneExecution

(* Steps that leave the disks alone and change the outcome so far of one   *)
(* execution, or the calls it has yet to make: what is so of its points    *)
(* stays so.                                                               *)
MovesTo(t, r) ==
  /\ Active(t)
  /\ r \in TaskRecord
  /\ Becomes(t, r)
  /\ UNCHANGED <<remotes, log, flushed>>
  /\ r.st \notin {"idle", "sent", "await"}
  /\ r.node = task[t].node
  /\ r.need = task[t].need
  /\ r.shard = task[t].shard

LEMMA MoveFacts ==
  ASSUME WriteProgress, TypeOK', NEW t \in Task, NEW r, MovesTo(t, r)
  PROVE  /\ task'[t] = r
         /\ task[t].node \in Node
         /\ KeepsDisk /\ \A n \in Node : KeepsLog(n)
         /\ Points(t)' = Points(t)
         /\ InShard(t)' = InShard(t)
         /\ \A q : Done(t, q) => Done(t, q)'
         /\ \A q : HoldsDurably(task[t].node, q) => HoldsDurably(task[t].node, q)'
         /\ \A q : HeldByOther(task[t].node, q) => HeldByOther(task[t].node, q)'
<1>1. TypeOK /\ WellPlaced
  BY DEF WriteProgress
<1>2. KeepsDisk /\ \A m \in Node : KeepsLog(m)
  BY <1>1, SameDisk DEF MovesTo
<1>3. task[t].node \in Node
  BY HasNode DEF MovesTo, Active
<1>4. task'[t] = r
  BY <1>1 DEF MovesTo, Becomes, TypeOK
<1>5. t \in Call => task'[t[1]].node = task[t[1]].node
  BY <1>1, IdAssumption DEF MovesTo, Becomes, TypeOK, Call, Task
<1>6. Points(t)' = Points(t)
  BY <1>5, PointsStay
<1>7. InShard(t)' = InShard(t)
  BY <1>4, <1>6 DEF MovesTo, InShard, Route
<1>8. \A q : Done(t, q) => Done(t, q)'
  BY <1>1, <1>2, <1>3, <1>4, DoneStays DEF MovesTo
<1>9. task'[t].node = task[t].node
  BY <1>4 DEF MovesTo
<1>10. \A q : HoldsDurably(task[t].node, q) => HoldsDurably(task[t].node, q)'
  BY <1>1, <1>2, <1>3, <1>9, DurableStays
<1>11. \A q : HeldByOther(task[t].node, q) => HeldByOther(task[t].node, q)'
  BY <1>1, <1>2, <1>9, DurableStays DEF HeldByOther
<1>12. QED
  BY <1>2, <1>3, <1>4, <1>6, <1>7, <1>8, <1>10, <1>11

LEMMA MovesOn ==
  ASSUME WriteProgress, TypeOK', NEW t \in Task, NEW r, MovesTo(t, r),
         \A i \in 1..Len(r.peers) : r.peers[i] # r.node,
         t \in Call => r.peers = <<>>,
         Progress(t)'
  PROVE  WriteProgress'
<1>1. KeepsDisk /\ (\A m \in Node : KeepsLog(m)) /\ task[t].node \in Node
  BY MoveFacts
<1>2. t \in Call => r.need = 1 /\ r.node = t[3]
  BY DEF WriteProgress, WellPlaced, MovesTo, Active
<1>3. task[t].st # "idle"
  BY DEF MovesTo, Active
<1>4. QED
  BY <1>1, <1>2, <1>3, OneExecution DEF MovesTo

LEMMA LocalFailsProgress ==
  ASSUME WriteProgress, NEW t \in Task, LocalFails(t)
  PROVE  WriteProgress'
<1> DEFINE r == [task[t] EXCEPT !.st = "remote", !.left = {}]
<1>1. TypeOK /\ WellPlaced /\ Progress(t) /\ task[t] \in TaskRecord
  BY DEF WriteProgress, TypeOK
<1>2. TypeOK'
  BY <1>1, LocalStepType
<1>3. /\ r.st = "remote" /\ r.node = task[t].node /\ r.todo = task[t].todo
      /\ r.shard = task[t].shard /\ r.localOk = task[t].localOk
      /\ r.remoteOk = task[t].remoteOk /\ r.peers = task[t].peers
      /\ r.need = task[t].need
  BY <1>1 DEF TaskRecord
<1>4. r \in TaskRecord
  BY <1>1 DEF TaskRecord
<1>5. Becomes(t, r) /\ task[t].st = "local"
  BY DEF LocalFails
<1> HIDE DEF r
<1>6. MovesTo(t, r)
  BY <1>3, <1>4, <1>5 DEF MovesTo, LocalFails, Active
<1>7. /\ task'[t] = r
      /\ Points(t)' = Points(t)
      /\ InShard(t)' = InShard(t)
      /\ \A q : Done(t, q) => Done(t, q)'
  BY <1>2, <1>6, MoveFacts
<1>8. Progress(t)'
  BY <1>1, <1>3, <1>5, <1>7 DEF Progress, Active, Route
<1>9. \A i \in 1..Len(r.peers) : r.peers[i] # r.node
  BY <1>1, <1>3 DEF WellPlaced, Task
<1>10. t \in Call => r.peers = <<>>
  BY <1>1, <1>3 DEF WellPlaced
<1>11. QED
  BY <1>2, <1>6, <1>8, <1>9, <1>10, MovesOn

(* The judgement: when it lets the execution go on, the points of the      *)
(* shard are done.                                                         *)
LEMMA JudgeProgress ==
  ASSUME WriteProgress, NEW t \in Task, Judge(t)
  PROVE  WriteProgress'
<1> DEFINE go == task[t].localOk /\ TotalSuccess(task[t]) >= task[t].need
           r == [task[t] EXCEPT !.st = IF go THEN "pick" ELSE "err"]
<1>1. TypeOK /\ WellPlaced /\ Progress(t) /\ task[t] \in TaskRecord
  BY DEF WriteProgress, TypeOK
<1>2. TypeOK'
  BY <1>1, LocalStepType
<1>3. /\ r.st = (IF go THEN "pick" ELSE "err") /\ r.node = task[t].node
      /\ r.todo = task[t].todo /\ r.shard = task[t].shard
      /\ r.peers = task[t].peers /\ r.need = task[t].need
  BY <1>1 DEF TaskRecord
<1>4. Becomes(t, r) /\ task[t].st = "remote" /\ task[t].peers = <<>>
  BY DEF Judge
<1>5. r \in TaskRecord
  BY <1>1, <1>2, <1>4 DEF TypeOK, Becomes
<1>6. ASSUME go, NEW q \in InShard(t)
      PROVE  Done(t, q)
  <2>1. HoldsDurably(task[t].node, q)
    BY <1>1, <1>4, <1>6 DEF Progress
  <2>2. task[t].need = 2 => task[t].remoteOk > 0
    BY <1>1, <1>6 DEF TotalSuccess, TaskRecord
  <2>3. task[t].need = 2 /\ q.id \in NumericId => HeldByOther(task[t].node, q)
    BY <1>1, <1>4, <1>6, <2>2 DEF Progress
  <2>4. QED
    BY <2>1, <2>3 DEF Done
<1> HIDE DEF r, go
<1>7. MovesTo(t, r)
  BY <1>3, <1>4, <1>5 DEF MovesTo, Judge, Active
<1>8. /\ task'[t] = r
      /\ Points(t)' = Points(t)
      /\ InShard(t)' = InShard(t)
      /\ \A q : Done(t, q) => Done(t, q)'
  BY <1>2, <1>7, MoveFacts
<1>9. Progress(t)'
  BY <1>1, <1>3, <1>4, <1>6, <1>8 DEF Progress, Active, Route
<1>10. (\A i \in 1..Len(r.peers) : r.peers[i] # r.node)
       /\ (t \in Call => r.peers = <<>>)
  BY <1>3, <1>4
<1>11. QED
  BY <1>2, <1>7, <1>9, <1>10, MovesOn

LEMMA FinishProgress ==
  ASSUME WriteProgress, NEW t \in Task, Finish(t)
  PROVE  WriteProgress'
<1> DEFINE r == [task[t] EXCEPT !.st = "ok"]
<1>1. TypeOK /\ WellPlaced /\ Progress(t) /\ task[t] \in TaskRecord
  BY DEF WriteProgress, TypeOK
<1>2. TypeOK'
  BY <1>1, LocalStepType
<1>3. /\ r.st = "ok" /\ r.node = task[t].node /\ r.shard = task[t].shard
      /\ r.peers = task[t].peers /\ r.need = task[t].need
  BY <1>1 DEF TaskRecord
<1>4. Becomes(t, r) /\ task[t].st = "pick" /\ task[t].todo = {}
  BY DEF Finish
<1>5. r \in TaskRecord
  BY <1>1, <1>2, <1>4 DEF TypeOK, Becomes
<1> HIDE DEF r
<1>6. MovesTo(t, r)
  BY <1>3, <1>4, <1>5 DEF MovesTo, Finish, Active
<1>7. /\ task'[t] = r
      /\ Points(t)' = Points(t)
      /\ \A q : Done(t, q) => Done(t, q)'
  BY <1>2, <1>6, MoveFacts
<1>8. Progress(t)'
  BY <1>1, <1>3, <1>4, <1>7 DEF Progress, Active
<1>9. \A i \in 1..Len(r.peers) : r.peers[i] # r.node
  BY <1>1, <1>3 DEF WellPlaced, Task
<1>10. t \in Call => r.peers = <<>>
  BY <1>1, <1>3 DEF WellPlaced
<1>11. QED
  BY <1>2, <1>6, <1>8, <1>9, <1>10, MovesOn

LEMMA ClientGoneProgress ==
  ASSUME WriteProgress, NEW o \in Op, ClientGone(o)
  PROVE  WriteProgress'
<1> DEFINE r == [task[o] EXCEPT !.st = "gone"]
<1>1. TypeOK /\ WellPlaced /\ Progress(o) /\ task[o] \in TaskRecord /\ o \in Task
  BY DEF WriteProgress, TypeOK, Task
<1>2. Becomes(o, r) /\ task[o].st = "await"
  BY DEF ClientGone
<1>3. TypeOK'
  BY <1>1, <1>2, RemoteStepType DEF WellPlaced, Progress
<1>4. /\ r.st = "gone" /\ r.node = task[o].node /\ r.shard = task[o].shard
      /\ r.peers = task[o].peers /\ r.need = task[o].need
  BY <1>1 DEF TaskRecord
<1>5. r \in TaskRecord
  BY <1>1, <1>2, <1>3 DEF TypeOK, Becomes
<1> HIDE DEF r
<1>6. MovesTo(o, r)
  BY <1>2, <1>4, <1>5 DEF MovesTo, ClientGone, Active
<1>7. task'[o] = r
  BY <1>1, <1>3, <1>6, MoveFacts
<1>8. Progress(o)'
  BY <1>4, <1>7 DEF Progress, Active
<1>9. \A i \in 1..Len(r.peers) : r.peers[i] # r.node
  BY <1>1, <1>4 DEF WellPlaced
<1>10. o \notin Call
  BY IdAssumption
<1>11. QED
  BY <1>1, <1>3, <1>6, <1>8, <1>9, <1>10, MovesOn

(* The remote answered that it is done, so the points that it was sent,    *)
(* those of the shard with a numeric id, are on its disk.                  *)
LEMMA AnsweredProgress ==
  ASSUME WriteProgress, NEW o \in Op, Answered(o)
  PROVE  WriteProgress'
<1> DEFINE m == Head(task[o].peers)
           c == <<o, task[o].shard, m>>
           k == IF task[c].st = "ok" THEN task[o].remoteOk + 1 ELSE task[o].remoteOk
           r == [task[o] EXCEPT !.st = "remote", !.peers = Tail(@), !.remoteOk = k]
<1>1. TypeOK /\ WellPlaced /\ Progress(o) /\ task[o] \in TaskRecord /\ o \in Task
  BY DEF WriteProgress, TypeOK, Task
<1>2. Becomes(o, r) /\ task[o].st = "await"
  BY DEF Answered
<1>3. task[o].shard \in Shard
  BY <1>1, <1>2 DEF Progress
<1>4. TypeOK'
  BY <1>1, <1>2, <1>3, RemoteStepType DEF WellPlaced, RemoteStep
<1>5. task[o].peers \in Seq(Node) /\ task[o].peers # <<>>
  BY <1>1, <1>2 DEF WellPlaced, TaskRecord
<1>6. /\ m \in Node
      /\ m = task[o].peers[1]
      /\ 1 \in 1..Len(task[o].peers)
      /\ \A i \in 1..Len(Tail(task[o].peers)) :
           /\ i + 1 \in 1..Len(task[o].peers)
           /\ Tail(task[o].peers)[i] = task[o].peers[i + 1]
  BY <1>5
<1>7. /\ r.st = "remote" /\ r.node = task[o].node /\ r.todo = task[o].todo
      /\ r.shard = task[o].shard /\ r.localOk = task[o].localOk
      /\ r.remoteOk = k /\ r.peers = Tail(task[o].peers) /\ r.need = task[o].need
  BY <1>1 DEF TaskRecord
<1>8. r \in TaskRecord
  BY <1>1, <1>2, <1>4 DEF TypeOK, Becomes
<1>9. c \in Call /\ c \in Task /\ c[1] = o /\ c[2] = task[o].shard /\ c[3] = m
  BY <1>3, <1>6 DEF Call, Task
<1>10. m # task[o].node
  BY <1>1, <1>6 DEF WellPlaced
<1>11. ASSUME task[c].st = "ok", NEW q \in InShard(o), q.id \in NumericId
       PROVE  HeldByOther(task[o].node, q)
  <2> HIDE DEF c
  <2>1. q \in Points(c)
    BY <1>9, <1>11, IdAssumption DEF InShard, Points, Group
  <2>2. Done(c, q)
    BY <1>9, <1>11, <2>1 DEF WriteProgress, Progress, Active
  <2>3. task[c].node = m
    BY <1>1, <1>9, <1>11 DEF WellPlaced
  <2>4. HoldsDurably(m, q)
    BY <2>2, <2>3 DEF Done
  <2>5. QED
    BY <1>6, <1>10, <2>4 DEF HeldByOther
<1>12. task[o].remoteOk > 0 =>
         \A q \in InShard(o) : q.id \in NumericId => HeldByOther(task[o].node, q)
  BY <1>1, <1>2 DEF Progress
<1>13. k > 0 =>
         \A q \in InShard(o) : q.id \in NumericId => HeldByOther(task[o].node, q)
  BY <1>11, <1>12
<1>14. task[o].localOk => \A q \in InShard(o) : HoldsDurably(task[o].node, q)
  BY <1>1, <1>2 DEF Progress
<1> HIDE DEF r, k, c, m
<1>15. MovesTo(o, r)
  BY <1>2, <1>7, <1>8 DEF MovesTo, Answered, Active
<1>16. /\ task'[o] = r
       /\ Points(o)' = Points(o)
       /\ InShard(o)' = InShard(o)
       /\ \A q : Done(o, q) => Done(o, q)'
       /\ \A q : HoldsDurably(task[o].node, q) => HoldsDurably(task[o].node, q)'
       /\ \A q : HeldByOther(task[o].node, q) => HeldByOther(task[o].node, q)'
  BY <1>1, <1>4, <1>15, MoveFacts
<1>17. Progress(o)'
  BY <1>1, <1>2, <1>3, <1>7, <1>13, <1>14, <1>16 DEF Progress, Active, Route
<1>18. ASSUME NEW i \in 1..Len(r.peers)
       PROVE  r.peers[i] # r.node
  <2>1. r.peers = Tail(task[o].peers) /\ r.node = task[o].node
    BY <1>7
  <2>2. /\ i + 1 \in 1..Len(task[o].peers)
        /\ r.peers[i] = task[o].peers[i + 1]
    BY <1>6, <2>1
  <2>3. task[o].peers[i + 1] # task[o].node
    BY <1>1, <2>2 DEF WellPlaced
  <2>4. QED
    BY <2>1, <2>2, <2>3
<1>19. o \notin Call
  BY IdAssumption
<1>20. QED
  BY <1>1, <1>4, <1>15, <1>17, <1>18, <1>19, MovesOn

(* A remote that is given up, after a call or for want of an address.      *)
LEMMA GiveUpProgress ==
  ASSUME WriteProgress, TypeOK', NEW o \in Op,
         task[o].st \in {"remote", "await"}, task[o].peers # <<>>,
         Becomes(o, [task[o] EXCEPT !.st = "remote", !.peers = Tail(@)]),
         UNCHANGED <<remotes, log, flushed>>
  PROVE  WriteProgress'
<1> DEFINE r == [task[o] EXCEPT !.st = "remote", !.peers = Tail(@)]
<1>1. TypeOK /\ WellPlaced /\ Progress(o) /\ task[o] \in TaskRecord /\ o \in Task
  BY DEF WriteProgress, TypeOK, Task
<1>2. Becomes(o, r)
  OBVIOUS
<1>3. task[o].peers \in Seq(Node) /\ task[o].peers # <<>>
  BY <1>1 DEF TaskRecord
<1>4. \A i \in 1..Len(Tail(task[o].peers)) :
        /\ i + 1 \in 1..Len(task[o].peers)
        /\ Tail(task[o].peers)[i] = task[o].peers[i + 1]
  BY <1>3
<1>5. /\ r.st = "remote" /\ r.node = task[o].node /\ r.todo = task[o].todo
      /\ r.shard = task[o].shard /\ r.localOk = task[o].localOk
      /\ r.remoteOk = task[o].remoteOk /\ r.peers = Tail(task[o].peers)
      /\ r.need = task[o].need
  BY <1>1 DEF TaskRecord
<1>6. r \in TaskRecord
  BY <1>1, <1>2 DEF TypeOK, Becomes
<1> HIDE DEF r
<1>7. MovesTo(o, r)
  BY <1>2, <1>5, <1>6 DEF MovesTo, Active
<1>8. /\ task'[o] = r
      /\ Points(o)' = Points(o)
      /\ InShard(o)' = InShard(o)
      /\ \A q : Done(o, q) => Done(o, q)'
      /\ \A q : HoldsDurably(task[o].node, q) => HoldsDurably(task[o].node, q)'
      /\ \A q : HeldByOther(task[o].node, q) => HeldByOther(task[o].node, q)'
  BY <1>1, <1>7, MoveFacts
<1>9. Progress(o)'
  BY <1>1, <1>5, <1>8 DEF Progress, Active, Route
<1>10. \A i \in 1..Len(r.peers) : r.peers[i] # r.node
  BY <1>1, <1>4, <1>5 DEF WellPlaced
<1>11. o \notin Call
  BY IdAssumption
<1>12. QED
  BY <1>1, <1>7, <1>9, <1>10, <1>11, MovesOn

LEMMA CallFailsProgress ==
  ASSUME WriteProgress, NEW o \in Op, CallFails(o)
  PROVE  WriteProgress'
<1>1. task[o].st = "await" /\ task[o].peers # <<>> /\ task[o].shard \in Shard
  BY DEF CallFails, WriteProgress, WellPlaced, Progress, Task
<1>2. TypeOK'
  BY <1>1, RemoteStepType DEF RemoteStep, WriteProgress
<1>3. QED
  BY <1>1, <1>2, GiveUpProgress DEF CallFails

LEMMA CallRemoteProgress ==
  ASSUME WriteProgress, NEW o \in Op, CallRemote(o)
  PROVE  WriteProgress'
<1> DEFINE m == Head(task[o].peers)
<1>1. TypeOK /\ WellPlaced /\ Progress(o) /\ task[o] \in TaskRecord /\ o \in Task
  BY DEF WriteProgress, TypeOK, Task
<1>2. task[o].st = "remote" /\ task[o].peers # <<>> /\ task[o].shard \in Shard
  BY <1>1 DEF CallRemote, Progress
<1>3. TypeOK'
  BY <1>1, <1>2, RemoteStepType DEF RemoteStep
<1>4. CASE m \notin Addressable
  <2>1. Becomes(o, [task[o] EXCEPT !.peers = Tail(@)])
    BY <1>4 DEF CallRemote
  <2>2. [task[o] EXCEPT !.peers = Tail(@)]
          = [task[o] EXCEPT !.st = "remote", !.peers = Tail(@)]
    BY <1>1, <1>2 DEF TaskRecord
  <2>3. QED
    BY <1>2, <1>3, <2>1, <2>2, GiveUpProgress DEF CallRemote
<1>5. CASE m \in Addressable
  <2>1. task[o].peers \in Seq(Node)
    BY <1>1 DEF TaskRecord
  <2>2. m \in Node /\ m = task[o].peers[1] /\ 1 \in 1..Len(task[o].peers)
    BY <1>2, <2>1
  <2>3. m # task[o].node /\ task[o].node \in Node
    BY <1>1, <1>2, <2>2, HasNode DEF WellPlaced
  <2>4. PICK c \in Call : c = <<o, task[o].shard, m>>
    BY <1>2, <2>2 DEF Call
  <2>5. c \in Task /\ c # o /\ c[1] = o /\ c[3] = m
    BY <2>4, IdAssumption DEF Task
  <2>5a. task' = [task EXCEPT ![o].st = "await", ![c].st = "sent"]
    BY <1>5, <2>4 DEF CallRemote
  <2> HIDE DEF m
  <2>6. \A u \in Task : u \notin {o, c} => task'[u] = task[u]
    BY <1>1, <2>5, <2>5a DEF TypeOK
  <2>7. /\ task'[o] = [task[o] EXCEPT !.st = "await"]
        /\ task'[c] = [task[c] EXCEPT !.st = "sent"]
    BY <1>1, <2>5, <2>5a DEF TypeOK
  <2>8. /\ task'[o].st = "await" /\ task'[o].node = task[o].node
        /\ task'[o].todo = task[o].todo /\ task'[o].shard = task[o].shard
        /\ task'[o].localOk = task[o].localOk /\ task'[o].remoteOk = task[o].remoteOk
        /\ task'[o].peers = task[o].peers /\ task'[o].need = task[o].need
    BY <1>1, <2>7 DEF TaskRecord
  <2>9. /\ task'[c].st = "sent" /\ task'[c].peers = task[c].peers
        /\ task'[c].need = task[c].need
    <3>1. task[c] \in TaskRecord
      BY <1>1, <2>5 DEF TypeOK
    <3>2. QED
      BY <2>7, <3>1 DEF TaskRecord
  <2>10. \A d \in Call : d \in Task /\ d # o /\ d[1] \in Op /\ d[1] \in Task /\ d[1] # c
    BY <2>5, IdAssumption DEF Call, Task
  <2>11. \A q \in Op : q \in Task /\ q # c
    BY IdAssumption DEF Task
  <2>12. \A q \in Op : task'[q].node = task[q].node
    BY <2>6, <2>8, <2>11
  <2>13. WellPlaced'
    <3>1. \A n \in Node : \A i \in 1..Len(remotes'[n]) : remotes'[n][i] # n
      BY <1>1 DEF WellPlaced, CallRemote
    <3>2. ASSUME NEW q \in Op
          PROVE  /\ task'[q].st # "sent"
                 /\ task'[q].st = "idle" <=> task'[q].node = None
                 /\ task'[q].st = "idle" => task'[q].peers = <<>>
                 /\ task'[q].st = "await" => task'[q].peers # <<>>
                 /\ \A i \in 1..Len(task'[q].peers) : task'[q].peers[i] # task'[q].node
      <4>1. CASE q = o
        BY <1>1, <1>2, <2>3, <2>8, <4>1, IdAssumption DEF WellPlaced
      <4>2. CASE q # o
        BY <1>1, <2>6, <2>11, <4>2 DEF WellPlaced
      <4>3. QED
        BY <4>1, <4>2
    <3>3. ASSUME NEW d \in Call
          PROVE  /\ task'[d].st # "await"
                 /\ task'[d].peers = <<>>
                 /\ task'[d].need = 1
                 /\ task'[d].st # "idle" => task'[d[1]].node \in Node \ {d[3]}
                 /\ task'[d].st \notin {"idle", "sent"} => task'[d].node = d[3]
      <4>1. CASE d = c
        BY <1>1, <2>3, <2>5, <2>9, <2>12, <4>1 DEF WellPlaced
      <4>2. CASE d # c
        BY <1>1, <2>6, <2>10, <2>12, <4>2 DEF WellPlaced
      <4>3. QED
        BY <4>1, <4>2
    <3>4. QED
      BY <3>1, <3>2, <3>3 DEF WellPlaced
  <2>14. KeepsDisk /\ \A n \in Node : KeepsLog(n)
    BY <1>1, SameDisk DEF CallRemote
  <2>15. Progress(o)'
    <3>1. Points(o)' = Points(o)
      BY DEF Points
    <3>2. InShard(o)' = InShard(o)
      BY <2>8, <3>1 DEF InShard, Route
    <3>3. \A q : Done(o, q) => Done(o, q)'
      BY <1>1, <1>3, <2>3, <2>8, <2>14, DoneStays
    <3>4. log' = log /\ flushed' = flushed
      BY DEF CallRemote
    <3>5. /\ \A q : HoldsDurably(task[o].node, q) => HoldsDurably(task[o].node, q)'
          /\ \A q : HeldByOther(task[o].node, q) => HeldByOther(task[o].node, q)'
      BY <2>8, <3>4 DEF HoldsDurably, HeldByOther
    <3>6. QED
      BY <1>1, <1>2, <2>8, <3>1, <3>2, <3>3, <3>5 DEF Progress, Active, Route
  <2>16. Progress(c)'
    BY <2>9 DEF Progress, Active
  <2>17. ASSUME NEW u \in Task, u \notin {o, c}
         PROVE  Progress(u)'
    <3>1. task'[u] = task[u]
      BY <2>6, <2>17
    <3>2. task[u].st \notin {"idle", "sent"} => task[u].node \in Node
      BY HasNode
    <3>3. u \in Call => task'[u[1]].node = task[u[1]].node
      BY <2>10, <2>12
    <3>4. QED
      BY <1>1, <1>3, <2>14, <3>1, <3>2, <3>3, Frame DEF WriteProgress
  <2>18. QED
    BY <1>3, <2>13, <2>15, <2>16, <2>17 DEF WriteProgress
<1>6. QED
  BY <1>4, <1>5

-----------------------------------------------------------------------------

(* A crash: what is on disk stays there, what the other peers run is not   *)
(* touched, and what the peer ran is over.                                 *)
LEMMA CrashKeeps ==
  ASSUME TypeOK, NEW n \in Node, Crash(n)
  PROVE  KeepsDisk /\ \A m \in Node \ {n} : KeepsLog(m)
<1>1. PICK kept \in [Shard -> UNION {flushed[n][s]..Len(log[n][s]) : s \in Shard}] :
        /\ \A s \in Shard : kept[s] \in flushed[n][s]..Len(log[n][s])
        /\ log' = [log EXCEPT ![n] = [s \in Shard |-> SubSeq(log[n][s], 1, kept[s])]]
        /\ flushed' = [flushed EXCEPT ![n] = kept]
  BY DEF Crash
<1>2. \A m \in Node, s \in Shard :
        /\ log[m][s] \in Seq(Point) /\ Len(log[m][s]) \in Nat
        /\ flushed[m][s] \in Nat
  BY DEF TypeOK
<1>3. \A m \in Node \ {n} : log'[m] = log[m] /\ flushed'[m] = flushed[m]
  BY <1>1 DEF TypeOK
<1>4. \A m \in Node \ {n} : KeepsLog(m)
  BY <1>2, <1>3 DEF KeepsLog
<1>5. ASSUME NEW s \in Shard
      PROVE  /\ flushed[n][s] <= flushed'[n][s]
             /\ \A i \in 1..flushed[n][s] : log'[n][s][i] = log[n][s][i]
  <2>1. flushed'[n][s] = kept[s] /\ log'[n][s] = SubSeq(log[n][s], 1, kept[s])
    BY <1>1 DEF TypeOK
  <2>2. kept[s] \in Nat /\ flushed[n][s] <= kept[s] /\ kept[s] <= Len(log[n][s])
    BY <1>1, <1>2
  <2>3. QED
    BY <1>2, <2>1, <2>2
<1>6. ASSUME NEW m \in Node, NEW s \in Shard
      PROVE  /\ flushed[m][s] <= flushed'[m][s]
             /\ \A i \in 1..flushed[m][s] : log'[m][s][i] = log[m][s][i]
  <2>1. CASE m = n
    BY <1>5, <2>1
  <2>2. CASE m # n
    BY <1>2, <1>3, <2>2
  <2>3. QED
    BY <2>1, <2>2
<1>7. QED
  BY <1>4, <1>6 DEF KeepsDisk

LEMMA CrashProgress ==
  ASSUME WriteProgress, NEW n \in Node, Crash(n)
  PROVE  WriteProgress'
<1>1. TypeOK /\ WellPlaced /\ \A t \in Task : Progress(t)
  BY DEF WriteProgress
<1>2. TypeOK'
  BY <1>1, CrashType
<1>3. KeepsDisk /\ (\A m \in Node \ {n} : KeepsLog(m)) /\ remotes' = remotes
  BY <1>1, CrashKeeps DEF Crash
<1>4. ASSUME NEW t \in Task
      PROVE  /\ task'[t].node = task[t].node /\ task'[t].peers = task[t].peers
             /\ task'[t].need = task[t].need
             /\ \/ task'[t] = task[t] /\ (Active(t) => task[t].node # n)
                \/ task'[t].st = "gone" /\ Active(t)
  <2>1. task[t] \in TaskRecord
    BY <1>1 DEF TypeOK
  <2>2. task'[t] = IF Active(t) /\ task[t].node = n
                   THEN [task[t] EXCEPT !.st = "gone"] ELSE task[t]
    BY DEF Crash
  <2>3. QED
    BY <2>1, <2>2 DEF TaskRecord
<1>5. WellPlaced'
  <2>1. \A c \in Call : c \in Task /\ c[1] \in Task
    BY DEF Call, Task
  <2>2. ASSUME NEW o \in Op
        PROVE  /\ task'[o].st # "sent"
               /\ task'[o].st = "idle" <=> task'[o].node = None
               /\ task'[o].st = "idle" => task'[o].peers = <<>>
               /\ task'[o].st = "await" => task'[o].peers # <<>>
               /\ \A i \in 1..Len(task'[o].peers) : task'[o].peers[i] # task'[o].node
    BY <1>1, <1>4 DEF WellPlaced, Task, Active
  <2>3. ASSUME NEW c \in Call
        PROVE  /\ task'[c].st # "await"
               /\ task'[c].peers = <<>>
               /\ task'[c].need = 1
               /\ task'[c].st # "idle" => task'[c[1]].node \in Node \ {c[3]}
               /\ task'[c].st \notin {"idle", "sent"} => task'[c].node = c[3]
    BY <1>1, <1>4, <2>1 DEF WellPlaced, Active
  <2>4. QED
    BY <1>1, <1>3, <2>2, <2>3 DEF WellPlaced
<1>6. ASSUME NEW t \in Task
      PROVE  Progress(t)'
  <2>1. CASE task'[t] = task[t] /\ (Active(t) => task[t].node # n)
    <3>1. task[t].st \notin {"idle", "sent"} => task[t].node \in Node
      BY HasNode
    <3>2. task[t].st = "local" => KeepsLog(task[t].node)
      BY <1>3, <2>1, <3>1 DEF Active
    <3>3. t \in Call => task'[t[1]].node = task[t[1]].node
      BY <1>4 DEF Call, Task
    <3>4. QED
      BY <1>1, <1>2, <1>3, <2>1, <3>1, <3>2, <3>3, Frame
  <2>2. CASE task'[t].st = "gone"
    BY <2>2 DEF Progress, Active
  <2>3. QED
    BY <1>4, <2>1, <2>2
<1>7. QED
  BY <1>2, <1>5, <1>6 DEF WriteProgress

(* Restarts and joins only write the replica sets.                         *)
LEMMA MembershipProgress ==
  ASSUME WriteProgress, NEW n \in Node, NEW m \in Node,
         Restart(n) \/ AddRemoteShards(n, m)
  PROVE  WriteProgress'
<1>1. TypeOK /\ WellPlaced /\ \A t \in Task : Progress(t)
  BY DEF WriteProgress
<1>2. TypeOK'
  BY <1>1, MembershipType
<1>3. task' = task /\ log' = log /\ flushed' = flushed
  BY DEF Restart, AddRemoteShards
<1>4. ASSUME NEW k \in Node, NEW i \in 1..Len(remotes'[k])
      PROVE  remotes'[k][i] # k
  <2>1. remotes[k] \in Seq(Node) /\ remotes \in [Node -> Seq(Node)]
    BY <1>1 DEF TypeOK
  <2>2. CASE k # n
    BY <1>1, <2>1, <2>2 DEF WellPlaced, Restart, AddRemoteShards
  <2>3. CASE k = n /\ Restart(n)
    BY <2>1, <2>3 DEF Restart
  <2>4. CASE k = n /\ AddRemoteShards(n, m)
    <3>1. remotes'[n] = Append(remotes[n], m) /\ m # n
      BY <2>1, <2>4 DEF AddRemoteShards
    <3>2. \A j \in 1..Len(remotes[n]) : remotes[n][j] # n
      BY <1>1 DEF WellPlaced
    <3>3. QED
      BY <2>1, <2>4, <3>1, <3>2
  <2>5. QED
    BY <2>2, <2>3, <2>4
<1>5. WellPlaced'
  BY <1>1, <1>3, <1>4 DEF WellPlaced
<1>6. KeepsDisk /\ \A k \in Node : KeepsLog(k)
  BY <1>1, <1>3, SameDisk
<1>7. ASSUME NEW t \in Task
      PROVE  Progress(t)'
  BY <1>1, <1>2, <1>3, <1>6, HasNode, Frame
<1>8. QED
  BY <1>2, <1>5, <1>7 DEF WriteProgress

(* Every step of the write path keeps the invariant, action by action.     *)
LEMMA NextProgress == WriteProgress /\ [Next]_vars => WriteProgress'
<1> SUFFICES ASSUME WriteProgress, [Next]_vars
             PROVE  WriteProgress'
  OBVIOUS
<1>1. ASSUME NEW o \in Op, NEW n \in Node, Put(o, n)
      PROVE  WriteProgress'
  <2>1. o \in Task /\ o \notin Call
    BY IdAssumption DEF Task
  <2>2. Begin(o, n) /\ task[o].st = "idle"
    BY <1>1 DEF Put
  <2>3. QED
    BY <2>1, <2>2, BeginProgress
<1>2. ASSUME NEW c \in Call, Serve(c)
      PROVE  WriteProgress'
  <2>1. c \in Task /\ c \notin Op /\ c[3] \in Node
    BY IdAssumption DEF Task, Call
  <2>2. Begin(c, c[3]) /\ task[c].st = "sent"
    BY <1>2 DEF Serve
  <2>3. QED
    BY <2>1, <2>2, BeginProgress
<1>3. ASSUME NEW t \in Task, LocalStep(t)
      PROVE  WriteProgress'
  BY <1>3, PickShardProgress, InsertPointProgress, FlushProgress,
     LocalFailsProgress, JudgeProgress, FinishProgress DEF LocalStep
<1>4. ASSUME NEW o \in Op, RemoteStep(o)
      PROVE  WriteProgress'
  BY <1>4, CallRemoteProgress, AnsweredProgress, CallFailsProgress DEF RemoteStep
<1>5. ASSUME NEW o \in Op, ClientGone(o)
      PROVE  WriteProgress'
  BY <1>5, ClientGoneProgress
<1>6. ASSUME NEW n \in Node, Crash(n)
      PROVE  WriteProgress'
  BY <1>6, CrashProgress
<1>7. ASSUME NEW n \in Node, NEW m \in Node, Restart(n) \/ AddRemoteShards(n, m)
      PROVE  WriteProgress'
  BY <1>7, MembershipProgress
<1>8. CASE UNCHANGED vars
  <2>1. ASSUME NEW t \in Task
        PROVE  Progress(t)'
    <3>1. TypeOK /\ TypeOK' /\ Progress(t)
      BY <1>8 DEF WriteProgress, TypeOK, vars
    <3>2. KeepsDisk /\ \A n \in Node : KeepsLog(n)
      BY <1>8, <3>1, SameDisk DEF vars
    <3>3. QED
      BY <1>8, <3>1, <3>2, HasNode, Frame DEF vars
  <2>2. TypeOK' /\ WellPlaced'
    BY <1>8 DEF WriteProgress, TypeOK, WellPlaced, vars
  <2>3. QED
    BY <2>1, <2>2 DEF WriteProgress
<1>9. QED
  BY <1>1, <1>2, <1>3, <1>4, <1>5, <1>6, <1>7, <1>8 DEF Next

(* At every moment each point of a running request is done, waits for its  *)
(* shard's turn or is in the shard being written, where it is in the log   *)
(* or on disk as the loop of upsert_points has come: for any number of     *)
(* peers, shards, requests and crashes, and any hash rings.                *)
THEOREM WriteProgressHolds == Spec => []WriteProgress
BY InitProgress, NextProgress, PTL DEF Spec

(* The variables keep their types, and what is on disk stays a prefix of   *)
(* what was inserted, through every crash and restart.                     *)
THEOREM TypeOKHolds == Spec => []TypeOK
<1>1. WriteProgress => TypeOK
  BY DEF WriteProgress
<1>2. QED
  BY <1>1, WriteProgressHolds, PTL

(* A 200 is only sent for points that are on the answering peer's disk     *)
(* and, when that peer knew of replicas, with a numeric id on another's    *)
(* as well, and no later failure takes that back.                          *)
THEOREM AckedIsReplicatedHolds == Spec => []AckedIsReplicated
<1>1. WriteProgress => AckedIsReplicated
  <2> SUFFICES ASSUME WriteProgress, NEW o \in Op, task[o].st = "ok",
                      NEW p \in Batch[o]
               PROVE  Done(o, p)
    BY DEF AckedIsReplicated, Done, HeldByOther
  <2>1. Progress(o) /\ p \in Points(o) /\ ~Active(o)
    BY DEF WriteProgress, Task, Points, Active
  <2>2. QED
    BY <2>1 DEF Progress
<1>2. QED
  BY <1>1, WriteProgressHolds, PTL
=============================================================================
