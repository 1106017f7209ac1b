----------------------- MODULE UpsertRefinementProofs -----------------------
(* Upsert implements AckedWrites, for every value of the constants.        *)
EXTENDS UpsertRefinement, UpsertReadProofs

(* p was sent to n: by the client of a request, or by a call.              *)
SentTo(n, p) ==
  \E o \in Op : /\ task[o].st # "idle"
                /\ p \in Batch[o]
                /\ task[o].node = n \/ p.id \in NumericId

LogWasSent ==
  \A n \in Node, s \in Shard : \A i \in 1..Len(log[n][s]) : SentTo(n, log[n][s][i])

RunsWhereUp == \A t \in Task : Active(t) => up[task[t].node]

(* The replicas that a peer knows while it runs a request are those that   *)
(* it knew when it began it.                                               *)
LinkedAsks ==
  \A o \in Op : Active(o) /\ remotes[task[o].node] # <<>> => task[o].need = 2

MapInv == LogWasSent /\ RunsWhereUp /\ LinkedAsks

LEMMA MapInvInit == Init => MapInv
<1> SUFFICES ASSUME Init
             PROVE  MapInv
  OBVIOUS
<1>1. LogWasSent
  BY DEF Init, LogWasSent
<1>2. \A t \in Task : ~Active(t)
  BY DEF Init, NotBegun, Active
<1>3. QED
  BY <1>1, <1>2 DEF MapInv, RunsWhereUp, LinkedAsks, Task

LEMMA SentStays ==
  ASSUME WriteProgress, [Next]_vars, NEW n, NEW p, SentTo(n, p)
  PROVE  SentTo(n, p)'
BY OpStays DEF SentTo

LEMMA LogSentStays ==
  ASSUME WriteProgress, ReadInv, LogWasSent, [Next]_vars
  PROVE  LogWasSent'
<1>0. SUFFICES ASSUME NEW n \in Node, NEW s \in Shard, NEW i \in 1..Len(log'[n][s])
               PROVE  SentTo(n, log'[n][s][i])
  <2>1. ASSUME NEW n, NEW p, SentTo(n, p)
        PROVE  SentTo(n, p)'
    BY <2>1, SentStays
  <2>2. \A n \in Node, s \in Shard : \A i \in 1..Len(log'[n][s]) :
          SentTo(n, log'[n][s][i])
    BY <1>0
  <2>3. QED
    BY <2>1, <2>2 DEF LogWasSent, SentTo
<1>1. TypeOK /\ LogMove(n, s)
  BY LogMoves DEF WriteProgress
<1> DEFINE l == log[n][s]
<1>2. l \in Seq(Point) /\ \A j \in 1..Len(l) : SentTo(n, l[j])
  BY <1>1 DEF TypeOK, LogWasSent
<1>3. CASE log'[n][s] = l
  BY <1>2, <1>3
<1>4. CASE IsTruncated(n, s)
  <2>1. PICK k \in flushed[n][s]..Len(l) : log'[n][s] = SubSeq(l, 1, k)
    BY <1>4 DEF IsTruncated
  <2>2. k \in 0..Len(l)
    BY <1>1, <1>2 DEF TypeOK
  <2> HIDE DEF l
  <2>3. QED
    BY <1>2, <2>1, <2>2
<1>5. ASSUME NEW t \in Task, NEW p \in Point,
             Inserts(t, p), task[t].node = n, task[t].shard = s
      PROVE  SentTo(n, log'[n][s][i])
  <2>1. log'[n][s] = Append(l, p) /\ p \in Points(t) /\ task[t].st = "local"
    BY <1>5 DEF Inserts, ReadInv, LeftInShard, InShard
  <2>2. SentTo(n, p)
    <3>1. CASE t \in Op
      BY <1>5, <2>1, <3>1 DEF Points, SentTo
    <3>2. CASE t \in Call
      <4>1. t \notin Op /\ t[1] \in Op /\ task[t[1]].st # "idle"
        BY <2>1, <3>2, CallHome, IdAssumption
      <4>2. QED
        BY <2>1, <4>1 DEF Points, Group, SentTo
    <3>3. QED
      BY <3>1, <3>2 DEF Task
  <2> HIDE DEF l
  <2>3. (i \in 1..Len(l) /\ log'[n][s][i] = l[i]) \/ log'[n][s][i] = p
    BY <1>2, <2>1
  <2>4. QED
    BY <1>2, <2>2, <2>3
<1>6. QED
  BY <1>1, <1>3, <1>4, <1>5 DEF LogMove

(* Who dies or learns of a replica runs nothing afterwards.                *)
LEMMA PeerMoves ==
  ASSUME WriteProgress, [Next]_vars, NEW n \in Node
  PROVE  \/ up'[n] \in {up[n], TRUE} /\ remotes'[n] \in {remotes[n], <<>>}
         \/ \A t \in Task : task'[t].node = n => ~Active(t)'
<1>1. TypeOK
  BY DEF WriteProgress
<1>2. CASE UNCHANGED <<up, remotes>>
  BY <1>2
<1>3. ASSUME NEW k \in Node, Restart(k)
      PROVE  up'[n] \in {up[n], TRUE} /\ remotes'[n] \in {remotes[n], <<>>}
  BY <1>1, <1>3 DEF Restart, TypeOK
<1>4. ASSUME NEW k \in Node, Crash(k)
      PROVE  \/ up'[n] = up[n] /\ remotes'[n] = remotes[n]
             \/ \A t \in Task : task'[t].node = n => ~Active(t)'
  <2>1. CASE n = k
    <3> SUFFICES ASSUME NEW t \in Task, task'[t].node = n
                 PROVE  ~Active(t)'
      OBVIOUS
    <3>1. task[t] \in TaskRecord
      BY <1>1 DEF TypeOK
    <3>2. task'[t] = IF Active(t) /\ task[t].node = k
                     THEN [task[t] EXCEPT !.st = "gone"] ELSE task[t]
      BY <1>4 DEF Crash
    <3>3. QED
      BY <2>1, <3>1, <3>2 DEF Active, TaskRecord
  <2>2. CASE n # k
    BY <1>1, <1>4, <2>2 DEF Crash, TypeOK
  <2>3. QED
    BY <2>1, <2>2
<1>5. ASSUME NEW k \in Node, NEW m \in Node, AddRemoteShards(k, m)
      PROVE  \/ up'[n] = up[n] /\ remotes'[n] = remotes[n]
             \/ \A t \in Task : task'[t].node = n => ~Active(t)'
  BY <1>1, <1>5 DEF AddRemoteShards, TypeOK, Active
<1>6. QED
  BY <1>2, <1>3, <1>4, <1>5 DEF Next, LocalStep, RemoteStep, PickShard, InsertPoint,
     Flush, LocalFails, Judge, Finish, CallRemote, Answered, CallFails, ClientGone, Put,
     Serve, Begin, vars

(* An execution that runs has run before, or it just begins.               *)
LEMMA RunningMoves ==
  ASSUME WriteProgress, [Next]_vars, NEW t \in Task, Active(t)'
  PROVE  Starts(t) \/ (Active(t) /\ task'[t].node = task[t].node)
<1>1. TaskMove(t) /\ task[t] \in TaskRecord
  BY TaskMoves DEF WriteProgress, TypeOK
<1>2. Starts(t) \/ Active(t)
  <2>1. CASE task'[t] = task[t]
    BY <2>1 DEF Active
  <2>2. CASE IsSent(t) \/ IsFinished(t) \/ IsGone(t)
    BY <1>1, <2>2 DEF IsSent, IsFinished, IsGone, Active, TaskRecord
  <2>3. QED
    BY <1>1, <2>1, <2>2 DEF TaskMove, TakesShard, Inserts, LeavesLocal, Calls, IsAnswered,
       IsJudged, Active
<1>3. Active(t) => task'[t].node = task[t].node
  BY RunStays DEF Active
<1>4. QED
  BY <1>2, <1>3

LEMMA UpStays ==
  ASSUME WriteProgress, RunsWhereUp, [Next]_vars
  PROVE  RunsWhereUp'
<1> SUFFICES ASSUME NEW t \in Task, Active(t)'
             PROVE  up'[task'[t].node]
  BY DEF RunsWhereUp
<1>1. Starts(t) \/ (Active(t) /\ task'[t].node = task[t].node)
  BY RunningMoves
<1>2. CASE Starts(t)
  BY <1>2, PeerMoves DEF Starts
<1>3. CASE Active(t) /\ task'[t].node = task[t].node
  <2>1. up[task[t].node] /\ task[t].node \in Node
    BY <1>3, HasNode DEF RunsWhereUp, Active
  <2>2. QED
    BY <1>3, <2>1, PeerMoves
<1>4. QED
  BY <1>1, <1>2, <1>3

LEMMA LinkedStays ==
  ASSUME WriteProgress, LinkedAsks, [Next]_vars
  PROVE  LinkedAsks'
<1> SUFFICES ASSUME NEW o \in Op, Active(o)', remotes'[task'[o].node] # <<>>
             PROVE  task'[o].need = 2
  BY DEF LinkedAsks
<1>1. o \in Task /\ TypeOK
  BY DEF Task, WriteProgress
<1>2. Starts(o) \/ (Active(o) /\ task'[o].node = task[o].node)
  BY <1>1, RunningMoves
<1>3. task'[o].node \in Node
  BY <1>1, <1>2, HasNode DEF Starts, Active
<1>4. remotes[task'[o].node] # <<>>
  BY <1>1, <1>3, PeerMoves
<1>5. CASE Starts(o)
  <2>1. Len(remotes[task'[o].node]) \in Nat \ {0}
    BY <1>1, <1>3, <1>4 DEF TypeOK
  <2>2. QED
    BY <1>5, <2>1 DEF Starts, MinDesiredSuccess, MinOf, NumReplicas, ConsistencyFactor
<1>6. CASE Active(o) /\ task'[o].node = task[o].node
  BY <1>1, <1>4, <1>6, OpStays DEF LinkedAsks, Active
<1>7. QED
  BY <1>2, <1>5, <1>6

LEMMA MapInvNext == WriteProgress /\ ReadInv /\ MapInv /\ [Next]_vars => MapInv'
BY LogSentStays, UpStays, LinkedStays DEF MapInv

LEMMA MapInvHolds == Spec => []MapInv
<1>1. Init => MapInv
  BY MapInvInit
<1>2. WriteProgress /\ ReadInv /\ MapInv /\ [Next]_vars => MapInv'
  BY MapInvNext
<1>3. QED
  BY <1>1, <1>2, WriteProgressHolds, ReadInvHolds, PTL DEF Spec

-----------------------------------------------------------------------------

(* The state of AckedWrites, and how the steps of the write path move it.  *)
DurableOf == [n \in Node |-> {p \in Point : HoldsDurably(n, p)}]
LinkedOf == [n \in Node |-> remotes[n] # <<>>]
StatusOf == [o \in Op |-> Outcome(o)]
HomeOf == [o \in Op |-> task[o].node]

Shared == [id : NumericId, payload : Payload]

LEMMA OutcomeOf ==
  ASSUME NEW o \in Op
  PROVE  /\ TypeOK /\ WellPlaced =>
              /\ Outcome(o) = "new" <=> task[o].st = "idle"
              /\ Outcome(o) = "running" <=> Active(o)
              /\ Outcome(o) = "acked" <=> task[o].st = "ok"
              /\ Outcome(o) = "failed" <=> task[o].st \in {"err", "gone"}
              /\ Outcome(o) \in {"new", "running", "acked", "failed"}
         /\ (TypeOK /\ WellPlaced)' =>
              /\ Outcome(o)' = "new" <=> task'[o].st = "idle"
              /\ Outcome(o)' = "running" <=> Active(o)'
              /\ Outcome(o)' = "acked" <=> task'[o].st = "ok"
              /\ Outcome(o)' = "failed" <=> task'[o].st \in {"err", "gone"}
              /\ Outcome(o)' \in {"new", "running", "acked", "failed"}
<1>1. ASSUME TypeOK, WellPlaced
      PROVE  task[o].st \in {"idle", "pick", "local", "remote", "await", "ok", "err", "gone"}
  BY <1>1 DEF TypeOK, WellPlaced, Task, TaskRecord
<1>2. ASSUME TypeOK', WellPlaced'
      PROVE  task'[o].st \in {"idle", "pick", "local", "remote", "await", "ok", "err", "gone"}
  BY <1>2 DEF TypeOK, WellPlaced, Task, TaskRecord
<1>3. ASSUME TypeOK, WellPlaced
      PROVE  /\ Outcome(o) = "new" <=> task[o].st = "idle"
             /\ Outcome(o) = "running" <=> Active(o)
             /\ Outcome(o) = "acked" <=> task[o].st = "ok"
             /\ Outcome(o) = "failed" <=> task[o].st \in {"err", "gone"}
             /\ Outcome(o) \in {"new", "running", "acked", "failed"}
  BY <1>1, <1>3 DEF Outcome, Active
<1>4. ASSUME TypeOK', WellPlaced'
      PROVE  /\ Outcome(o)' = "new" <=> task'[o].st = "idle"
             /\ Outcome(o)' = "running" <=> Active(o)'
             /\ Outcome(o)' = "acked" <=> task'[o].st = "ok"
             /\ Outcome(o)' = "failed" <=> task'[o].st \in {"err", "gone"}
             /\ Outcome(o)' \in {"new", "running", "acked", "failed"}
  BY <1>2, <1>4 DEF Outcome, Active
<1>5. QED
  BY <1>3, <1>4

(* A disk gains only what its peer's logs held, and loses nothing.         *)
LEMMA DiskMoves ==
  ASSUME WriteProgress, [Next]_vars, NEW n \in Node, NEW p \in Point
  PROVE  /\ HoldsDurably(n, p) => HoldsDurably(n, p)'
         /\ HoldsDurably(n, p)' =>
              \E s \in Shard : \E i \in 1..Len(log[n][s]) : log[n][s][i] = p
<1>1. ASSUME NEW s \in Shard
      PROVE  LET l == log[n][s]
                 k == log'[n][s]
                 f == flushed[n][s]
                 g == flushed'[n][s]
             IN  /\ f \in Nat /\ g \in Nat /\ f <= g /\ f <= Len(l) /\ g <= Len(k)
                 /\ \A i \in 1..f : k[i] = l[i]
                 /\ \A i \in 1..g : i \in 1..Len(l) /\ k[i] = l[i]
  <2>1. TypeOK /\ TypeOK' /\ LogMove(n, s)
    BY LogMoves, NextProgress DEF WriteProgress
  <2> DEFINE l == log[n][s]
             k == log'[n][s]
             f == flushed[n][s]
             g == flushed'[n][s]
  <2>2. l \in Seq(Point) /\ k \in Seq(Point) /\ f \in Nat /\ g \in Nat
        /\ f <= Len(l) /\ g <= Len(k)
    BY <2>1 DEF TypeOK
  <2>3. \/ k = l /\ g \in {f, Len(l)}
        \/ g = f /\ \E q \in Point : k = Append(l, q)
        \/ \E j \in f..Len(l) : k = SubSeq(l, 1, j) /\ g = j
    BY <2>1 DEF LogMove, Inserts, IsTruncated
  <2> HIDE DEF l, k, f, g
  <2>4. /\ f <= g
        /\ \A i \in 1..f : k[i] = l[i]
        /\ \A i \in 1..g : i \in 1..Len(l) /\ k[i] = l[i]
    <3>1. CASE k = l /\ g \in {f, Len(l)}
      BY <2>2, <3>1
    <3>2. CASE g = f /\ \E q \in Point : k = Append(l, q)
      BY <2>2, <3>2
    <3>3. CASE \E j \in f..Len(l) : k = SubSeq(l, 1, j) /\ g = j
      BY <2>2, <3>3
    <3>4. QED
      BY <2>3, <3>1, <3>2, <3>3
  <2>5. QED
    BY <2>2, <2>4 DEF l, k, f, g
<1>2. ASSUME HoldsDurably(n, p)
      PROVE  HoldsDurably(n, p)'
  <2>1. PICK s \in Shard : \E i \in 1..flushed[n][s] : log[n][s][i] = p
    BY <1>2 DEF HoldsDurably
  <2>2. PICK i \in 1..flushed[n][s] : log[n][s][i] = p
    BY <2>1
  <2>3. /\ flushed[n][s] \in Nat /\ flushed'[n][s] \in Nat
        /\ flushed[n][s] <= flushed'[n][s]
        /\ \A j \in 1..flushed[n][s] : log'[n][s][j] = log[n][s][j]
    BY <1>1
  <2>4. i \in 1..flushed'[n][s] /\ log'[n][s][i] = p
    BY <2>2, <2>3
  <2>5. QED
    BY <2>4 DEF HoldsDurably
<1>3. ASSUME HoldsDurably(n, p)'
      PROVE  \E s \in Shard : \E i \in 1..Len(log[n][s]) : log[n][s][i] = p
  <2>1. PICK s \in Shard : \E i \in 1..flushed'[n][s] : log'[n][s][i] = p
    BY <1>3 DEF HoldsDurably
  <2>2. QED
    BY <1>1, <2>1
<1>4. QED
  BY <1>2, <1>3

LEMMA SentArrives ==
  ASSUME TypeOK, WellPlaced, NEW n \in Node, NEW p \in Point, SentTo(n, p)
  PROVE  p \in Acked!Arrived(n)
<1>1. PICK o \in Op : /\ task[o].st # "idle" /\ p \in Batch[o]
                      /\ task[o].node = n \/ p.id \in NumericId
  BY DEF SentTo
<1>2. Outcome(o) # "new"
  BY <1>1, OutcomeOf
<1>3. p.id \in NumericId => p \in [id : NumericId, payload : Payload]
  BY DEF Point
<1>4. QED
  BY <1>1, <1>2, <1>3 DEF Acked!Arrived

(* A step that moves the disk of one peer at most writes what arrived.     *)
LEMMA DiskPersists ==
  ASSUME WriteProgress, MapInv, [Next]_vars, NEW n \in Node,
         \A k \in Node \ {n} : log'[k] = log[k] /\ flushed'[k] = flushed[k]
  PROVE  \E P \in SUBSET Acked!Arrived(n) :
           DurableOf' = [DurableOf EXCEPT ![n] = @ \cup P]
<1> DEFINE P == {p \in Point : HoldsDurably(n, p)'}
<1>1. P \subseteq Acked!Arrived(n)
  <2> SUFFICES ASSUME NEW p \in Point, HoldsDurably(n, p)'
               PROVE  p \in Acked!Arrived(n)
    OBVIOUS
  <2>1. SentTo(n, p)
    BY DiskMoves DEF MapInv, LogWasSent
  <2>2. QED
    BY <2>1, SentArrives DEF WriteProgress
<1>2. \A p \in Point : HoldsDurably(n, p) => HoldsDurably(n, p)'
  BY DiskMoves
<1>3. \A k \in Node \ {n} : \A p \in Point : HoldsDurably(k, p)' <=> HoldsDurably(k, p)
  BY DEF HoldsDurably
<1>4. DurableOf' = [DurableOf EXCEPT ![n] = @ \cup P]
  <2>1. DurableOf'[n] = DurableOf[n] \cup P
    BY <1>2 DEF DurableOf
  <2>2. \A k \in Node \ {n} : DurableOf'[k] = DurableOf[k]
    BY <1>3 DEF DurableOf
  <2>3. QED
    BY <2>1, <2>2 DEF DurableOf
<1>5. QED
  BY <1>1, <1>4

LEMMA DiskRests ==
  ASSUME WriteProgress, [Next]_vars,
         UNCHANGED <<log, flushed>> \/ \E t \in Task : InsertPoint(t)
  PROVE  DurableOf' = DurableOf
<1>1. CASE UNCHANGED <<log, flushed>>
  BY <1>1 DEF DurableOf, HoldsDurably
<1>2. ASSUME NEW t \in Task, InsertPoint(t)
      PROVE  DurableOf' = DurableOf
  <2> SUFFICES ASSUME NEW n \in Node, NEW s \in Shard
               PROVE  /\ flushed'[n][s] = flushed[n][s]
                      /\ \A i \in 1..flushed[n][s] : log'[n][s][i] = log[n][s][i]
    BY DEF DurableOf, HoldsDurably
  <2>1. TypeOK /\ flushed' = flushed
    BY <1>2 DEF WriteProgress, InsertPoint
  <2> DEFINE l == log[n][s]
             k == log'[n][s]
             f == flushed[n][s]
  <2>2. l \in Seq(Point) /\ f \in Nat /\ f <= Len(l)
    BY <2>1 DEF TypeOK
  <2>3. k = l \/ \E p \in Point : k = Append(l, p)
    <3>1. PICK p \in task[t].left :
            log' = [log EXCEPT ![task[t].node][task[t].shard] = Append(@, p)]
      BY <1>2 DEF InsertPoint
    <3>2. p \in Point
      BY <2>1 DEF TypeOK, TaskRecord
    <3>3. QED
      BY <2>1, <3>1, <3>2 DEF TypeOK
  <2> HIDE DEF l, k, f
  <2>4. \A i \in 1..f : k[i] = l[i]
    BY <2>2, <2>3
  <2>5. QED
    BY <2>1, <2>4 DEF l, k, f
<1>3. QED
  BY <1>1, <1>2

(* A request whose outcome a step leaves as it is.                         *)
OutcomeStays(o) ==
  /\ task'[o].node = task[o].node
  /\ task'[o].st = task[o].st \/ (Active(o) /\ Active(o)')

LEMMA StatusRests ==
  ASSUME WriteProgress, [Next]_vars, \A o \in Op : OutcomeStays(o)
  PROVE  StatusOf' = StatusOf /\ HomeOf' = HomeOf
<1>1. TypeOK /\ WellPlaced /\ TypeOK' /\ WellPlaced'
  BY NextProgress DEF WriteProgress
<1>2. \A o \in Op : Outcome(o)' = Outcome(o)
  BY <1>1, OutcomeOf DEF OutcomeStays, Outcome, Active
<1>3. QED
  BY <1>2 DEF StatusOf, HomeOf, OutcomeStays

LEMMA StatusMoves ==
  ASSUME WriteProgress, [Next]_vars, NEW o \in Op,
         \A q \in Op \ {o} : OutcomeStays(q)
  PROVE  /\ StatusOf' = [StatusOf EXCEPT ![o] = Outcome(o)']
         /\ HomeOf' = [HomeOf EXCEPT ![o] = task'[o].node]
<1>1. TypeOK /\ WellPlaced /\ TypeOK' /\ WellPlaced'
  BY NextProgress DEF WriteProgress
<1>2. \A q \in Op \ {o} : Outcome(q)' = Outcome(q)
  BY <1>1, OutcomeOf DEF OutcomeStays, Outcome, Active
<1>3. QED
  BY <1>2 DEF StatusOf, HomeOf, OutcomeStays

(* A step of one execution leaves the outcomes of the others.              *)
LEMMA OthersStay ==
  ASSUME WriteProgress, NEW t \in Task, NEW r, Becomes(t, r), NEW o \in Op, o # t
  PROVE  OutcomeStays(o)
<1>1. task'[o] = task[o]
  BY BecomesOne DEF WriteProgress, Task
<1>2. QED
  BY <1>1 DEF OutcomeStays

LEMMA PutStarts ==
  ASSUME WriteProgress, [Next]_vars, NEW o \in Op, NEW n \in Node, Put(o, n)
  PROVE  Acked!Start(o, n)
<1>1. o \in Task /\ o \notin Call /\ TypeOK /\ WellPlaced /\ TypeOK' /\ WellPlaced'
  BY NextProgress, IdAssumption DEF Task, WriteProgress
<1>2. \E r : Becomes(o, r)
  BY DEF Put, Begin
<1>3. \A q \in Op \ {o} : OutcomeStays(q)
  BY <1>1, <1>2, OthersStay
<1>4. /\ StatusOf' = [StatusOf EXCEPT ![o] = Outcome(o)']
      /\ HomeOf' = [HomeOf EXCEPT ![o] = task'[o].node]
  BY <1>3, StatusMoves
<1>5. task'[o].node = n /\ task'[o].st \in {"pick", "err"}
  BY <1>1 DEF Put, Begin, Becomes, TypeOK, TaskRecord
<1>6. Outcome(o)' \in {"running", "failed"}
  BY <1>1, <1>5, OutcomeOf DEF Active
<1>7. Outcome(o) = "new"
  BY <1>1, OutcomeOf DEF Put
<1>8. DurableOf' = DurableOf /\ LinkedOf' = LinkedOf
  BY DiskRests DEF Put, Begin, LinkedOf
<1>9. QED
  BY <1>4, <1>5, <1>6, <1>7, <1>8
     DEF Acked!Start, StatusOf, HomeOf, DurableOf, LinkedOf

LEMMA EndFails ==
  ASSUME WriteProgress, [Next]_vars, NEW o \in Op, NEW r, Becomes(o, r), Active(o),
         task'[o].st \in {"err", "gone"}, UNCHANGED <<remotes, log, flushed>>
  PROVE  Acked!Fail(o)
<1>1. o \in Task /\ TypeOK /\ WellPlaced /\ TypeOK' /\ WellPlaced'
  BY NextProgress DEF Task, WriteProgress
<1>2. \A q \in Op \ {o} : OutcomeStays(q)
  BY <1>1, OthersStay
<1>3. task'[o].node = task[o].node
  BY <1>1, RunStays DEF Active
<1>4. /\ StatusOf' = [StatusOf EXCEPT ![o] = "failed"]
      /\ HomeOf' = HomeOf
  BY <1>1, <1>2, <1>3, StatusMoves, OutcomeOf DEF HomeOf
<1>5. Outcome(o) = "running"
  BY <1>1, OutcomeOf
<1>6. DurableOf' = DurableOf /\ LinkedOf' = LinkedOf
  BY DiskRests DEF LinkedOf
<1>7. QED
  BY <1>4, <1>5, <1>6 DEF Acked!Fail, StatusOf, HomeOf, DurableOf, LinkedOf

(* A request that finishes has each point where the 200 says it is.        *)
LEMMA FinishAcks ==
  ASSUME WriteProgress, MapInv, [Next]_vars, NEW o \in Op, Finish(o)
  PROVE  Acked!Ack(o)
<1>1. o \in Task /\ TypeOK /\ WellPlaced /\ TypeOK' /\ WellPlaced' /\ Progress(o)
  BY NextProgress DEF Task, WriteProgress
<1>2. Active(o) /\ task[o].todo = {} /\ task[o].st = "pick"
  BY DEF Finish, Active
<1>3. /\ task'[o].st = "ok" /\ task'[o].node = task[o].node /\ task[o].node \in Node
      /\ UNCHANGED <<remotes, log, flushed>> /\ \E r : Becomes(o, r)
  BY <1>1, HasNode DEF Finish, Becomes, TypeOK, TaskRecord
<1>4. /\ StatusOf' = [StatusOf EXCEPT ![o] = "acked"]
      /\ HomeOf' = HomeOf
  <2>1. \A q \in Op \ {o} : OutcomeStays(q)
    BY <1>1, <1>3, OthersStay
  <2>2. QED
    BY <1>1, <1>3, <2>1, StatusMoves, OutcomeOf DEF HomeOf
<1>5. Outcome(o) = "running"
  BY <1>1, <1>2, OutcomeOf
<1>6. DurableOf' = DurableOf /\ LinkedOf' = LinkedOf
  BY <1>3, DiskRests DEF LinkedOf
<1>7. \A p \in Batch[o] : p \in Point /\ Done(o, p)
  BY <1>1, <1>2, RequestAssumption DEF Progress, Points
<1>8. remotes[task[o].node] # <<>> => task[o].need = 2
  BY <1>2 DEF MapInv, LinkedAsks
<1>9. \A p \in Batch[o] : p \in DurableOf[task[o].node]
  BY <1>3, <1>7 DEF Done, DurableOf
<1>10. LinkedOf[task[o].node] => \A p \in Batch[o] \cap Shared :
         \E m \in Node \ {task[o].node} : p \in DurableOf[m]
  BY <1>3, <1>7, <1>8 DEF Done, HeldByOther, DurableOf, LinkedOf, Shared
<1>11. Acked!Replicated(o)
  BY <1>9, <1>10 DEF Acked!Replicated, DurableOf, LinkedOf, Shared
<1>12. QED
  BY <1>4, <1>5, <1>6, <1>11 DEF Acked!Ack, StatusOf, HomeOf, DurableOf, LinkedOf

LEMMA FlushPersists ==
  ASSUME WriteProgress, MapInv, [Next]_vars, NEW t \in Task, Flush(t)
  PROVE  Acked!Persist(task[t].node)
<1> DEFINE n == task[t].node
<1>1. TypeOK /\ n \in Node /\ task[t] \in TaskRecord
  BY HasNode DEF WriteProgress, TypeOK, Flush
<1>2. \A k \in Node \ {n} : log'[k] = log[k] /\ flushed'[k] = flushed[k]
  BY <1>1 DEF Flush, TypeOK
<1>3. PICK P \in SUBSET Acked!Arrived(n) :
        DurableOf' = [DurableOf EXCEPT ![n] = @ \cup P]
  BY <1>1, <1>2, DiskPersists
<1>4. task'[t].node = n /\ task'[t].st = "remote"
  BY <1>1 DEF Flush, Becomes, TypeOK, TaskRecord
<1>5. \A o \in Op : OutcomeStays(o)
  <2> SUFFICES ASSUME NEW o \in Op
               PROVE  OutcomeStays(o)
    OBVIOUS
  <2>1. CASE o = t
    BY <1>4, <2>1 DEF OutcomeStays, Active, Flush
  <2>2. CASE o # t
    BY <2>2, OthersStay DEF Flush
  <2>3. QED
    BY <2>1, <2>2
<1>6. StatusOf' = StatusOf /\ HomeOf' = HomeOf /\ LinkedOf' = LinkedOf
  BY <1>5, StatusRests DEF LinkedOf, Flush
<1>7. QED
  BY <1>3, <1>6 DEF Acked!Persist, StatusOf, HomeOf, DurableOf, LinkedOf

LEMMA CrashHalts ==
  ASSUME WriteProgress, MapInv, [Next]_vars, NEW n \in Node, Crash(n)
  PROVE  Acked!Halt(n)
<1>1. TypeOK /\ WellPlaced /\ TypeOK' /\ WellPlaced'
  BY NextProgress DEF WriteProgress
<1>2. \A k \in Node \ {n} : log'[k] = log[k] /\ flushed'[k] = flushed[k]
  BY <1>1 DEF Crash, TypeOK
<1>3. PICK P \in SUBSET Acked!Arrived(n) :
        DurableOf' = [DurableOf EXCEPT ![n] = @ \cup P]
  BY <1>2, DiskPersists
<1>4. ASSUME NEW o \in Op
      PROVE  /\ Outcome(o)' = IF Outcome(o) = "running" /\ task[o].node = n
                              THEN "failed" ELSE Outcome(o)
             /\ task'[o].node = task[o].node
  <2>1. task'[o] = IF Active(o) /\ task[o].node = n
                   THEN [task[o] EXCEPT !.st = "gone"] ELSE task[o]
    BY DEF Crash, Task
  <2>2. Outcome(o) = "running" <=> Active(o)
    BY <1>1, OutcomeOf
  <2>3. task[o] \in TaskRecord
    BY <1>1 DEF TypeOK, Task
  <2>4. CASE Active(o) /\ task[o].node = n
    <3>1. task'[o].st = "gone" /\ task'[o].node = task[o].node
      BY <2>1, <2>3, <2>4 DEF TaskRecord
    <3>2. Outcome(o)' = "failed"
      BY <1>1, <3>1, OutcomeOf
    <3>3. QED
      BY <2>2, <2>4, <3>1, <3>2
  <2>5. CASE ~(Active(o) /\ task[o].node = n)
    BY <2>1, <2>2, <2>5 DEF Outcome
  <2>6. QED
    BY <2>4, <2>5
<1>5. /\ StatusOf' = [o \in Op |-> IF StatusOf[o] = "running" /\ HomeOf[o] = n
                                   THEN "failed" ELSE StatusOf[o]]
      /\ HomeOf' = HomeOf
  BY <1>4 DEF StatusOf, HomeOf
<1>6. LinkedOf' = LinkedOf
  BY DEF Crash, LinkedOf
<1>7. QED
  BY <1>3, <1>5, <1>6 DEF Acked!Halt, StatusOf, HomeOf, DurableOf, LinkedOf

LEMMA MembersRelearn ==
  ASSUME WriteProgress, MapInv, [Next]_vars, NEW n \in Node,
         Restart(n) \/ \E m \in Node : AddRemoteShards(n, m)
  PROVE  Acked!Relearn(n)
<1>1. TypeOK /\ WellPlaced
  BY DEF WriteProgress
<1>2. task' = task /\ log' = log /\ flushed' = flushed
  BY DEF Restart, AddRemoteShards
<1>3. \A t \in Task : Active(t) => task[t].node # n
  <2>1. CASE Restart(n)
    BY <2>1 DEF Restart, MapInv, RunsWhereUp
  <2>2. CASE \E m \in Node : AddRemoteShards(n, m)
    BY <2>2 DEF AddRemoteShards
  <2>3. QED
    BY <2>1, <2>2
<1>4. \A o \in Op : Outcome(o) = "running" => task[o].node # n
  BY <1>1, <1>3, OutcomeOf DEF Task
<1>5. DurableOf' = DurableOf /\ StatusOf' = StatusOf /\ HomeOf' = HomeOf
  BY <1>2, DiskRests DEF StatusOf, HomeOf, Outcome
<1>6. \A k \in Node \ {n} : remotes'[k] = remotes[k]
  BY <1>1 DEF Restart, AddRemoteShards, TypeOK
<1>7. LinkedOf' = [LinkedOf EXCEPT ![n] = remotes'[n] # <<>>]
  BY <1>6 DEF LinkedOf
<1>8. (remotes'[n] # <<>>) \in BOOLEAN
  OBVIOUS
<1>9. QED
  BY <1>4, <1>5, <1>7, <1>8 DEF Acked!Relearn, StatusOf, HomeOf, DurableOf, LinkedOf

LEMMA Unseen ==
  ASSUME WriteProgress, [Next]_vars, \A o \in Op : OutcomeStays(o), remotes' = remotes,
         UNCHANGED <<log, flushed>> \/ \E t \in Task : InsertPoint(t)
  PROVE  UNCHANGED Acked!vars
<1>1. StatusOf' = StatusOf /\ HomeOf' = HomeOf /\ DurableOf' = DurableOf
      /\ LinkedOf' = LinkedOf
  BY StatusRests, DiskRests DEF LinkedOf
<1>2. QED
  BY <1>1 DEF Acked!vars, StatusOf, HomeOf, DurableOf, LinkedOf

(* The steps of an execution that has more to do, and those of a call.     *)
LEMMA WorkUnseen ==
  ASSUME WriteProgress, [Next]_vars, NEW t \in Task, NEW r, Becomes(t, r),
         t \in Op => Active(t) /\ Active(t)', remotes' = remotes,
         UNCHANGED <<log, flushed>> \/ InsertPoint(t)
  PROVE  UNCHANGED Acked!vars
<1>1. \A o \in Op : OutcomeStays(o)
  <2> SUFFICES ASSUME NEW o \in Op
               PROVE  OutcomeStays(o)
    OBVIOUS
  <2>1. CASE o = t
    BY <2>1, RunStays DEF OutcomeStays, Active
  <2>2. CASE o # t
    BY <2>2, OthersStay
  <2>3. QED
    BY <2>1, <2>2
<1>2. QED
  BY <1>1, Unseen

LEMMA LocalStepMaps ==
  ASSUME WriteProgress, MapInv, [Next]_vars, NEW t \in Task, LocalStep(t)
  PROVE  [Acked!Next]_(Acked!vars)
<1>1. TypeOK /\ task[t] \in TaskRecord
  BY DEF WriteProgress, TypeOK
<1>2. \A r : Becomes(t, r) => task'[t] = r
  BY <1>1, BecomesOne
<1>3. CASE PickShard(t)
  <2> DEFINE n == task[t].node
             r(s) == [task[t] EXCEPT
                        !.st = IF s \in Segmented[n] THEN "local" ELSE "remote",
                        !.todo = @ \ {s}, !.shard = s,
                        !.left = Group(n, Points(t), s),
                        !.localOk = FALSE, !.remoteOk = 0,
                        !.peers = IF t \in Op THEN remotes[n] ELSE <<>>]
  <2>1. PICK s \in task[t].todo : Becomes(t, r(s))
    BY <1>3 DEF PickShard
  <2>2. r(s).st \in {"local", "remote"}
    BY <1>1 DEF TaskRecord
  <2> HIDE DEF r
  <2>3. task'[t].st \in {"local", "remote"}
    BY <1>2, <2>1, <2>2
  <2>4. QED
    BY <1>3, <2>1, <2>3, WorkUnseen DEF PickShard, Active
<1>4. CASE InsertPoint(t)
  <2>1. PICK r : Becomes(t, r) /\ r.st = "local"
    BY <1>1, <1>4 DEF InsertPoint, TaskRecord
  <2>2. QED
    BY <1>2, <1>4, <2>1, WorkUnseen DEF InsertPoint, Active
<1>5. CASE Flush(t)
  <2>1. task[t].node \in Node
    BY <1>5, HasNode DEF Flush
  <2>2. QED
    BY <1>5, <2>1, FlushPersists DEF Acked!Next
<1>6. CASE LocalFails(t)
  <2>1. Becomes(t, [task[t] EXCEPT !.st = "remote", !.left = {}])
    BY <1>6 DEF LocalFails
  <2>2. task'[t].st = "remote"
    BY <1>1, <1>2, <2>1 DEF TaskRecord
  <2>3. QED
    BY <1>6, <2>1, <2>2, WorkUnseen DEF LocalFails, Active
<1>7. CASE Judge(t)
  <2>1. PICK r : Becomes(t, r) /\ r.st \in {"pick", "err"}
    BY <1>1, <1>7 DEF Judge, TaskRecord
  <2>2. CASE t \in Op /\ r.st = "err"
    <3>1. Acked!Fail(t)
      BY <1>2, <1>7, <2>1, <2>2, EndFails DEF Judge, Active
    <3>2. QED
      BY <2>2, <3>1 DEF Acked!Next
  <2>3. CASE t \in Op => r.st = "pick"
    BY <1>2, <1>7, <2>1, <2>3, WorkUnseen DEF Judge, Active
  <2>4. QED
    BY <2>1, <2>2, <2>3
<1>8. CASE Finish(t)
  <2>1. CASE t \in Op
    BY <1>8, <2>1, FinishAcks DEF Acked!Next
  <2>2. CASE t \notin Op
    BY <1>8, <2>2, WorkUnseen DEF Finish
  <2>3. QED
    BY <2>1, <2>2
<1>9. QED
  BY <1>3, <1>4, <1>5, <1>6, <1>7, <1>8 DEF LocalStep

LEMMA RemoteStepMaps ==
  ASSUME WriteProgress, [Next]_vars, NEW o \in Op, RemoteStep(o) \/ ClientGone(o)
  PROVE  [Acked!Next]_(Acked!vars)
<1>1. TypeOK /\ o \in Task /\ task[o] \in TaskRecord
  BY DEF WriteProgress, TypeOK, Task
<1>2. \A r : Becomes(o, r) => task'[o] = r
  BY <1>1, BecomesOne
<1>3. CASE ClientGone(o)
  <2>1. PICK r : Becomes(o, r) /\ r.st = "gone"
    BY <1>1, <1>3 DEF ClientGone, TaskRecord
  <2>2. Acked!Fail(o)
    BY <1>2, <1>3, <2>1, EndFails DEF ClientGone, Active
  <2>3. QED
    BY <2>2 DEF Acked!Next
<1> DEFINE m == Head(task[o].peers)
           c == <<o, task[o].shard, m>>
<1>4. CASE CallRemote(o) /\ m \in Addressable
  <2>1. task' = [task EXCEPT ![o].st = "await", ![c].st = "sent"]
    BY <1>4 DEF CallRemote
  <2>2. c \notin Op
    <3>1. task[o].peers # <<>> /\ task[o].shard \in Shard /\ task[o].peers \in Seq(Node)
      BY <1>1, <1>4 DEF CallRemote, WriteProgress, Progress, TaskRecord
    <3>2. QED
      BY <3>1, IdAssumption DEF Call
  <2> HIDE DEF c
  <2>3. \A q \in Op : OutcomeStays(q)
    <3> SUFFICES ASSUME NEW q \in Op
                 PROVE  OutcomeStays(q)
      OBVIOUS
    <3>1. q \in Task /\ task[q] \in TaskRecord
      BY <1>1 DEF TypeOK, Task
    <3>2. task'[q] = IF q = o THEN [task[o] EXCEPT !.st = "await"] ELSE task[q]
      BY <1>1, <2>1, <2>2, <3>1 DEF TypeOK
    <3>3. QED
      BY <1>4, <3>1, <3>2 DEF OutcomeStays, CallRemote, Active, TaskRecord
  <2>4. QED
    BY <1>4, <2>3, Unseen DEF CallRemote
<1>5. CASE CallRemote(o) /\ m \notin Addressable
  <2>1. Becomes(o, [task[o] EXCEPT !.peers = Tail(@)]) /\ task[o].st = "remote"
    BY <1>5 DEF CallRemote
  <2>2. task'[o].st = "remote"
    BY <1>1, <1>2, <2>1 DEF TaskRecord
  <2>3. QED
    BY <1>1, <1>5, <2>1, <2>2, WorkUnseen DEF CallRemote, Active
<1>6. CASE Answered(o) \/ CallFails(o)
  <2>1. PICK k \in Nat : Becomes(o, [task[o] EXCEPT !.st = "remote", !.peers = Tail(@),
                                                   !.remoteOk = k])
    <3>1. task[o].remoteOk \in Nat /\ task[o].remoteOk + 1 \in Nat
      BY <1>1 DEF TaskRecord
    <3>2. CASE Answered(o)
      BY <3>1, <3>2 DEF Answered
    <3>3. CASE CallFails(o)
      <4>1. [task[o] EXCEPT !.st = "remote", !.peers = Tail(@)]
              = [task[o] EXCEPT !.st = "remote", !.peers = Tail(@),
                                !.remoteOk = task[o].remoteOk]
        BY <1>1 DEF TaskRecord
      <4>2. QED
        BY <3>1, <3>3, <4>1 DEF CallFails
    <3>4. QED
      BY <1>6, <3>2, <3>3
  <2>2. task'[o].st = "remote"
    BY <1>1, <1>2, <2>1 DEF TaskRecord
  <2>3. QED
    BY <1>1, <1>6, <2>1, <2>2, WorkUnseen DEF Answered, CallFails, Active
<1>7. QED
  BY <1>3, <1>4, <1>5, <1>6 DEF RemoteStep

LEMMA NextMaps ==
  ASSUME WriteProgress, MapInv, [Next]_vars
  PROVE  [Acked!Next]_(Acked!vars)
<1>1. ASSUME NEW o \in Op, NEW n \in Node, Put(o, n)
      PROVE  Acked!Next
  BY <1>1, PutStarts DEF Acked!Next
<1>2. ASSUME NEW c \in Call, Serve(c)
      PROVE  UNCHANGED Acked!vars
  <2>1. c \in Task /\ c \notin Op
    BY IdAssumption DEF Task
  <2>2. QED
    BY <1>2, <2>1, WorkUnseen DEF Serve, Begin
<1>3. ASSUME NEW t \in Task, LocalStep(t)
      PROVE  [Acked!Next]_(Acked!vars)
  BY <1>3, LocalStepMaps
<1>4. ASSUME NEW o \in Op, RemoteStep(o) \/ ClientGone(o)
      PROVE  [Acked!Next]_(Acked!vars)
  BY <1>4, RemoteStepMaps
<1>5. ASSUME NEW n \in Node, Crash(n)
      PROVE  Acked!Next
  BY <1>5, CrashHalts DEF Acked!Next
<1>6. ASSUME NEW n \in Node, Restart(n) \/ \E m \in Node : AddRemoteShards(n, m)
      PROVE  Acked!Next
  BY <1>6, MembersRelearn DEF Acked!Next
<1>7. CASE UNCHANGED vars
  <2>1. \A o \in Op : OutcomeStays(o)
    BY <1>7 DEF vars, OutcomeStays
  <2>2. QED
    BY <1>7, <2>1, Unseen DEF vars
<1>8. QED
  BY <1>1, <1>2, <1>3, <1>4, <1>5, <1>6, <1>7 DEF Next

LEMMA InitMaps == Init => Acked!Init
<1> SUFFICES ASSUME Init
             PROVE  Acked!Init
  OBVIOUS
<1>1. \A n \in Node, p \in Point : ~HoldsDurably(n, p)
  BY DEF Init, HoldsDurably
<1>2. \A o \in Op : Outcome(o) = "new" /\ task[o].node = None
  BY DEF Init, NotBegun, Outcome, Task
<1>3. QED
  BY <1>1, <1>2 DEF Acked!Init

(* The write path implements AckedWrites: a 200 only comes with each point *)
(* on the disks it promises, no disk loses a point or holds one that no    *)
(* client sent there, and an outcome is decided once; whatever crashes,    *)
(* late calls and retried members do to segments, shards and executions.   *)
THEOREM Refinement == Spec => ImplementsAckedWrites
<1>1. Init => Acked!Init
  BY InitMaps
<1>2. WriteProgress /\ MapInv /\ [Next]_vars => [Acked!Next]_(Acked!vars)
  BY NextMaps
<1>3. QED
  BY <1>1, <1>2, WriteProgressHolds, MapInvHolds, PTL
     DEF Spec, ImplementsAckedWrites, Acked!Spec
=============================================================================
