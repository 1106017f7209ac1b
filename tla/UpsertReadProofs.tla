-------------------------- MODULE UpsertReadProofs --------------------------
(* Theorems about what Upsert leaves to be read, for every value of its    *)
(* constants.                                                              *)
EXTENDS UpsertProofs

(* What a segment serves for an id is the last version in its log.         *)
Latest(l, p, i) ==
  /\ i \in 1..Len(l)
  /\ l[i] = p
  /\ \A j \in 1..Len(l) : l[j].id = p.id => j <= i

LEMMA LatestLast ==
  ASSUME NEW l \in Seq(Point), NEW p \in Point
  PROVE  Latest(Append(l, p), p, Len(l) + 1)
BY DEF Latest

LEMMA LatestAppend ==
  ASSUME NEW l \in Seq(Point), NEW p, NEW i, Latest(l, p, i),
         NEW q \in Point, q.id # p.id
  PROVE  Latest(Append(l, q), p, i)
BY DEF Latest

LEMMA LatestPrefix ==
  ASSUME NEW l \in Seq(Point), NEW p, NEW i, Latest(l, p, i),
         NEW k \in Nat, i <= k, k <= Len(l)
  PROVE  Latest(SubSeq(l, 1, k), p, i)
BY DEF Latest

LEMMA LatestVersion ==
  ASSUME NEW l \in Seq(Point), NEW p \in Point, NEW V,
         V = {i \in 1..Len(l) : l[i].id = p.id}
  PROVE  (\E i \in V : l[i] = p /\ \A j \in V : j <= i) <=> \E i : Latest(l, p, i)
<1>1. ASSUME NEW i
      PROVE  i \in V /\ l[i] = p /\ (\A j \in V : j <= i) <=> Latest(l, p, i)
  BY DEF Latest
<1>2. QED
  BY <1>1

LEMMA ServesLatest ==
  ASSUME NEW n \in Node, NEW p \in Point
  PROVE  /\ TypeOK => (Serves(n, p) <=> \E i : Latest(log[n][Route(n, p.id)], p, i))
         /\ TypeOK' => (Serves(n, p)' <=> \E i : Latest(log'[n][Route(n, p.id)], p, i))
<1> DEFINE s == Route(n, p.id)
<1>1. s \in Shard
  BY RouteType DEF Point
<1>2. ASSUME TypeOK
      PROVE  Serves(n, p) <=> \E i : Latest(log[n][s], p, i)
  <2>1. log[n][s] \in Seq(Point)
    BY <1>1, <1>2 DEF TypeOK
  <2>2. Versions(n, p.id) = {i \in 1..Len(log[n][s]) : log[n][s][i].id = p.id}
    BY DEF Versions
  <2>3. QED
    BY <2>1, <2>2, LatestVersion DEF Serves
<1>3. ASSUME TypeOK'
      PROVE  Serves(n, p)' <=> \E i : Latest(log'[n][s], p, i)
  <2>1. log'[n][s] \in Seq(Point)
    BY <1>1, <1>3 DEF TypeOK
  <2>2. Versions(n, p.id)' = {i \in 1..Len(log'[n][s]) : log'[n][s][i].id = p.id}
    BY DEF Versions, Route
  <2>3. QED
    BY <2>1, <2>2, LatestVersion DEF Serves, Route
<1>4. QED
  BY <1>2, <1>3

-----------------------------------------------------------------------------

(* What a step can do to one execution.                                    *)

Over(t) == task[t].st \in {"ok", "err", "gone"}

Starts(t) ==
  LET r == task'[t] IN
  /\ task[t].st = IF t \in Op THEN "idle" ELSE "sent"
  /\ t \in Op => \A q \in Before[t] : task[q].st # "idle" /\ ~Active(q)
  /\ t \in Call => r.node = t[3]
  /\ r.node \in Node /\ up[r.node]
  /\ r.st \in {"pick", "err"}
  /\ r.st = "pick" => Points(t) = {} \/ Shards[r.node] # {}
  /\ r.todo = {Route(r.node, p.id) : p \in Points(t)}
  /\ r.need = MinDesiredSuccess(t, r.node)

IsSent(t) ==
  /\ t \in Call
  /\ task'[t] = [task[t] EXCEPT !.st = "sent"]
  /\ LET r == task[t[1]] IN
     /\ r.st = "remote" /\ r.peers # <<>>
     /\ t[2] = r.shard /\ t[3] = Head(r.peers)

TakesShard(t) ==
  LET r == task'[t] IN
  /\ task[t].st = "pick"
  /\ r.node = task[t].node /\ r.need = task[t].need
  /\ r.st \in {"local", "remote"}
  /\ r.shard \in task[t].todo
  /\ r.todo = task[t].todo \ {r.shard}
  /\ r.left = Group(r.node, Points(t), r.shard)
  /\ r.localOk = FALSE /\ r.remoteOk = 0
  /\ r.peers = IF t \in Op THEN remotes[r.node] ELSE <<>>

Inserts(t, p) ==
  LET n == task[t].node
      s == task[t].shard IN
  /\ task[t].st = "local"
  /\ n \in Node /\ s \in Shard
  /\ p \in task[t].left
  /\ task'[t] = [task[t] EXCEPT !.left = @ \ {p}]
  /\ log'[n][s] = Append(log[n][s], p)

(* The local shard is through, with success or not.                        *)
LeavesLocal(t) ==
  LET n == task[t].node
      s == task[t].shard IN
  /\ task[t].st = "local"
  /\ \/ /\ task[t].left = {}
        /\ task'[t] = [task[t] EXCEPT !.st = "remote", !.localOk = TRUE]
        /\ log'[n][s] = log[n][s]
        /\ flushed'[n][s] = Len(log[n][s])
     \/ task'[t] = [task[t] EXCEPT !.st = "remote", !.left = {}]

Calls(t) ==
  /\ t \in Op
  /\ task[t].st = "remote" /\ task[t].peers # <<>>
  /\ \/ task'[t] = [task[t] EXCEPT !.st = "await"]
     \/ task'[t] = [task[t] EXCEPT !.peers = Tail(@)]

IsAnswered(t) ==
  /\ t \in Op
  /\ task[t].st = "await"
  /\ \/ task'[t] = [task[t] EXCEPT !.st = "remote", !.peers = Tail(@)]
     \/ /\ task[<<t, task[t].shard, Head(task[t].peers)>>].st = "ok"
        /\ task'[t] = [task[t] EXCEPT !.st = "remote", !.peers = Tail(@),
                                      !.remoteOk = @ + 1]

IsJudged(t) ==
  /\ task[t].st = "remote" /\ task[t].peers = <<>>
  /\ \/ task'[t] = [task[t] EXCEPT !.st = "err"]
     \/ /\ task'[t] = [task[t] EXCEPT !.st = "pick"]
        /\ task[t].localOk /\ task[t].remoteOk + 1 >= task[t].need

IsFinished(t) ==
  /\ task[t].st = "pick" /\ task[t].todo = {}
  /\ task'[t] = [task[t] EXCEPT !.st = "ok"]

IsGone(t) == Active(t) /\ task'[t] = [task[t] EXCEPT !.st = "gone"]

TaskMove(t) ==
  \/ task'[t] = task[t]
  \/ Starts(t) \/ IsSent(t) \/ TakesShard(t) \/ (\E p \in Point : Inserts(t, p))
  \/ LeavesLocal(t) \/ Calls(t) \/ IsAnswered(t) \/ IsJudged(t)
  \/ IsFinished(t) \/ IsGone(t)

(* What a step can do to one log.                                          *)

IsTruncated(n, s) ==
  /\ \E k \in flushed[n][s]..Len(log[n][s]) :
       log'[n][s] = SubSeq(log[n][s], 1, k) /\ flushed'[n][s] = k
  /\ \A t \in Task : task[t].node = n => ~Active(t)'

LogMove(n, s) ==
  \/ /\ log'[n][s] = log[n][s]
     /\ flushed'[n][s] \in {flushed[n][s], Len(log[n][s])}
  \/ /\ flushed'[n][s] = flushed[n][s]
     /\ \E t \in Task, p \in Point :
          Inserts(t, p) /\ task[t].node = n /\ task[t].shard = s
  \/ IsTruncated(n, s)

(* A step that writes one record.                                          *)
LEMMA BecomesOne ==
  ASSUME TypeOK, NEW t \in Task, NEW r, Becomes(t, r)
  PROVE  \A u \in Task : task'[u] = IF u = t THEN r ELSE task[u]
BY DEF TypeOK, Becomes

LEMMA BeginMoves ==
  ASSUME WriteProgress, NEW u \in Task, NEW n \in Node, Begin(u, n), up[n],
         task[u].st = IF u \in Op THEN "idle" ELSE "sent",
         u \in Op => \A q \in Before[u] : task[q].st # "idle" /\ ~Active(q),
         u \in Call => n = u[3],
         NEW t \in Task
  PROVE  TaskMove(t)
<1> DEFINE st == IF n \in Hosts /\ (Points(u) = {} \/ Shards[n] # {})
                 THEN "pick" ELSE "err"
           r == [task[u] EXCEPT !.st = st, !.node = n,
                   !.todo = {Route(n, p.id) : p \in Points(u)},
                   !.need = MinDesiredSuccess(u, n)]
<1>1. \A v \in Task : task'[v] = IF v = u THEN r ELSE task[v]
  BY BecomesOne DEF Begin, WriteProgress
<1>2. /\ r.st = st /\ r.node = n /\ r.need = MinDesiredSuccess(u, n)
      /\ r.todo = {Route(n, p.id) : p \in Points(u)}
  BY DEF WriteProgress, TypeOK, TaskRecord
<1>3. st \in {"pick", "err"} /\ (st = "pick" => Points(u) = {} \/ Shards[n] # {})
  OBVIOUS
<1> HIDE DEF r, st
<1>4. CASE t = u
  BY <1>1, <1>2, <1>3, <1>4 DEF TaskMove, Starts
<1>5. CASE t # u
  BY <1>1, <1>5 DEF TaskMove
<1>6. QED
  BY <1>4, <1>5

LEMMA LocalMoves ==
  ASSUME WriteProgress, NEW u \in Task, LocalStep(u), NEW t \in Task
  PROVE  TaskMove(t)
<1>0. TypeOK /\ TypeOK' /\ task[u] \in TaskRecord
  BY NextProgress DEF WriteProgress, TypeOK, Next
<1>1. CASE t # u
  <2>1. \E r : Becomes(u, r)
    BY DEF LocalStep, PickShard, InsertPoint, Flush, LocalFails, Judge, Finish
  <2>2. task'[t] = task[t]
    BY <1>0, <1>1, <2>1, BecomesOne
  <2>3. QED
    BY <2>2 DEF TaskMove
<1>2. CASE t = u /\ PickShard(u)
  <2> DEFINE n == task[u].node
             r(s) == [task[u] EXCEPT
                        !.st = IF s \in Segmented[n] THEN "local" ELSE "remote",
                        !.todo = @ \ {s}, !.shard = s,
                        !.left = Group(n, Points(u), s),
                        !.localOk = FALSE, !.remoteOk = 0,
                        !.peers = IF u \in Op THEN remotes[n] ELSE <<>>]
  <2>1. PICK s \in task[u].todo : Becomes(u, r(s))
    BY <1>2 DEF PickShard
  <2>2. task'[u] = r(s)
    BY <1>0, <2>1, BecomesOne
  <2>3. /\ r(s).node = n /\ r(s).need = task[u].need /\ r(s).shard = s
        /\ r(s).st = IF s \in Segmented[n] THEN "local" ELSE "remote"
        /\ r(s).todo = task[u].todo \ {s}
        /\ r(s).left = Group(n, Points(u), s)
        /\ r(s).localOk = FALSE /\ r(s).remoteOk = 0
        /\ r(s).peers = IF u \in Op THEN remotes[n] ELSE <<>>
    BY <1>0 DEF TaskRecord
  <2> HIDE DEF r
  <2>4. TakesShard(u)
    BY <1>2, <2>1, <2>2, <2>3 DEF TakesShard, PickShard
  <2>5. QED
    BY <1>2, <2>4 DEF TaskMove
<1>3. CASE t = u /\ InsertPoint(u)
  <2>1. task[u].st = "local" /\ task[u].node \in Node /\ task[u].shard \in Shard
    BY <1>3, HasNode DEF InsertPoint, WriteProgress, Progress
  <2>2. PICK p \in task[u].left :
          /\ Becomes(u, [task[u] EXCEPT !.left = @ \ {p}])
          /\ log' = [log EXCEPT ![task[u].node][task[u].shard] = Append(@, p)]
    BY <1>3 DEF InsertPoint
  <2>3. p \in Point
    BY <1>0 DEF TaskRecord
  <2>4. task'[u] = [task[u] EXCEPT !.left = @ \ {p}]
    BY <1>0, <2>2, BecomesOne
  <2>5. log'[task[u].node][task[u].shard]
          = Append(log[task[u].node][task[u].shard], p)
    BY <1>0, <2>1, <2>2 DEF TypeOK
  <2>6. QED
    BY <1>3, <2>1, <2>3, <2>4, <2>5 DEF TaskMove, Inserts
<1>4. CASE t = u /\ Flush(u)
  <2>1. task[u].st = "local" /\ task[u].node \in Node /\ task[u].shard \in Shard
    BY <1>4, HasNode DEF Flush, WriteProgress, Progress
  <2>2. task'[u] = [task[u] EXCEPT !.st = "remote", !.localOk = TRUE]
    BY <1>0, <1>4, BecomesOne DEF Flush
  <2>3. flushed'[task[u].node][task[u].shard] = Len(log[task[u].node][task[u].shard])
    BY <1>0, <1>4, <2>1 DEF TypeOK, Flush
  <2>4. LeavesLocal(u)
    BY <1>4, <2>2, <2>3 DEF LeavesLocal, Flush
  <2>5. QED
    BY <1>4, <2>4 DEF TaskMove
<1>5. CASE t = u /\ LocalFails(u)
  <2>1. task'[u] = [task[u] EXCEPT !.st = "remote", !.left = {}]
    BY <1>0, <1>5, BecomesOne DEF LocalFails
  <2>2. QED
    BY <1>5, <2>1 DEF TaskMove, LeavesLocal, LocalFails
<1>6. CASE t = u /\ Judge(u)
  <2> DEFINE good == task[u].localOk /\ TotalSuccess(task[u]) >= task[u].need
  <2>1. task'[u] = [task[u] EXCEPT !.st = IF good THEN "pick" ELSE "err"]
    BY <1>0, <1>6, BecomesOne DEF Judge
  <2>2. good => task[u].remoteOk + 1 >= task[u].need
    BY DEF TotalSuccess
  <2>3. IsJudged(u)
    BY <1>6, <2>1, <2>2 DEF IsJudged, Judge
  <2>4. QED
    BY <1>6, <2>3 DEF TaskMove
<1>7. CASE t = u /\ Finish(u)
  <2>1. task'[u] = [task[u] EXCEPT !.st = "ok"]
    BY <1>0, <1>7, BecomesOne DEF Finish
  <2>2. QED
    BY <1>7, <2>1 DEF TaskMove, IsFinished, Finish
<1>8. QED
  BY <1>1, <1>2, <1>3, <1>4, <1>5, <1>6, <1>7 DEF LocalStep

LEMMA RemoteMoves ==
  ASSUME WriteProgress, NEW o \in Op, RemoteStep(o) \/ ClientGone(o), NEW t \in Task
  PROVE  TaskMove(t)
<1> DEFINE m == Head(task[o].peers)
           c == <<o, task[o].shard, m>>
<1>1. TypeOK /\ task[o] \in TaskRecord /\ o \in Task
  BY DEF WriteProgress, TypeOK, Task
<1>2. CASE t # o /\ \E r : Becomes(o, r)
  <2>1. task'[t] = task[t]
    BY <1>1, <1>2, BecomesOne
  <2>2. QED
    BY <2>1 DEF TaskMove
<1>3. CASE CallRemote(o) /\ m \in Addressable
  <2>1. task[o].st = "remote" /\ task[o].peers # <<>> /\ task[o].shard \in Shard
    BY <1>1, <1>3 DEF CallRemote, WriteProgress, Progress
  <2>2. m \in Node
    BY <1>1, <2>1 DEF TaskRecord
  <2>3. c \in Call /\ c \in Task /\ c # o
    BY <2>1, <2>2, IdAssumption DEF Call, Task
  <2>4. task' = [task EXCEPT ![o].st = "await", ![c].st = "sent"]
    BY <1>3 DEF CallRemote
  <2>5. /\ task'[o] = [task[o] EXCEPT !.st = "await"]
        /\ task'[c] = [task[c] EXCEPT !.st = "sent"]
        /\ \A u \in Task : u \notin {o, c} => task'[u] = task[u]
    <3> HIDE DEF c
    <3>1. QED
      BY <1>1, <2>3, <2>4 DEF TypeOK
  <2>6. Calls(o)
    BY <2>1, <2>5 DEF Calls
  <2>7. IsSent(c)
    BY <2>1, <2>3, <2>5 DEF IsSent
  <2> HIDE DEF c
  <2>8. QED
    BY <2>5, <2>6, <2>7 DEF TaskMove
<1>4. CASE t = o /\ CallRemote(o) /\ m \notin Addressable
  <2>1. task'[o] = [task[o] EXCEPT !.peers = Tail(@)]
    BY <1>1, <1>4, BecomesOne DEF CallRemote
  <2>2. Calls(o)
    BY <1>4, <2>1 DEF Calls, CallRemote
  <2>3. QED
    BY <1>4, <2>2 DEF TaskMove
<1>5. CASE t = o /\ Answered(o)
  <2>1. task'[o] = [task[o] EXCEPT !.st = "remote", !.peers = Tail(@),
                       !.remoteOk = IF task[c].st = "ok" THEN @ + 1 ELSE @]
    BY <1>1, <1>5, BecomesOne DEF Answered
  <2>2. CASE task[c].st = "ok"
    BY <1>5, <2>1, <2>2 DEF TaskMove, IsAnswered, Answered
  <2>3. CASE task[c].st # "ok"
    <3>1. task'[o] = [task[o] EXCEPT !.st = "remote", !.peers = Tail(@)]
      BY <1>1, <2>1, <2>3 DEF TaskRecord
    <3>2. QED
      BY <1>5, <3>1 DEF TaskMove, IsAnswered, Answered
  <2>4. QED
    BY <2>2, <2>3
<1>6. CASE t = o /\ CallFails(o)
  <2>1. task'[o] = [task[o] EXCEPT !.st = "remote", !.peers = Tail(@)]
    BY <1>1, <1>6, BecomesOne DEF CallFails
  <2>2. QED
    BY <1>6, <2>1 DEF TaskMove, IsAnswered, CallFails
<1>7. CASE t = o /\ ClientGone(o)
  <2>1. task'[o] = [task[o] EXCEPT !.st = "gone"]
    BY <1>1, <1>7, BecomesOne DEF ClientGone
  <2>2. QED
    BY <1>7, <2>1 DEF TaskMove, IsGone, ClientGone, Active
<1>8. (CallRemote(o) /\ m \in Addressable) \/ \E r : Becomes(o, r)
  BY DEF RemoteStep, CallRemote, Answered, CallFails, ClientGone
<1>9. QED
  BY <1>2, <1>3, <1>4, <1>5, <1>6, <1>7, <1>8 DEF RemoteStep

LEMMA TaskMoves ==
  ASSUME WriteProgress, [Next]_vars, NEW t \in Task
  PROVE  TaskMove(t)
<1>1. ASSUME NEW o \in Op, NEW n \in Node, Put(o, n)
      PROVE  TaskMove(t)
  <2>1. o \in Task /\ o \notin Call
    BY IdAssumption DEF Task
  <2>2. QED
    BY <1>1, <2>1, BeginMoves DEF Put
<1>2. ASSUME NEW c \in Call, Serve(c)
      PROVE  TaskMove(t)
  <2>1. c \in Task /\ c \notin Op /\ c[3] \in Node
    BY IdAssumption DEF Task, Call
  <2>2. QED
    BY <1>2, <2>1, BeginMoves DEF Serve
<1>3. ASSUME NEW u \in Task, LocalStep(u)
      PROVE  TaskMove(t)
  BY <1>3, LocalMoves
<1>4. ASSUME NEW o \in Op, RemoteStep(o) \/ ClientGone(o)
      PROVE  TaskMove(t)
  BY <1>4, RemoteMoves
<1>5. ASSUME NEW n \in Node, Crash(n)
      PROVE  TaskMove(t)
  BY <1>5 DEF Crash, TaskMove, IsGone
<1>6. CASE task' = task
  BY <1>6 DEF TaskMove
<1>7. QED
  BY <1>1, <1>2, <1>3, <1>4, <1>5, <1>6 DEF Next, Restart, AddRemoteShards, vars

LEMMA LogMoves ==
  ASSUME WriteProgress, [Next]_vars, NEW n \in Node, NEW s \in Shard
  PROVE  LogMove(n, s)
<1>0. TypeOK
  BY DEF WriteProgress
<1>1. CASE UNCHANGED <<log, flushed>>
  BY <1>1 DEF LogMove
<1>2. ASSUME NEW t \in Task, InsertPoint(t)
      PROVE  LogMove(n, s)
  <2>1. task[t].st = "local" /\ task[t].node \in Node /\ task[t].shard \in Shard
    BY <1>2, HasNode DEF InsertPoint, WriteProgress, Progress
  <2>2. PICK p \in task[t].left :
          /\ Becomes(t, [task[t] EXCEPT !.left = @ \ {p}])
          /\ log' = [log EXCEPT ![task[t].node][task[t].shard] = Append(@, p)]
    BY <1>2 DEF InsertPoint
  <2>3. task[t] \in TaskRecord /\ p \in Point
    BY <1>0 DEF TypeOK, TaskRecord
  <2>4. task'[t] = [task[t] EXCEPT !.left = @ \ {p}]
    BY <1>0, <2>2, BecomesOne
  <2>5. \A m \in Node, z \in Shard :
          log'[m][z] = IF m = task[t].node /\ z = task[t].shard
                       THEN Append(log[m][z], p) ELSE log[m][z]
    BY <1>0, <2>1, <2>2 DEF TypeOK
  <2>6. Inserts(t, p)
    BY <2>1, <2>2, <2>4, <2>5 DEF Inserts
  <2>7. flushed' = flushed
    BY <1>2 DEF InsertPoint
  <2>8. QED
    BY <2>3, <2>5, <2>6, <2>7 DEF LogMove
<1>3. ASSUME NEW t \in Task, Flush(t)
      PROVE  LogMove(n, s)
  <2>1. task[t].node \in Node /\ task[t].shard \in Shard
    BY <1>3, HasNode DEF Flush, WriteProgress, Progress
  <2>2. flushed'[n][s] \in {flushed[n][s], Len(log[n][s])} /\ log' = log
    BY <1>0, <1>3, <2>1 DEF Flush, TypeOK
  <2>3. QED
    BY <2>2 DEF LogMove
<1>4. ASSUME NEW m \in Node, Crash(m)
      PROVE  LogMove(n, s)
  <2>1. PICK kept \in [Shard -> UNION {flushed[m][z]..Len(log[m][z]) : z \in Shard}] :
          /\ \A z \in Shard : kept[z] \in flushed[m][z]..Len(log[m][z])
          /\ log' = [log EXCEPT ![m] = [z \in Shard |-> SubSeq(log[m][z], 1, kept[z])]]
          /\ flushed' = [flushed EXCEPT ![m] = kept]
    BY <1>4 DEF Crash
  <2>2. CASE m = n
    <3>1. log'[n][s] = SubSeq(log[n][s], 1, kept[s]) /\ flushed'[n][s] = kept[s]
      BY <1>0, <2>1, <2>2 DEF TypeOK
    <3>2. ASSUME NEW t \in Task, task[t].node = n
          PROVE  ~Active(t)'
      <4>1. task[t] \in TaskRecord
        BY <1>0 DEF TypeOK
      <4>2. QED
        BY <1>4, <2>2, <3>2, <4>1 DEF Crash, Active, TaskRecord
    <3>3. IsTruncated(n, s)
      BY <2>1, <2>2, <3>1, <3>2 DEF IsTruncated
    <3>4. QED
      BY <3>3 DEF LogMove
  <2>3. CASE m # n
    BY <1>0, <2>1, <2>3 DEF TypeOK, LogMove
  <2>4. QED
    BY <2>2, <2>3
<1>5. QED
  BY <1>1, <1>2, <1>3, <1>4 DEF Next, LocalStep, RemoteStep, PickShard, LocalFails,
     Judge, Finish, CallRemote, Answered, CallFails, ClientGone, Put, Serve, Begin,
     Restart, AddRemoteShards, vars

-----------------------------------------------------------------------------

(* What does not change once a request or a call has begun.                *)
LEMMA RunStays ==
  ASSUME WriteProgress, [Next]_vars, NEW t \in Task,
         task[t].st \notin {"idle", "sent"}
  PROVE  /\ task'[t].node = task[t].node
         /\ t \in Op => task'[t].st # "idle" /\ task'[t].need = task[t].need
<1>1. TaskMove(t) /\ task[t] \in TaskRecord
  BY TaskMoves DEF WriteProgress, TypeOK
<1>2. CASE Starts(t) \/ IsSent(t) \/ TakesShard(t)
  <2>1. ~Starts(t)
    BY DEF Starts
  <2>2. QED
    BY <1>1, <1>2, <2>1, IdAssumption DEF IsSent, TakesShard, TaskRecord
<1>3. CASE task'[t] = task[t] \/ \E p \in Point : Inserts(t, p)
  BY <1>1, <1>3 DEF Inserts, TaskRecord
<1>4. CASE LeavesLocal(t) \/ Calls(t) \/ IsAnswered(t)
  BY <1>1, <1>4 DEF LeavesLocal, Calls, IsAnswered, TaskRecord
<1>5. CASE IsJudged(t) \/ IsFinished(t) \/ IsGone(t)
  BY <1>1, <1>5 DEF IsJudged, IsFinished, IsGone, TaskRecord
<1>6. QED
  BY <1>1, <1>2, <1>3, <1>4, <1>5 DEF TaskMove

LEMMA OpStays ==
  ASSUME WriteProgress, [Next]_vars, NEW o \in Op, task[o].st # "idle"
  PROVE  /\ task'[o].node = task[o].node /\ task[o].node \in Node
         /\ task'[o].need = task[o].need
         /\ task'[o].st # "idle"
<1>1. o \in Task /\ task[o].st # "sent"
  BY DEF Task, WriteProgress, WellPlaced
<1>2. QED
  BY <1>1, RunStays, HasNode

LEMMA CallHome ==
  ASSUME WriteProgress, NEW c \in Call, task[c].st # "idle"
  PROVE  /\ c[1] \in Op /\ task[c[1]].st # "idle"
         /\ task[c[1]].node \in Node \ {c[3]}
         /\ task[c].st # "sent" => task[c].node = c[3]
<1>1. c[1] \in Op /\ task[c[1]].node \in Node \ {c[3]}
  BY DEF WriteProgress, WellPlaced, Call
<1>2. QED
  BY <1>1, IdAssumption DEF WriteProgress, WellPlaced

LEMMA PointsFixed ==
  ASSUME WriteProgress, [Next]_vars, NEW t \in Task,
         t \in Call => task[t].st # "idle"
  PROVE  Points(t)' = Points(t)
<1>1. t \in Call => task'[t[1]].node = task[t[1]].node
  BY CallHome, OpStays
<1>2. QED
  BY <1>1, PointsStay

(* The points an execution has yet to insert are its own.                  *)
LeftInShard ==
  \A t \in Task : task[t].st = "local" => task[t].left \subseteq InShard(t)

(* The requests before one that was sent are over for good.                *)
BeforeIsOver ==
  \A o \in Op : task[o].st # "idle" => \A q \in Before[o] : Over(q)

(* An execution only succeeds with all its shards.                         *)
OkIsThrough == \A t \in Task : task[t].st = "ok" => task[t].todo = {}

ReadInv == LeftInShard /\ BeforeIsOver /\ StoredWhereRead /\ OkIsThrough

LEMMA ReadInvInit == Init => ReadInv
<1>1. ASSUME Init PROVE ReadInv
  <2>1. \A t \in Task : task[t].st = "idle"
    BY <1>1 DEF Init, NotBegun
  <2>2. \A n \in Node, s \in Shard : Len(log[n][s]) = 0
    BY <1>1 DEF Init
  <2>3. QED
    BY <2>1, <2>2
    DEF ReadInv, LeftInShard, BeforeIsOver, StoredWhereRead, OkIsThrough, Task
<1>2. QED
  BY <1>1

LEMMA LeftStays ==
  ASSUME WriteProgress, ReadInv, [Next]_vars
  PROVE  LeftInShard'
<1> SUFFICES ASSUME NEW t \in Task, task'[t].st = "local"
             PROVE  task'[t].left \subseteq InShard(t)'
  BY DEF LeftInShard
<1>1. TaskMove(t) /\ task[t] \in TaskRecord
  BY TaskMoves DEF WriteProgress, TypeOK
<1>2. CASE task'[t] = task[t] \/ \E p \in Point : Inserts(t, p)
  <2>1. /\ task[t].st = "local" /\ task'[t].left \subseteq task[t].left
        /\ task'[t].node = task[t].node /\ task'[t].shard = task[t].shard
    <3>1. CASE task'[t] = task[t]
      BY <3>1
    <3>2. ASSUME NEW p \in Point, Inserts(t, p)
          PROVE  /\ task[t].st = "local" /\ task'[t].left \subseteq task[t].left
                 /\ task'[t].node = task[t].node
                 /\ task'[t].shard = task[t].shard
      BY <1>1, <3>2 DEF Inserts, TaskRecord
    <3>3. QED
      BY <1>2, <3>1, <3>2
  <2>2. Points(t)' = Points(t)
    BY <2>1, PointsFixed
  <2>3. InShard(t)' = InShard(t)
    BY <2>1, <2>2 DEF InShard, Route
  <2>4. QED
    BY <2>1, <2>3 DEF ReadInv, LeftInShard
<1>3. CASE TakesShard(t)
  <2>1. Points(t)' = Points(t)
    BY <1>3, PointsFixed DEF TakesShard
  <2>2. QED
    BY <1>3, <2>1 DEF TakesShard, InShard, Group, Route
<1>4. QED
  BY <1>1, <1>2, <1>3 DEF TaskMove, Starts, IsSent, LeavesLocal, Calls, IsAnswered,
     IsJudged, IsFinished, IsGone, TaskRecord

LEMMA OverStays ==
  ASSUME WriteProgress, [Next]_vars, NEW o \in Op, Over(o)
  PROVE  task'[o] = task[o]
<1>1. TaskMove(o) /\ o \in Task
  BY TaskMoves DEF Task
<1>2. QED
  BY <1>1, IdAssumption DEF TaskMove, Starts, IsSent, TakesShard, Inserts, LeavesLocal, Calls,
     IsAnswered, IsJudged, IsFinished, IsGone, Over, Active

LEMMA BeforeStays ==
  ASSUME WriteProgress, ReadInv, [Next]_vars
  PROVE  BeforeIsOver'
<1> SUFFICES ASSUME NEW o \in Op, task'[o].st # "idle", NEW q \in Before[o]
             PROVE  Over(q)'
  BY DEF BeforeIsOver
<1>1. q \in Op /\ o \in Task /\ q \in Task
  BY RequestAssumption DEF Task
<1>2. Over(q)
  <2>1. CASE task[o].st # "idle"
    BY <2>1 DEF ReadInv, BeforeIsOver
  <2>2. CASE task[o].st = "idle"
    <3>1. TaskMove(o)
      BY <1>1, TaskMoves
    <3>2. Starts(o)
      BY <2>2, <3>1, IdAssumption DEF TaskMove, IsSent, TakesShard, Inserts, LeavesLocal, Calls,
         IsAnswered, IsJudged, IsFinished, IsGone, Active
    <3>3. task[q].st # "idle" /\ ~Active(q) /\ task[q].st # "sent"
      BY <1>1, <3>2 DEF Starts, WriteProgress, WellPlaced
    <3>4. task[q] \in TaskRecord
      BY <1>1 DEF WriteProgress, TypeOK
    <3>5. QED
      BY <3>3, <3>4 DEF Over, Active, TaskRecord
  <2>3. QED
    BY <2>1, <2>2
<1>3. QED
  BY <1>1, <1>2, OverStays DEF Over

LEMMA StoredAppend ==
  ASSUME NEW l \in Seq(Point), NEW p \in Point, NEW n, NEW s,
         \A i \in 1..Len(l) : Route(n, l[i].id) = s, Route(n, p.id) = s
  PROVE  \A i \in 1..Len(Append(l, p)) : Route(n, Append(l, p)[i].id) = s
OBVIOUS

LEMMA StoredStays ==
  ASSUME WriteProgress, ReadInv, [Next]_vars
  PROVE  StoredWhereRead'
<1> SUFFICES ASSUME NEW n \in Node, NEW s \in Shard, NEW i \in 1..Len(log'[n][s])
             PROVE  Route(n, log'[n][s][i].id) = s
  BY DEF StoredWhereRead, Route
<1>1. LogMove(n, s) /\ TypeOK
  BY LogMoves DEF WriteProgress
<1>2. \A j \in 1..Len(log[n][s]) : Route(n, log[n][s][j].id) = s
  BY DEF ReadInv, StoredWhereRead
<1>3. /\ log[n][s] \in Seq(Point) /\ Len(log[n][s]) \in Nat
      /\ flushed[n][s] \in Nat
  BY <1>1 DEF TypeOK
<1>4. CASE log'[n][s] = log[n][s]
  BY <1>2, <1>4
<1>5. ASSUME NEW t \in Task, NEW p \in Point,
             Inserts(t, p), task[t].node = n, task[t].shard = s
      PROVE  Route(n, log'[n][s][i].id) = s
  <2>1. p \in InShard(t)
    BY <1>5 DEF Inserts, ReadInv, LeftInShard
  <2>2. Route(n, p.id) = s
    BY <1>5, <2>1 DEF InShard
  <2>3. log'[n][s] = Append(log[n][s], p)
    BY <1>5 DEF Inserts
  <2> DEFINE l == log[n][s]
  <2>4. l \in Seq(Point) /\ \A j \in 1..Len(l) : Route(n, l[j].id) = s
    BY <1>2, <1>3
  <2>5. log'[n][s] = Append(l, p) /\ i \in 1..Len(log'[n][s])
    BY <2>3
  <2> HIDE DEF l
  <2>6. \A j \in 1..Len(Append(l, p)) : Route(n, Append(l, p)[j].id) = s
    BY <2>2, <2>4, StoredAppend
  <2>7. QED
    BY <2>5, <2>6
<1>6. CASE IsTruncated(n, s)
  BY <1>2, <1>3, <1>6 DEF IsTruncated
<1>7. QED
  BY <1>1, <1>4, <1>5, <1>6 DEF LogMove

LEMMA OkStays ==
  ASSUME WriteProgress, ReadInv, [Next]_vars
  PROVE  OkIsThrough'
<1> SUFFICES ASSUME NEW t \in Task, task'[t].st = "ok"
             PROVE  task'[t].todo = {}
  BY DEF OkIsThrough
<1>1. TaskMove(t) /\ task[t] \in TaskRecord
  BY TaskMoves DEF WriteProgress, TypeOK
<1>2. CASE task'[t] = task[t] \/ IsFinished(t)
  BY <1>1, <1>2 DEF IsFinished, TaskRecord, ReadInv, OkIsThrough
<1>3. CASE Starts(t) \/ IsSent(t) \/ TakesShard(t) \/ LeavesLocal(t)
  BY <1>1, <1>3 DEF Starts, IsSent, TakesShard, LeavesLocal, TaskRecord
<1>4. CASE Calls(t) \/ IsAnswered(t) \/ IsJudged(t) \/ IsGone(t)
  BY <1>1, <1>4 DEF Calls, IsAnswered, IsJudged, IsGone, TaskRecord
<1>5. ASSUME NEW p \in Point, Inserts(t, p)
      PROVE  FALSE
  BY <1>1, <1>5 DEF Inserts, TaskRecord
<1>6. QED
  BY <1>1, <1>2, <1>3, <1>4, <1>5 DEF TaskMove

LEMMA ReadInvNext == WriteProgress /\ ReadInv /\ [Next]_vars => ReadInv'
BY LeftStays, BeforeStays, StoredStays, OkStays DEF ReadInv

LEMMA ReadInvHolds == Spec => []ReadInv
<1>1. Init => ReadInv
  BY ReadInvInit
<1>2. WriteProgress /\ ReadInv /\ [Next]_vars => ReadInv'
  BY ReadInvNext
<1>3. QED
  BY <1>1, <1>2, WriteProgressHolds, PTL DEF Spec

(* A get by id asks the one shard where the peer's own ring puts the id,   *)
(* and what a peer holds is in that shard: whatever rings and shards the   *)
(* peers have, and whoever sent the point.                                 *)
THEOREM StoredWhereReadHolds == Spec => []StoredWhereRead
<1>1. ReadInv => StoredWhereRead
  BY DEF ReadInv
<1>2. QED
  BY <1>1, ReadInvHolds, PTL

-----------------------------------------------------------------------------

ServesDurably(n, p) ==
  LET s == Route(n, p.id) IN
  \E i \in 1..flushed[n][s] : Latest(log[n][s], p, i)

(* The shard of p is the one that t works on.                              *)
Current(t, p) ==
  /\ task[t].st \in {"local", "remote", "await"}
  /\ task[t].shard = Route(task[t].node, p.id)

(* t is through with p's shard.                                            *)
Past(t, p) ==
  /\ Active(t) \/ task[t].st = "ok"
  /\ Route(task[t].node, p.id) \notin task[t].todo
  /\ ~Current(t, p)

(* How far a point is that nobody else writes at the peer: once inserted   *)
(* it is what the peer serves, and once flushed it stays that.             *)
ServeProgress(t, p) ==
  LET n == task[t].node IN
  /\ Current(t, p) /\ task[t].st = "local" /\ p \notin task[t].left => Serves(n, p)
  /\ Current(t, p) /\ task[t].st # "local" /\ task[t].localOk => ServesDurably(n, p)
  /\ Past(t, p) => ServesDurably(n, p)

(* Whatever is about to be inserted of p's id at t's peer is t's p.        *)
SoleWriter(t, p) ==
  \A u \in Task : task[u].st = "local" /\ task[u].node = task[t].node =>
    \A q \in task[u].left : q.id = p.id => u = t /\ q = p

(* The hypotheses of AckedIsServed and of SerialWritesConverge.            *)
OwnWriters(o, p) ==
  \A q \in Writers(p.id) :
    \/ q \in Before[o] \cup {o} /\ task[q].node = task[o].node
    \/ task[q].st = "idle"

SerialWriters(o, p) ==
  \A q \in Writers(p.id) :
    \/ q = o
    \/ q \in Before[o] /\ task[q].st = "ok" /\ task[q].need = 2
    \/ task[q].st = "idle"

ServeInv ==
  \A o \in Op : \A p \in Batch[o] :
    task[o].st # "idle" /\ OwnWriters(o, p) => ServeProgress(o, p)

(* With two peers a request makes at most one call for a shard, once, and  *)
(* a success that it counted is a call that is over.                       *)
TwoPeers == \E n, m \in Node : Node = {n, m}

RemotesDistinct ==
  \A n \in Node : \A i, j \in 1..Len(remotes[n]) :
    remotes[n][i] = remotes[n][j] => i = j

Called(o, s) == \A m \in Node \ {task[o].node} : task[<<o, s, m>>].st = "ok"

CallProgress(o) ==
  LET r == task[o] IN
  /\ r.st \in {"local", "remote", "await"} => r.shard \notin r.todo /\ Len(r.peers) <= 1
  /\ r.st \in {"remote", "await"} /\ r.remoteOk > 0 =>
       r.peers = <<>> /\ Called(o, r.shard)
  /\ r.need = 2 => \A p \in Batch[o] : Past(o, p) => Called(o, Route(r.node, p.id))

SerialInv ==
  /\ RemotesDistinct
  /\ TwoPeers =>
       /\ \A o \in Op : CallProgress(o)
       /\ \A o \in Op : \A p \in Batch[o] :
            task[o].st # "idle" /\ SerialWriters(o, p) =>
              /\ ServeProgress(o, p)
              /\ \A c \in Call : c[1] = o /\ p \in Points(c) => ServeProgress(c, p)

-----------------------------------------------------------------------------

LEMMA DurablyServes ==
  ASSUME TypeOK, NEW n \in Node, NEW p \in Point, ServesDurably(n, p)
  PROVE  Serves(n, p)
BY ServesLatest DEF ServesDurably

(* What a peer serves of an id stays so unless the id is inserted again or *)
(* the peer dies; what it serves from its disk survives that as well.      *)
LEMMA ServesStays ==
  ASSUME TypeOK, TypeOK', NEW n \in Node, NEW p \in Point,
         LogMove(n, Route(n, p.id)), ~IsTruncated(n, Route(n, p.id)),
         \A t \in Task, q \in Point :
           Inserts(t, q) /\ task[t].node = n => q.id # p.id,
         Serves(n, p)
  PROVE  Serves(n, p)'
<1> DEFINE s == Route(n, p.id)
           l == log[n][s]
<1>1. s \in Shard /\ l \in Seq(Point)
  BY RouteType DEF TypeOK, Point
<1>2. PICK i : Latest(l, p, i)
  BY ServesLatest
<1>3. log'[n][s] = l \/ \E q \in Point : q.id # p.id /\ log'[n][s] = Append(l, q)
  BY DEF LogMove, Inserts
<1>4. Latest(log'[n][s], p, i)
  <2> HIDE DEF l
  <2>1. QED
    BY <1>1, <1>2, <1>3, LatestAppend
<1>5. Serves(n, p)' <=> \E j : Latest(log'[n][s], p, j)
  BY ServesLatest
<1>6. QED
  BY <1>4, <1>5

LEMMA DurablyStays ==
  ASSUME TypeOK, TypeOK', NEW n \in Node, NEW p \in Point,
         LogMove(n, Route(n, p.id)),
         \A t \in Task, q \in Point :
           Inserts(t, q) /\ task[t].node = n => q.id # p.id,
         ServesDurably(n, p)
  PROVE  ServesDurably(n, p)'
<1> DEFINE s == Route(n, p.id)
           l == log[n][s]
           f == flushed[n][s]
<1>1. s \in Shard
  BY RouteType DEF Point
<1>2. l \in Seq(Point) /\ f \in Nat /\ f <= Len(l) /\ flushed'[n][s] \in Nat
  BY <1>1 DEF TypeOK
<1>3. PICK i \in 1..f : Latest(l, p, i)
  BY DEF ServesDurably
<1>4. i \in 1..flushed'[n][s] /\ Latest(log'[n][s], p, i)
  <2>1. CASE log'[n][s] = l /\ flushed'[n][s] \in {f, Len(l)}
    BY <1>2, <1>3, <2>1
  <2>2. CASE /\ flushed'[n][s] = f
             /\ \E t \in Task, q \in Point :
                  Inserts(t, q) /\ task[t].node = n /\ task[t].shard = s
    <3>1. PICK q \in Point : q.id # p.id /\ log'[n][s] = Append(l, q)
      BY <2>2 DEF Inserts
    <3> HIDE DEF l, f
    <3>2. QED
      BY <1>2, <1>3, <2>2, <3>1, LatestAppend
  <2>3. CASE IsTruncated(n, s)
    <3>1. PICK k \in f..Len(l) : log'[n][s] = SubSeq(l, 1, k) /\ flushed'[n][s] = k
      BY <2>3 DEF IsTruncated
    <3> HIDE DEF l, f
    <3>2. k \in Nat /\ i <= k /\ k <= Len(l) /\ i \in 1..k
      BY <1>2, <1>3, <3>1
    <3>3. QED
      BY <1>2, <1>3, <3>1, <3>2, LatestPrefix
  <2>4. QED
    BY <2>1, <2>2, <2>3 DEF LogMove
<1>5. QED
  BY <1>4 DEF ServesDurably, Route

(* An execution that begins has the shards of its points to come.          *)
LEMMA ServeBegins ==
  ASSUME WriteProgress, [Next]_vars, NEW t \in Task, NEW p \in Points(t),
         task[t].st \in {"idle", "sent"}
  PROVE  ServeProgress(t, p)'
<1>1. TaskMove(t) /\ task[t] \in TaskRecord
  BY TaskMoves DEF WriteProgress, TypeOK
<1>2. CASE Starts(t)
  BY <1>2 DEF Starts, ServeProgress, Past, Current, Route
<1>3. CASE task'[t] = task[t] \/ IsSent(t)
  <2>1. task'[t].st \in {"idle", "sent"}
    BY <1>1, <1>3 DEF IsSent, TaskRecord
  <2>2. QED
    BY <2>1 DEF ServeProgress, Past, Current, Active
<1>4. QED
  BY <1>1, <1>2, <1>3 DEF TaskMove, TakesShard, Inserts, LeavesLocal, Calls,
     IsAnswered, IsJudged, IsFinished, IsGone, Active

LEMMA ServeStays ==
  ASSUME WriteProgress, WriteProgress', ReadInv, [Next]_vars,
         NEW t \in Task, NEW p \in Points(t),
         task[t].st \notin {"idle", "sent"},
         SoleWriter(t, p), ServeProgress(t, p)
  PROVE  ServeProgress(t, p)'
<1> DEFINE n == task[t].node
           s == Route(n, p.id)
<1>1. /\ TypeOK /\ TypeOK' /\ TaskMove(t)
      /\ task[t] \in TaskRecord /\ task'[t] \in TaskRecord
      /\ Progress(t)
  BY TaskMoves DEF WriteProgress, TypeOK
<1>2. n \in Node /\ p \in Point /\ n' = n /\ Route(n, p.id)' = s
  BY <1>1, HasNode, PointsType, RunStays DEF Route
<1>3. s \in Shard
  BY <1>2, RouteType DEF Point
<1>4. LogMove(n, s)
  BY <1>2, <1>3, LogMoves
<1>5. /\ log[n][s] \in Seq(Point) /\ Len(log[n][s]) \in Nat
      /\ flushed[n][s] \in Nat
  BY <1>1, <1>2, <1>3 DEF TypeOK
(* Who inserts an own version of p's id is t, in p's shard.                *)
<1>6. ASSUME NEW u \in Task, NEW q \in Point, Inserts(u, q), task[u].node = n,
             q.id = p.id
      PROVE  u = t /\ q = p /\ p \in task[t].left /\ task[t].st = "local"
             /\ Current(t, p)
  <2>1. u = t /\ q = p /\ p \in task[t].left /\ task[t].st = "local"
    BY <1>6 DEF Inserts, SoleWriter
  <2>2. p \in InShard(t)
    BY <2>1 DEF ReadInv, LeftInShard
  <2>3. QED
    BY <2>1, <2>2 DEF InShard, Current
<1>7. ASSUME task[t].st # "local" \/ p \notin task[t].left \/ ~Current(t, p)
      PROVE  /\ ServesDurably(n, p) => ServesDurably(n, p)'
             /\ Serves(n, p) /\ Active(t)' => Serves(n, p)'
  <2>1. \A u \in Task, q \in Point :
          Inserts(u, q) /\ task[u].node = n => q.id # p.id
    BY <1>6, <1>7
  <2>2. ServesDurably(n, p) => ServesDurably(n, p)'
    BY <1>1, <1>2, <1>4, <2>1, DurablyStays
  <2>3. Active(t)' => ~IsTruncated(n, s)
    BY DEF IsTruncated
  <2>4. QED
    BY <1>1, <1>2, <1>4, <2>1, <2>2, <2>3, ServesStays
<1>8. ASSUME task'[t].st = task[t].st, task'[t].shard = task[t].shard,
             task'[t].todo = task[t].todo, task'[t].left = task[t].left,
             task'[t].localOk = task[t].localOk
      PROVE  ServeProgress(t, p)'
  <2>1. /\ Current(t, p)' = Current(t, p) /\ Past(t, p)' = Past(t, p)
        /\ Active(t)' = Active(t)
    BY <1>2, <1>8 DEF Current, Past, Active
  <2>2. Current(t, p) => Active(t)
    BY DEF Current, Active
  <2>3. Past(t, p) => ~Current(t, p)
    BY DEF Past
  <2>4. QED
    BY <1>2, <1>7, <1>8, <2>1, <2>2, <2>3 DEF ServeProgress
<1>9. CASE TakesShard(t)
  <2>1. ServesDurably(n, p) => ServesDurably(n, p)'
    BY <1>7, <1>9 DEF TakesShard
  <2>2. p \in Group(n, Points(t), s)
    BY DEF Group
  <2>3. Past(t, p)' => Past(t, p)
    BY <1>2, <1>9 DEF TakesShard, Past, Current, Active
  <2>4. Current(t, p)' => task'[t].shard = s
    BY <1>2 DEF Current
  <2>5. Current(t, p)' => ~task'[t].localOk /\ p \in task'[t].left
    BY <1>2, <1>9, <2>2, <2>4 DEF TakesShard
  <2>6. QED
    BY <1>2, <2>1, <2>3, <2>5 DEF ServeProgress
<1>10. ASSUME NEW q \in Point, Inserts(t, q)
       PROVE  ServeProgress(t, p)'
  <2>1. /\ task[t].st = "local" /\ task'[t].st = "local"
        /\ task'[t].shard = task[t].shard /\ task'[t].todo = task[t].todo
        /\ task'[t].left = task[t].left \ {q}
    BY <1>1, <1>10 DEF Inserts, TaskRecord
  <2>2. Current(t, p)' = Current(t, p) /\ Past(t, p)' = Past(t, p) /\ Active(t)'
    BY <1>2, <2>1 DEF Current, Past, Active
  <2>3. CASE q = p /\ Current(t, p)
    <3>1. log'[n][s] = Append(log[n][s], p)
      BY <1>10, <2>3 DEF Inserts, Current
    <3>2. Latest(log'[n][s], p, Len(log[n][s]) + 1)
      <4> DEFINE l == log[n][s]
      <4>1. l \in Seq(Point) /\ log'[n][s] = Append(l, p)
        BY <1>5, <3>1
      <4> HIDE DEF l
      <4>2. Latest(log'[n][s], p, Len(l) + 1)
        BY <1>2, <4>1, LatestLast
      <4>3. QED
        BY <4>2 DEF l
    <3>3. Serves(n, p)'
      BY <1>1, <1>2, <3>2, ServesLatest
    <3>4. QED
      BY <1>2, <2>1, <2>2, <2>3, <3>3 DEF ServeProgress, Past
  <2>4. CASE ~Current(t, p)
    BY <1>2, <1>7, <2>2, <2>4 DEF ServeProgress
  <2>5. CASE q # p /\ Current(t, p)
    <3>1. p \notin task'[t].left => p \notin task[t].left
      BY <2>1, <2>5
    <3>2. QED
      BY <1>2, <1>7, <2>1, <2>2, <2>5, <3>1 DEF ServeProgress, Past
  <2>6. QED
    BY <2>3, <2>4, <2>5
<1>11. CASE LeavesLocal(t)
  <2>1. /\ task[t].st = "local" /\ task'[t].st = "remote"
        /\ task'[t].shard = task[t].shard /\ task'[t].todo = task[t].todo
    BY <1>1, <1>11 DEF LeavesLocal, TaskRecord
  <2>2. Current(t, p)' = Current(t, p) /\ Past(t, p)' = Past(t, p)
    BY <1>2, <2>1 DEF Current, Past, Active
  <2>3. CASE ~Current(t, p)
    BY <1>2, <1>7, <2>2, <2>3 DEF ServeProgress
  <2>4. CASE Current(t, p) /\ task'[t].localOk
    <3>1. task[t].left = {} /\ log'[n][s] = log[n][s] /\ flushed'[n][s] = Len(log[n][s])
      <4>1. ~task[t].localOk
        BY <1>1, <2>1 DEF Progress
      <4>2. CASE task'[t] = [task[t] EXCEPT !.st = "remote", !.left = {}]
        BY <1>1, <2>4, <4>1, <4>2 DEF TaskRecord
      <4>3. QED
        BY <1>11, <2>4, <4>2 DEF LeavesLocal, Current
    <3>2. Serves(n, p)
      BY <2>1, <2>4, <3>1 DEF ServeProgress
    <3>3. PICK i : Latest(log[n][s], p, i)
      BY <1>1, <1>2, <3>2, ServesLatest
    <3>4. i \in 1..flushed'[n][s] /\ Latest(log'[n][s], p, i)
      BY <3>1, <3>3 DEF Latest
    <3>5. ServesDurably(n, p)'
      BY <1>2, <3>4 DEF ServesDurably
    <3>6. QED
      BY <1>2, <2>1, <2>2, <2>4, <3>5 DEF ServeProgress, Past
  <2>5. CASE Current(t, p) /\ ~task'[t].localOk
    BY <2>1, <2>2, <2>5 DEF ServeProgress, Past
  <2>6. QED
    BY <2>3, <2>4, <2>5
<1>12. CASE Calls(t) \/ IsAnswered(t)
  <2>1. /\ task[t].st \in {"remote", "await"} /\ task'[t].st \in {"remote", "await"}
        /\ task'[t].shard = task[t].shard /\ task'[t].todo = task[t].todo
        /\ task'[t].localOk = task[t].localOk
    BY <1>1, <1>12 DEF Calls, IsAnswered, TaskRecord
  <2>2. Current(t, p)' = Current(t, p) /\ Past(t, p)' = Past(t, p)
    BY <1>2, <2>1 DEF Current, Past, Active
  <2>3. QED
    BY <1>2, <1>7, <2>1, <2>2 DEF ServeProgress
<1>13. CASE IsJudged(t)
  <2>1. /\ task[t].st = "remote" /\ task'[t].st \in {"pick", "err"}
        /\ task'[t].st = "pick" => task[t].localOk
        /\ task'[t].todo = task[t].todo
    BY <1>1, <1>13 DEF IsJudged, TaskRecord
  <2>2. ~Current(t, p)' /\ (Past(t, p)' => task[t].localOk)
    BY <2>1 DEF Current, Past, Active
  <2>3. Past(t, p)' => Past(t, p) \/ Current(t, p)
    BY <1>2, <2>1 DEF Past, Active
  <2>4. QED
    BY <1>2, <1>7, <2>1, <2>2, <2>3 DEF ServeProgress
<1>14. CASE IsFinished(t)
  <2>1. task[t].st = "pick" /\ task'[t].st = "ok" /\ task'[t].todo = task[t].todo
    BY <1>1, <1>14 DEF IsFinished, TaskRecord
  <2>2. ~Current(t, p)' /\ (Past(t, p)' => Past(t, p))
    BY <1>2, <2>1 DEF Current, Past, Active
  <2>3. QED
    BY <1>2, <1>7, <2>1, <2>2 DEF ServeProgress
<1>15. CASE IsGone(t) \/ IsSent(t)
  <2>1. task'[t].st \in {"gone", "sent"}
    BY <1>1, <1>15 DEF IsGone, IsSent, TaskRecord
  <2>2. QED
    BY <2>1 DEF ServeProgress, Current, Past, Active
<1>16. ~Starts(t)
  BY DEF Starts
<1>17. QED
  BY <1>1, <1>8, <1>9, <1>10, <1>11, <1>12, <1>13, <1>14, <1>15, <1>16 DEF TaskMove

-----------------------------------------------------------------------------

(* AckedIsServed: the client's earlier requests are over when it sends o,  *)
(* and their calls went to other peers.                                    *)

LEMMA OwnWritersBefore ==
  ASSUME WriteProgress, [Next]_vars, NEW o \in Op, NEW p \in Batch[o],
         task[o].st # "idle", OwnWriters(o, p)'
  PROVE  OwnWriters(o, p)
<1> SUFFICES ASSUME NEW q \in Writers(p.id), task[q].st # "idle"
             PROVE  q \in Before[o] \cup {o} /\ task[q].node = task[o].node
  BY DEF OwnWriters
<1>1. q \in Op
  BY DEF Writers
<1>2. task'[q].node = task[q].node /\ task'[q].st # "idle"
  BY <1>1, OpStays
<1>3. q \in Before[o] \cup {o} /\ task'[q].node = task'[o].node
  BY <1>2 DEF OwnWriters, Writers
<1>4. QED
  BY <1>2, <1>3, OpStays

LEMMA OwnWritersSole ==
  ASSUME WriteProgress, ReadInv, NEW o \in Op, NEW p \in Batch[o],
         task[o].st # "idle", OwnWriters(o, p)
  PROVE  SoleWriter(o, p)
<1> SUFFICES ASSUME NEW u \in Task, task[u].st = "local",
                    task[u].node = task[o].node,
                    NEW q \in task[u].left, q.id = p.id
             PROVE  u = o /\ q = p
  BY DEF SoleWriter
<1>1. q \in Points(u)
  BY DEF ReadInv, LeftInShard, InShard
<1>2. CASE u \in Op
  <2>1. q \in Batch[u] /\ u \in Writers(p.id)
    BY <1>1, <1>2 DEF Points, Writers
  <2>2. u \in Before[o] \cup {o}
    BY <2>1 DEF OwnWriters
  <2>3. u \notin Before[o]
    BY DEF ReadInv, BeforeIsOver, Over
  <2>4. QED
    BY <2>1, <2>2, <2>3, RequestAssumption
<1>3. CASE u \in Call
  <2>1. /\ u[1] \in Op /\ task[u[1]].st # "idle"
        /\ task[u[1]].node # u[3] /\ task[u].node = u[3]
    BY <1>3, CallHome
  <2>2. q \in Batch[u[1]]
    BY <1>1, <1>3, IdAssumption DEF Points, Group
  <2>3. u[1] \in Writers(p.id)
    BY <2>1, <2>2 DEF Writers
  <2>4. QED
    BY <2>1, <2>3 DEF OwnWriters
<1>4. QED
  BY <1>2, <1>3 DEF Task

LEMMA ServeInvInit == Init => ServeInv
BY DEF Init, NotBegun, ServeInv, Task

LEMMA ServeInvNext ==
  WriteProgress /\ WriteProgress' /\ ReadInv /\ ServeInv /\ [Next]_vars => ServeInv'
<1> SUFFICES ASSUME WriteProgress, WriteProgress', ReadInv, ServeInv, [Next]_vars,
                    NEW o \in Op, NEW p \in Batch[o], OwnWriters(o, p)'
             PROVE  ServeProgress(o, p)'
  BY DEF ServeInv
<1>1. o \in Task /\ p \in Points(o) /\ task[o].st # "sent"
  BY DEF Task, Points, WriteProgress, WellPlaced
<1>2. CASE task[o].st = "idle"
  BY <1>1, <1>2, ServeBegins
<1>3. CASE task[o].st # "idle"
  <2>1. OwnWriters(o, p)
    BY <1>3, OwnWritersBefore
  <2>2. SoleWriter(o, p) /\ ServeProgress(o, p)
    BY <1>3, <2>1, OwnWritersSole DEF ServeInv
  <2>3. QED
    BY <1>1, <1>3, <2>2, ServeStays
<1>4. QED
  BY <1>2, <1>3

(* A success is a sign that each point is served from the disk.            *)
LEMMA OkServes ==
  ASSUME WriteProgress, ReadInv, NEW t \in Task, task[t].st = "ok",
         NEW p \in Point, ServeProgress(t, p)
  PROVE  Serves(task[t].node, p)
<1>1. task[t].node \in Node /\ TypeOK
  BY HasNode DEF WriteProgress
<1>2. Past(t, p)
  BY DEF ReadInv, OkIsThrough, Past, Current
<1>3. QED
  BY <1>1, <1>2, DurablyServes DEF ServeProgress

(* The peer that answered 200 serves the client's last write of an id,     *)
(* through crashes and restarts, whatever earlier writes that failed or    *)
(* were given up have left in logs and on the network.                     *)
THEOREM AckedIsServedHolds == Spec => []AckedIsServed
<1>1. ASSUME WriteProgress, ReadInv, ServeInv
      PROVE  AckedIsServed
  <2> SUFFICES ASSUME NEW o \in Op, NEW p \in Batch[o], task[o].st = "ok",
                      OwnWriters(o, p)
               PROVE  Serves(task[o].node, p)
    BY DEF AckedIsServed, OwnWriters
  <2>1. p \in Point /\ o \in Task
    BY RequestAssumption DEF Task
  <2>2. QED
    BY <1>1, <2>1, OkServes DEF ServeInv
<1>2. Init => ServeInv
  BY ServeInvInit
<1>3. WriteProgress /\ WriteProgress' /\ ReadInv /\ ServeInv /\ [Next]_vars => ServeInv'
  BY ServeInvNext
<1>4. WriteProgress /\ ReadInv /\ ServeInv => AckedIsServed
  BY <1>1
<1>5. QED
  BY <1>2, <1>3, <1>4, WriteProgressHolds, ReadInvHolds, PTL DEF Spec

-----------------------------------------------------------------------------

(* SerialWritesConverge: with two peers, the one call of a request for a   *)
(* shard is over when the request has gone past the shard with success.    *)

LEMMA RemotesMoves ==
  ASSUME WriteProgress, [Next]_vars, NEW n \in Node
  PROVE  \/ remotes'[n] = remotes[n] \/ remotes'[n] = <<>>
         \/ \E m \in Node : /\ \A i \in 1..Len(remotes[n]) : remotes[n][i] # m
                            /\ remotes'[n] = Append(remotes[n], m)
<1>1. TypeOK
  BY DEF WriteProgress
<1>2. ASSUME NEW k \in Node, Restart(k)
      PROVE  remotes'[n] = remotes[n] \/ remotes'[n] = <<>>
  BY <1>1, <1>2 DEF Restart, TypeOK
<1>3. ASSUME NEW k \in Node, NEW m \in Node, AddRemoteShards(k, m)
      PROVE  \/ remotes'[n] = remotes[n]
             \/ /\ \A i \in 1..Len(remotes[n]) : remotes[n][i] # m
                /\ remotes'[n] = Append(remotes[n], m)
  BY <1>1, <1>3 DEF AddRemoteShards, TypeOK
<1>4. CASE remotes' = remotes
  BY <1>4
<1>5. QED
  BY <1>2, <1>3, <1>4 DEF Next, LocalStep, RemoteStep, PickShard, InsertPoint, Flush,
     LocalFails, Judge, Finish, CallRemote, Answered, CallFails, ClientGone, Put, Serve,
     Begin, Crash, vars

LEMMA AppendDistinct ==
  ASSUME NEW l \in Seq(Node), NEW m \in Node,
         \A i, j \in 1..Len(l) : l[i] = l[j] => i = j,
         \A i \in 1..Len(l) : l[i] # m
  PROVE  \A i, j \in 1..Len(Append(l, m)) :
           Append(l, m)[i] = Append(l, m)[j] => i = j
OBVIOUS

LEMMA RemotesStayDistinct ==
  ASSUME WriteProgress, RemotesDistinct, [Next]_vars
  PROVE  RemotesDistinct'
<1> SUFFICES ASSUME NEW n \in Node
             PROVE  \A i, j \in 1..Len(remotes'[n]) :
                      remotes'[n][i] = remotes'[n][j] => i = j
  BY DEF RemotesDistinct
<1> DEFINE l == remotes[n]
<1>1. l \in Seq(Node) /\ \A i, j \in 1..Len(l) : l[i] = l[j] => i = j
  BY DEF WriteProgress, TypeOK, RemotesDistinct
<1>2. \/ remotes'[n] = l \/ remotes'[n] = <<>>
      \/ \E m \in Node : /\ \A i \in 1..Len(l) : l[i] # m
                         /\ remotes'[n] = Append(l, m)
  BY RemotesMoves
<1> HIDE DEF l
<1>3. CASE remotes'[n] = l
  BY <1>1, <1>3
<1>4. CASE remotes'[n] = <<>>
  BY <1>4
<1>5. CASE \E m \in Node : /\ \A i \in 1..Len(l) : l[i] # m
                          /\ remotes'[n] = Append(l, m)
  <2>1. PICK m \in Node : /\ \A i \in 1..Len(l) : l[i] # m
                          /\ remotes'[n] = Append(l, m)
    BY <1>5
  <2>2. \A i, j \in 1..Len(Append(l, m)) : Append(l, m)[i] = Append(l, m)[j] => i = j
    BY <1>1, <2>1, AppendDistinct
  <2>3. QED
    BY <2>1, <2>2
<1>6. QED
  BY <1>2, <1>3, <1>4, <1>5

LEMMA OneRemote ==
  ASSUME TypeOK, WellPlaced, RemotesDistinct, TwoPeers, NEW n \in Node
  PROVE  Len(remotes[n]) <= 1
<1>1. PICK a, b \in Node : Node = {a, b}
  BY DEF TwoPeers
<1> DEFINE l == remotes[n]
<1>2. l \in Seq(Node) /\ Len(l) \in Nat
  BY DEF TypeOK
<1>3. /\ \A i \in 1..Len(l) : l[i] # n
      /\ \A i, j \in 1..Len(l) : l[i] = l[j] => i = j
  BY DEF WellPlaced, RemotesDistinct
<1> HIDE DEF l
<1>4. ASSUME Len(l) >= 2 PROVE FALSE
  <2>1. 1 \in 1..Len(l) /\ 2 \in 1..Len(l)
    BY <1>2, <1>4
  <2>2. l[1] \in {a, b} /\ l[2] \in {a, b} /\ l[1] # n /\ l[2] # n /\ l[1] # l[2]
    BY <1>1, <1>2, <1>3, <2>1
  <2>3. QED
    BY <1>1, <2>2
<1>5. QED
  BY <1>2, <1>4 DEF l

(* An execution goes past a shard when the shard's replicas are judged.    *)
LEMMA PastMoves ==
  ASSUME WriteProgress, [Next]_vars, NEW t \in Task, NEW p \in Points(t), Past(t, p)'
  PROVE  \/ Past(t, p)
         \/ IsJudged(t) /\ Current(t, p) /\ task'[t].st = "pick"
<1>1. TaskMove(t) /\ task[t] \in TaskRecord
  BY TaskMoves DEF WriteProgress, TypeOK
<1>2. task[t].st \notin {"idle", "sent"} => task'[t].node = task[t].node
  BY RunStays
<1>3. CASE Starts(t) \/ IsSent(t)
  BY <1>1, <1>3 DEF Starts, IsSent, Past, Active, TaskRecord, Route
<1>4. CASE task'[t] = task[t]
  BY <1>4 DEF Past, Current, Active, Route
<1>5. CASE TakesShard(t)
  BY <1>5 DEF TakesShard, Past, Current, Active, Route
<1>6. ASSUME NEW q \in Point, Inserts(t, q)
      PROVE  Past(t, p)
  BY <1>1, <1>6 DEF Inserts, Past, Current, Active, Route, TaskRecord
<1>7. CASE LeavesLocal(t)
  BY <1>1, <1>7 DEF LeavesLocal, Past, Current, Active, Route, TaskRecord
<1>8. CASE Calls(t) \/ IsAnswered(t)
  <2>1. /\ task[t].st \in {"remote", "await"} /\ task'[t].st \in {"remote", "await"}
        /\ task'[t].shard = task[t].shard /\ task'[t].todo = task[t].todo
        /\ task'[t].node = task[t].node
    BY <1>1, <1>8 DEF Calls, IsAnswered, TaskRecord
  <2>2. QED
    BY <2>1 DEF Past, Current, Active, Route
<1>9. CASE IsJudged(t)
  <2>1. /\ task[t].st = "remote" /\ task'[t].st \in {"pick", "err"}
        /\ task'[t].todo = task[t].todo /\ task'[t].node = task[t].node
    BY <1>1, <1>9 DEF IsJudged, TaskRecord
  <2>2. QED
    BY <1>9, <2>1 DEF Past, Active, Route
<1>10. CASE IsFinished(t)
  BY <1>1, <1>10 DEF IsFinished, Past, Current, Active, Route, TaskRecord
<1>11. CASE IsGone(t)
  BY <1>1, <1>11 DEF IsGone, Past, Active, TaskRecord
<1>12. QED
  BY <1>1, <1>3, <1>4, <1>5, <1>6, <1>7, <1>8, <1>9, <1>10, <1>11 DEF TaskMove

(* A call that succeeded is over unless its request makes it again.        *)
LEMMA CalledStays ==
  ASSUME WriteProgress, [Next]_vars, NEW o \in Op, NEW s \in Shard,
         task[o].st # "idle", Called(o, s),
         task[o].st # "remote" \/ task[o].peers = <<>> \/ task[o].shard # s
  PROVE  Called(o, s)'
<1> SUFFICES ASSUME NEW m \in Node \ {task[o].node}
             PROVE  task'[<<o, s, m>>].st = "ok"
  BY OpStays DEF Called
<1> DEFINE c == <<o, s, m>>
<1>1. c \in Call /\ c \in Task /\ c \notin Op /\ c[1] = o /\ c[2] = s
  BY IdAssumption DEF Call, Task
<1>2. task[c].st = "ok"
  BY DEF Called
<1> HIDE DEF c
<1>3. TaskMove(c)
  BY <1>1, TaskMoves
<1>4. ~IsSent(c)
  BY <1>1 DEF IsSent
<1>5. task'[c] = task[c]
  BY <1>1, <1>2, <1>3, <1>4 DEF TaskMove, Starts, TakesShard, Inserts, LeavesLocal, Calls,
     IsAnswered, IsJudged, IsFinished, IsGone, Active
<1>6. QED
  BY <1>2, <1>5 DEF c

(* The three parts of CallProgress, one lemma each.                        *)

LEMMA OneCallLeft ==
  ASSUME WriteProgress, RemotesDistinct, TwoPeers, [Next]_vars,
         NEW o \in Op, CallProgress(o), task'[o].st \in {"local", "remote", "await"}
  PROVE  task'[o].shard \notin task'[o].todo /\ Len(task'[o].peers) <= 1
<1>1. /\ TypeOK /\ WellPlaced /\ o \in Task /\ TaskMove(o)
      /\ task[o] \in TaskRecord /\ task[o].peers \in Seq(Node)
  BY TaskMoves DEF WriteProgress, TypeOK, Task, TaskRecord
<1>2. CASE TakesShard(o)
  <2>1. task[o].node \in Node
    BY <1>1, <1>2, HasNode DEF TakesShard
  <2>2. QED
    BY <1>1, <1>2, <2>1, OneRemote DEF TakesShard
<1>3. CASE /\ task[o].st \in {"local", "remote", "await"}
           /\ task'[o].shard = task[o].shard /\ task'[o].todo = task[o].todo
           /\ \/ task'[o].peers = task[o].peers
              \/ task[o].peers # <<>> /\ task'[o].peers = Tail(task[o].peers)
  <2>1. task[o].shard \notin task[o].todo /\ Len(task[o].peers) <= 1
    BY <1>3 DEF CallProgress
  <2>2. ASSUME task[o].peers # <<>>
        PROVE  Len(Tail(task[o].peers)) <= 1
    BY <1>1, <2>1, <2>2
  <2>3. QED
    BY <1>3, <2>1, <2>2
<1>4. CASE task'[o] = task[o] \/ LeavesLocal(o)
  BY <1>1, <1>3, <1>4 DEF LeavesLocal, TaskRecord
<1>5. ASSUME NEW p \in Point, Inserts(o, p)
      PROVE  task'[o].shard \notin task'[o].todo /\ Len(task'[o].peers) <= 1
  BY <1>1, <1>3, <1>5 DEF Inserts, TaskRecord
<1>6. CASE Calls(o) \/ IsAnswered(o)
  <2>1. task[o].peers # <<>>
    BY <1>1, <1>6 DEF Calls, IsAnswered, WellPlaced
  <2>2. QED
    BY <1>1, <1>3, <1>6, <2>1 DEF Calls, IsAnswered, TaskRecord
<1>7. ~Starts(o) /\ ~IsSent(o) /\ ~IsJudged(o) /\ ~IsFinished(o) /\ ~IsGone(o)
  BY <1>1, IdAssumption DEF Starts, IsSent, IsJudged, IsFinished, IsGone, TaskRecord
<1>8. QED
  BY <1>1, <1>2, <1>4, <1>5, <1>6, <1>7 DEF TaskMove

LEMMA CountedIsCalled ==
  ASSUME WriteProgress, TwoPeers, [Next]_vars,
         NEW o \in Op, CallProgress(o),
         task'[o].st \in {"remote", "await"}, task'[o].remoteOk > 0
  PROVE  /\ task'[o].peers = <<>>
         /\ \A s \in Shard : s = task'[o].shard => Called(o, s)'
<1> SUFFICES ASSUME NEW s \in Shard, s = task'[o].shard
             PROVE  task'[o].peers = <<>> /\ Called(o, s)'
  <2>1. task'[o].shard \in Shard
    BY NextProgress DEF WriteProgress, Progress, Task
  <2>2. QED
    BY <2>1
<1>1. /\ TypeOK /\ WellPlaced /\ Progress(o) /\ o \in Task /\ TaskMove(o)
      /\ task[o] \in TaskRecord /\ task[o].peers \in Seq(Node) /\ task[o].remoteOk \in Nat
  BY TaskMoves DEF WriteProgress, TypeOK, Task, TaskRecord
<1>2. CASE task'[o] = task[o]
  <2>1. task[o].peers = <<>> /\ Called(o, s) /\ task[o].st # "idle"
    BY <1>2 DEF CallProgress
  <2>2. Called(o, s)'
    BY <2>1, CalledStays
  <2>3. QED
    BY <1>2, <2>1, <2>2
<1>3. CASE IsAnswered(o)
  <2>1. task[o].st = "await" /\ task[o].peers # <<>> /\ Len(task[o].peers) <= 1
    BY <1>1, <1>3 DEF IsAnswered, WellPlaced, CallProgress
  <2>2. task[o].remoteOk = 0
    <3>1. ~(task[o].remoteOk > 0)
      BY <2>1 DEF CallProgress
    <3>2. QED
      BY <1>1, <3>1
  <2> DEFINE m == Head(task[o].peers)
  <2>3. /\ task'[o].peers = Tail(task[o].peers) /\ s = task[o].shard
    BY <1>1, <1>3 DEF IsAnswered, TaskRecord
  <2>4. task[<<o, s, m>>].st = "ok"
    <3>1. CASE task'[o] = [task[o] EXCEPT !.st = "remote", !.peers = Tail(@)]
      <4>1. task'[o].remoteOk = 0
        BY <1>1, <2>2, <3>1 DEF TaskRecord
      <4>2. QED
        BY <4>1
    <3>2. QED
      BY <1>3, <2>3, <3>1 DEF IsAnswered
  <2>5. Tail(task[o].peers) = <<>> /\ m \in Node /\ m = task[o].peers[1]
        /\ 1 \in 1..Len(task[o].peers)
    BY <1>1, <2>1
  <2>6. m # task[o].node /\ task[o].node \in Node
    BY <1>1, <2>1, <2>5, HasNode DEF WellPlaced
  <2>7. Called(o, s)
    <3> HIDE DEF m
    <3>1. Node \ {task[o].node} = {m}
      BY <2>5, <2>6 DEF TwoPeers
    <3>2. QED
      BY <2>4, <3>1 DEF Called
  <2>8. Called(o, s)'
    BY <2>1, <2>7, CalledStays
  <2>9. QED
    BY <2>3, <2>5, <2>8
<1>4. ~TakesShard(o)
  BY DEF TakesShard
<1>5. ~LeavesLocal(o)
  <2> SUFFICES ASSUME LeavesLocal(o)
               PROVE  FALSE
    OBVIOUS
  <2>1. task[o].st = "local" /\ task'[o].remoteOk = task[o].remoteOk
    BY <1>1 DEF LeavesLocal, TaskRecord
  <2>2. task[o].remoteOk = 0
    BY <1>1, <2>1 DEF Progress
  <2>3. QED
    BY <2>1, <2>2
<1>6. ~Calls(o)
  BY <1>1 DEF Calls, CallProgress, TaskRecord
<1>7. ~\E p \in Point : Inserts(o, p)
  BY <1>1 DEF Inserts, TaskRecord
<1>8. ~Starts(o) /\ ~IsSent(o) /\ ~IsJudged(o) /\ ~IsFinished(o) /\ ~IsGone(o)
  BY <1>1, IdAssumption DEF Starts, IsSent, IsJudged, IsFinished, IsGone, TaskRecord
<1>9. QED
  BY <1>1, <1>2, <1>3, <1>4, <1>5, <1>6, <1>7, <1>8 DEF TaskMove

LEMMA PastIsCalled ==
  ASSUME WriteProgress, [Next]_vars, NEW o \in Op, CallProgress(o),
         task'[o].need = 2, NEW p \in Batch[o], Past(o, p)'
  PROVE  \A s \in Shard : s = Route(task'[o].node, p.id) => Called(o, s)'
<1> SUFFICES ASSUME NEW s \in Shard, s = Route(task'[o].node, p.id)
             PROVE  Called(o, s)'
  OBVIOUS
<1>1. o \in Task /\ p \in Points(o) /\ task[o] \in TaskRecord
  BY DEF Task, Points, WriteProgress, TypeOK
<1>2. task[o].st # "idle"
  BY <1>1, PastMoves DEF Past, Active, Current
<1>3. task'[o].node = task[o].node /\ task[o].need = 2
  BY <1>2, OpStays
<1>4. s = Route(task[o].node, p.id)
  BY <1>3
<1>5. CASE Past(o, p)
  <2>1. Called(o, s)
    BY <1>3, <1>4, <1>5 DEF CallProgress
  <2>2. task[o].st # "remote" \/ task[o].peers = <<>> \/ task[o].shard # s
    BY <1>4, <1>5 DEF Past, Current
  <2>3. QED
    BY <1>2, <2>1, <2>2, CalledStays
<1>6. CASE IsJudged(o) /\ Current(o, p) /\ task'[o].st = "pick"
  <2>1. task[o].remoteOk + 1 >= 2 /\ task[o].st = "remote" /\ task[o].peers = <<>>
    BY <1>1, <1>3, <1>6 DEF IsJudged, TaskRecord
  <2>2. task[o].remoteOk > 0
    BY <1>1, <2>1 DEF TaskRecord
  <2>3. Called(o, s)
    BY <1>4, <1>6, <2>1, <2>2 DEF CallProgress, Current
  <2>4. QED
    BY <1>2, <2>1, <2>3, CalledStays
<1>7. QED
  BY <1>1, <1>5, <1>6, PastMoves

LEMMA CallsStay ==
  ASSUME WriteProgress, RemotesDistinct, TwoPeers, [Next]_vars,
         NEW o \in Op, CallProgress(o)
  PROVE  CallProgress(o)'
<1>1. task'[o].st \in {"local", "remote", "await"} =>
        task'[o].shard \notin task'[o].todo /\ Len(task'[o].peers) <= 1
  BY OneCallLeft
<1>2. task'[o].st \in {"remote", "await"} /\ task'[o].remoteOk > 0 =>
        /\ task'[o].peers = <<>>
        /\ \A s \in Shard : s = task'[o].shard => Called(o, s)'
  BY CountedIsCalled
<1>3. task'[o].need = 2 =>
        \A p \in Batch[o] : Past(o, p)' =>
          \A s \in Shard : s = Route(task'[o].node, p.id) => Called(o, s)'
  BY PastIsCalled
<1>4. WriteProgress'
  BY NextProgress
<1>5. task'[o].st \in {"remote", "await"} => task'[o].shard \in Shard
  BY <1>4 DEF WriteProgress, Progress, Task
<1>6. \A p \in Batch[o] : Past(o, p)' => Route(task'[o].node, p.id) \in Shard
  <2> SUFFICES ASSUME NEW p \in Batch[o], Past(o, p)'
               PROVE  Route(task'[o].node, p.id) \in Shard
    OBVIOUS
  <2>1. p.id \in PointId
    BY RequestAssumption DEF Point
  <2>2. task'[o].node \in Node
    BY <1>4 DEF WriteProgress, WellPlaced, TypeOK, TaskRecord, Past, Active, Task
  <2>3. QED
    BY <2>1, <2>2, RouteType
<1>7. CASE task'[o].st \in {"remote", "await"} /\ task'[o].remoteOk > 0
  BY <1>1, <1>2, <1>3, <1>5, <1>6, <1>7 DEF CallProgress, Called, Route
<1>8. CASE ~(task'[o].st \in {"remote", "await"} /\ task'[o].remoteOk > 0)
  BY <1>1, <1>3, <1>6, <1>8 DEF CallProgress, Called, Route
<1>9. QED
  BY <1>7, <1>8

(* A write that the client had to wait for before o is answered, and with  *)
(* it the one call that carried it.                                        *)
LEMMA SerialWritersBefore ==
  ASSUME WriteProgress, ReadInv, [Next]_vars, NEW o \in Op, NEW p \in Batch[o],
         task[o].st # "idle", SerialWriters(o, p)'
  PROVE  SerialWriters(o, p)
<1> SUFFICES ASSUME NEW q \in Writers(p.id), task[q].st # "idle", q # o
             PROVE  q \in Before[o] /\ task[q].st = "ok" /\ task[q].need = 2
  BY DEF SerialWriters
<1>1. q \in Op /\ q \in Task
  BY DEF Writers, Task
<1>2. task'[q].st # "idle"
  BY <1>1, OpStays
<1>3. q \in Before[o] /\ task'[q].st = "ok" /\ task'[q].need = 2
  BY <1>2 DEF SerialWriters, Writers
<1>4. Over(q)
  BY <1>3 DEF ReadInv, BeforeIsOver
<1>5. task'[q] = task[q]
  BY <1>1, <1>4, OverStays
<1>6. QED
  BY <1>3, <1>5

LEMMA OldCallsOver ==
  ASSUME WriteProgress, ReadInv, \A q \in Op : CallProgress(q),
         NEW o \in Op, NEW p \in Batch[o], SerialWriters(o, p),
         NEW c \in Call, task[c].st = "local", NEW q \in task[c].left, q.id = p.id
  PROVE  c[1] = o /\ q = p /\ c[2] = Route(task[o].node, p.id)
<1>1. c \in Task /\ c \notin Op /\ c[1] \in Op /\ c[2] \in Shard /\ c[3] \in Node
  BY IdAssumption DEF Call, Task
<1>2. q \in Points(c)
  BY <1>1 DEF ReadInv, LeftInShard, InShard
<1>3. q \in Batch[c[1]] /\ Route(task[c[1]].node, q.id) = c[2]
  BY <1>1, <1>2 DEF Points, Group
<1>4. c[1] \in Writers(p.id)
  BY <1>1, <1>3 DEF Writers
<1>5. task[c[1]].st # "idle" /\ task[c[1]].node # c[3]
  BY CallHome
<1>6. c[1] = o
  <2> SUFFICES ASSUME task[c[1]].st = "ok", task[c[1]].need = 2
               PROVE  FALSE
    BY <1>4, <1>5 DEF SerialWriters
  <2>1. Past(c[1], q)
    BY <1>1 DEF ReadInv, OkIsThrough, Past, Current, Task
  <2>2. Called(c[1], c[2])
    BY <1>1, <1>3, <2>1 DEF CallProgress
  <2>3. c = <<c[1], c[2], c[3]>>
    BY DEF Call
  <2>4. task[c].st = "ok"
    BY <1>1, <1>5, <2>2, <2>3 DEF Called
  <2>5. QED
    BY <2>4
<1>7. QED
  BY <1>3, <1>6, RequestAssumption

LEMMA SerialSole ==
  ASSUME WriteProgress, ReadInv, \A q \in Op : CallProgress(q),
         NEW o \in Op, NEW p \in Batch[o], task[o].st # "idle", SerialWriters(o, p),
         NEW t \in Task, task[t].st \notin {"idle", "sent"},
         t # o => t \in Call /\ t[1] = o /\ p \in Points(t)
  PROVE  SoleWriter(t, p)
<1> SUFFICES ASSUME NEW u \in Task, task[u].st = "local",
                    task[u].node = task[t].node,
                    NEW q \in task[u].left, q.id = p.id
             PROVE  u = t /\ q = p
  BY DEF SoleWriter
<1>1. CASE u \in Op
  <2>1. q \in Points(u)
    BY DEF ReadInv, LeftInShard, InShard
  <2>2. q \in Batch[u] /\ u \in Writers(p.id)
    BY <1>1, <2>1 DEF Points, Writers
  <2>3. u = o /\ q = p
    BY <2>2, RequestAssumption DEF SerialWriters
  <2>4. t = o
    BY <2>3, CallHome
  <2>5. QED
    BY <2>3, <2>4
<1>2. CASE u \in Call
  <2>1. u[1] = o /\ q = p /\ u[2] = Route(task[o].node, p.id)
    BY <1>2, OldCallsOver
  <2>2. task[u].node = u[3] /\ task[o].node # u[3]
    BY <1>2, <2>1, CallHome
  <2>3. t \in Call /\ t[1] = o /\ p \in Points(t)
    BY <2>2
  <2>4. task[t].node = t[3]
    BY <2>3, CallHome
  <2>5. t[2] = Route(task[o].node, p.id)
    BY <2>3, IdAssumption DEF Points, Group
  <2>6. u = <<u[1], u[2], u[3]>> /\ t = <<t[1], t[2], t[3]>>
    BY <1>2, <2>3 DEF Call
  <2>7. QED
    BY <2>1, <2>2, <2>3, <2>4, <2>5, <2>6
<1>3. QED
  BY <1>1, <1>2 DEF Task

LEMMA SerialInvInit == Init => SerialInv
<1> SUFFICES ASSUME Init
             PROVE  SerialInv
  OBVIOUS
<1>1. RemotesDistinct
  BY PlacementAssumption DEF Init, RemotesDistinct
<1>2. \A o \in Op : task[o] = NotBegun
  BY DEF Init, Task
<1>3. \A o \in Op : CallProgress(o)
  BY <1>2 DEF NotBegun, CallProgress
<1>4. QED
  BY <1>1, <1>2, <1>3 DEF NotBegun, SerialInv

(* The calls of a request that was not sent are not made by its first step. *)
LEMMA CallWaits ==
  ASSUME WriteProgress, [Next]_vars, NEW c \in Call,
         c[1] \in Op, task[c[1]].st = "idle"
  PROVE  task'[c].st = "idle"
<1>1. c \in Task /\ c \notin Op /\ task[c] \in TaskRecord
  BY IdAssumption DEF Task, WriteProgress, TypeOK
<1>2. task[c[1]].node = None
  BY DEF WriteProgress, WellPlaced
<1>3. task[c].st = "idle"
  BY <1>2, IdAssumption DEF WriteProgress, WellPlaced
<1>4. TaskMove(c)
  BY <1>1, TaskMoves
<1>5. QED
  BY <1>1, <1>3, <1>4 DEF TaskMove, Starts, IsSent, TakesShard, Inserts, LeavesLocal, Calls,
     IsAnswered, IsJudged, IsFinished, IsGone, Active

LEMMA SerialInvNext ==
  ASSUME WriteProgress, WriteProgress', ReadInv, SerialInv, [Next]_vars
  PROVE  SerialInv'
<1>1. RemotesDistinct'
  BY RemotesStayDistinct DEF SerialInv
<1>2. ASSUME TwoPeers, NEW o \in Op
      PROVE  CallProgress(o)'
  BY <1>2, CallsStay DEF SerialInv
<1>3. ASSUME TwoPeers, NEW o \in Op, NEW p \in Batch[o],
             task'[o].st # "idle", SerialWriters(o, p)'
      PROVE  /\ ServeProgress(o, p)'
             /\ \A c \in Call : c[1] = o /\ p \in Points(c)' => ServeProgress(c, p)'
  <2>1. o \in Task /\ p \in Points(o) /\ task[o].st # "sent"
    BY DEF Task, Points, WriteProgress, WellPlaced
  <2>2. CASE task[o].st = "idle"
    <3>1. ServeProgress(o, p)'
      BY <2>1, <2>2, ServeBegins
    <3>2. ASSUME NEW c \in Call, c[1] = o
          PROVE  ServeProgress(c, p)'
      <4>1. task'[c].st = "idle"
        BY <2>2, <3>2, CallWaits
      <4>2. QED
        BY <4>1 DEF ServeProgress, Past, Current, Active
    <3>3. QED
      BY <3>1, <3>2
  <2>3. CASE task[o].st # "idle"
    <3>1. SerialWriters(o, p) /\ \A q \in Op : CallProgress(q)
      BY <1>3, <2>3, SerialWritersBefore DEF SerialInv
    <3>2. ServeProgress(o, p)'
      <4>1. SoleWriter(o, p)
        BY <2>1, <2>3, <3>1, SerialSole
      <4>2. ServeProgress(o, p)
        BY <1>3, <2>3, <3>1 DEF SerialInv
      <4>3. QED
        BY <2>1, <2>3, <4>1, <4>2, ServeStays
    <3>3. ASSUME NEW c \in Call, c[1] = o, p \in Points(c)'
          PROVE  ServeProgress(c, p)'
      <4>1. c \in Task /\ c \notin Op
        BY IdAssumption DEF Task
      <4>2. p \in Points(c)
        BY <2>3, <3>3, <4>1, OpStays DEF Points, Group, Route
      <4>3. CASE task[c].st \in {"idle", "sent"}
        BY <4>1, <4>2, <4>3, ServeBegins
      <4>4. CASE task[c].st \notin {"idle", "sent"}
        <5>1. SoleWriter(c, p)
          BY <2>3, <3>1, <3>3, <4>1, <4>2, <4>4, SerialSole
        <5>2. ServeProgress(c, p)
          BY <1>3, <2>3, <3>1, <3>3, <4>2 DEF SerialInv
        <5>3. QED
          BY <4>1, <4>2, <4>4, <5>1, <5>2, ServeStays
      <4>5. QED
        BY <4>3, <4>4
    <3>4. QED
      BY <3>2, <3>3
  <2>4. QED
    BY <2>2, <2>3
<1>4. TwoPeers' = TwoPeers
  BY DEF TwoPeers
<1>5. QED
  BY <1>1, <1>2, <1>3, <1>4 DEF SerialInv

(* With two peers, a client that has the 200 of each of its writes of an   *)
(* id before it sends the next, each from a peer that knew the other one,  *)
(* leaves both peers serving the last of them, for good: no call of an     *)
(* earlier write is left that could overtake it, whoever crashed since.    *)
THEOREM SerialWritesConvergeHolds == Spec => []SerialWritesConverge
<1>1. ASSUME WriteProgress, ReadInv, SerialInv
      PROVE  SerialWritesConverge
  <2> SUFFICES ASSUME NEW o \in Op, NEW p \in Batch[o],
                      \A q \in Writers(p.id) :
                        \/ q \in Before[o] \cup {o} /\ task[q].st = "ok" /\ task[q].need = 2
                        \/ task[q].st = "idle",
                      task[o].st = "ok", p.id \in NumericId, TwoPeers,
                      NEW n \in Node
               PROVE  Serves(n, p)
    BY DEF SerialWritesConverge, TwoPeers
  <2>1. p \in Point /\ o \in Task /\ p.id \in PointId
    BY RequestAssumption DEF Task, Point
  <2>2. SerialWriters(o, p) /\ task[o].need = 2
    BY DEF SerialWriters, Writers
  <2>3. CASE n = task[o].node
    BY <1>1, <2>1, <2>2, <2>3, OkServes DEF SerialInv
  <2>4. CASE n # task[o].node
    <3> DEFINE s == Route(task[o].node, p.id)
               c == <<o, s, n>>
    <3>1. task[o].node \in Node
      BY <1>1, <2>1, HasNode
    <3>2. s \in Shard
      BY <2>1, <3>1, RouteType
    <3>3. c \in Call /\ c \in Task /\ c \notin Op /\ c[1] = o /\ c[2] = s /\ c[3] = n
      BY <3>2, IdAssumption DEF Call, Task
    <3>4. Past(o, p)
      BY <1>1, <2>1 DEF ReadInv, OkIsThrough, Past, Current
    <3>5. task[c].st = "ok"
      BY <1>1, <2>2, <2>4, <3>4 DEF SerialInv, CallProgress, Called
    <3>6. p \in Points(c)
      BY <3>3 DEF Points, Group
    <3> HIDE DEF c
    <3>7. ServeProgress(c, p)
      BY <1>1, <2>2, <3>3, <3>6 DEF SerialInv
    <3>8. Serves(task[c].node, p)
      BY <1>1, <2>1, <3>3, <3>5, <3>7, OkServes
    <3>9. task[c].node = n
      BY <1>1, <3>3, <3>5, CallHome
    <3>10. QED
      BY <3>8, <3>9
  <2>5. QED
    BY <2>3, <2>4
<1>2. Init => SerialInv
  BY SerialInvInit
<1>3. WriteProgress /\ WriteProgress' /\ ReadInv /\ SerialInv /\ [Next]_vars => SerialInv'
  BY SerialInvNext
<1>4. WriteProgress /\ ReadInv /\ SerialInv => SerialWritesConverge
  BY <1>1
<1>5. QED
  BY <1>2, <1>3, <1>4, WriteProgressHolds, ReadInvHolds, PTL DEF Spec
=============================================================================
