-------------------------- MODULE ListPointsProofs --------------------------
(* Theorems about ListPoints, for every value of its constants, from those *)
(* about the writes that go on beside the list.                            *)
EXTENDS ListPoints, UpsertReadProofs, WellFoundedInduction

(* A set of naturals has a least element, and a bounded one a greatest.    *)
LEMMA Least ==
  ASSUME NEW T, T \subseteq Nat, T # {}
  PROVE  \E x \in T : \A y \in T : x <= y
<1> DEFINE R == {ss \in Nat \X Nat : ss[1] < ss[2]}
<1>1. IsWellFoundedOn(R, Nat)
  BY NatLessThanWellFounded DEF OpToRel
<1>2. \A x, y \in Nat : <<y, x>> \in R <=> y < x
  OBVIOUS
<1> HIDE DEF R
<1>3. PICK x \in T : \A y \in T : ~(<<y, x>> \in R)
  BY <1>1, WFMin
<1>4. ASSUME NEW y \in T
      PROVE  x <= y
  <2>1. x \in Nat /\ y \in Nat /\ ~(<<y, x>> \in R)
    BY <1>3
  <2>2. ~(y < x)
    BY <1>2, <2>1
  <2>3. QED
    BY <2>1, <2>2
<1>5. QED
  BY <1>4

LEMMA Greatest ==
  ASSUME NEW k \in Nat, NEW T, T \subseteq 0..k, T # {}
  PROVE  \E x \in T : \A y \in T : y <= x
<1> DEFINE D == {k - x : x \in T}
<1>0. \A x \in T : x \in 0..k
  OBVIOUS
<1>1. D \subseteq Nat /\ D # {}
  BY <1>0
<1>2. PICK d \in D : \A e \in D : d <= e
  <2> HIDE DEF D
  <2>1. QED
    BY <1>1, Least
<1>3. PICK x \in T : d = k - x
  OBVIOUS
<1>4. \A y \in T : k - x <= k - y
  BY <1>2, <1>3
<1>5. \A y \in T : y <= x
  BY <1>4
<1>6. QED
  BY <1>5

(* What a scan of a segment returns.                                       *)
LastIn(l) ==
  {l[i] : i \in {k \in 1..Len(l) : \A j \in (k + 1)..Len(l) : l[j].id # l[k].id}}

LEMMA LastInIs ==
  ASSUME NEW l \in Seq(Point)
  PROVE  /\ \A p \in LastIn(l) :
              p \in Point /\ \E k \in 1..Len(l) :
                l[k] = p /\ \A j \in 1..Len(l) : l[j].id = p.id => j <= k
         /\ \A p, q \in LastIn(l) : p.id = q.id => p = q
         /\ \A i \in 1..Len(l) : \E q \in LastIn(l) : q.id = l[i].id
<1>1. ASSUME NEW p \in LastIn(l)
      PROVE  p \in Point /\ \E k \in 1..Len(l) :
               l[k] = p /\ \A j \in 1..Len(l) : l[j].id = p.id => j <= k
  <2>1. PICK k \in 1..Len(l) :
          p = l[k] /\ \A j \in (k + 1)..Len(l) : l[j].id # l[k].id
    BY DEF LastIn
  <2>2. ASSUME NEW j \in 1..Len(l), l[j].id = p.id
        PROVE  j <= k
    <3>1. j \notin (k + 1)..Len(l)
      BY <2>1, <2>2
    <3>2. QED
      BY <3>1
  <2>3. QED
    BY <2>1, <2>2
<1>2. ASSUME NEW p \in LastIn(l), NEW q \in LastIn(l), p.id = q.id
      PROVE  p = q
  <2>1. PICK k \in 1..Len(l) : l[k] = p /\ \A j \in 1..Len(l) : l[j].id = p.id => j <= k
    BY <1>1
  <2>2. PICK m \in 1..Len(l) : l[m] = q /\ \A j \in 1..Len(l) : l[j].id = q.id => j <= m
    BY <1>1
  <2>3. k <= m /\ m <= k
    BY <1>2, <2>1, <2>2
  <2>4. k = m
    BY <2>3
  <2>5. QED
    BY <2>1, <2>2, <2>4
<1>3. ASSUME NEW i \in 1..Len(l)
      PROVE  \E q \in LastIn(l) : q.id = l[i].id
  <2> DEFINE T == {j \in 1..Len(l) : l[j].id = l[i].id}
  <2>1. T \subseteq 0..Len(l) /\ i \in T /\ Len(l) \in Nat
    OBVIOUS
  <2>2. PICK k \in T : \A j \in T : j <= k
    <3> HIDE DEF T
    <3>1. QED
      BY <2>1, Greatest
  <2>3. \A j \in (k + 1)..Len(l) : l[j].id # l[k].id
    BY <2>2
  <2>4. l[k] \in LastIn(l)
    BY <2>3 DEF LastIn
  <2>5. QED
    BY <2>4
<1>4. QED
  BY <1>1, <1>2, <1>3

LEMMA ContentsIs ==
  ASSUME TypeOK, NEW n \in Node, NEW s \in Shard
  PROVE  Contents(n, s) = LastIn(log[n][s]) /\ log[n][s] \in Seq(Point)
BY DEF TypeOK, Contents, LastIn

LEMMA NewestIs ==
  ASSUME TypeOK, NEW n \in Node, NEW id \in PointId
  PROVE  /\ Newest(n, id) \in Nat
         /\ Newest(n, id) \in Versions(n, id) \cup {0}
         /\ \A j \in Versions(n, id) : j <= Newest(n, id)
<1> DEFINE l == log[n][Route(n, id)]
           T == Versions(n, id) \cup {0}
<1>1. l \in Seq(Point) /\ Len(l) \in Nat
  BY RouteType DEF TypeOK
<1>2. Versions(n, id) \subseteq 1..Len(l)
  BY DEF Versions
<1>3. T \subseteq 0..Len(l) /\ T # {}
  BY <1>1, <1>2
<1>4. PICK x \in T : \A y \in T : y <= x
  <2> HIDE DEF l, T
  <2>1. QED
    BY <1>1, <1>3, Greatest
<1>5. x \in 0..Len(l) /\ \A j \in Versions(n, id) : j <= x
  BY <1>3, <1>4
<1>6. \E y \in 0..Len(l) : y \in T /\ \A j \in Versions(n, id) : j <= y
  BY <1>5
<1>7. /\ Newest(n, id) \in 0..Len(l)
      /\ Newest(n, id) \in T
      /\ \A j \in Versions(n, id) : j <= Newest(n, id)
  BY <1>6 DEF Newest
<1>8. QED
  BY <1>1, <1>7

LEMMA MergeIs ==
  ASSUME NEW M, NEW P, \A p, q \in M : p.id = q.id => p = q,
         \A p, q \in P : p.id = q.id => p = q
  PROVE  /\ M \subseteq Merge(M, P) /\ Merge(M, P) \subseteq M \cup P
         /\ \A p, q \in Merge(M, P) : p.id = q.id => p = q
         /\ \A p \in P : \E q \in Merge(M, P) : q.id = p.id
         /\ \A p \in Merge(M, P) : p \in M \/ (p \in P /\ \A q \in M : q.id # p.id)
BY DEF Merge

-----------------------------------------------------------------------------

(* A list's record has its type.                                           *)

ListRecord ==
  [st : {"idle", "pick", "local", "remote", "ok", "err", "gone"},
   node : Node \cup {None}, todo : SUBSET Shard,
   shard : Shard \cup {None}, peers : Seq(Node),
   merged : SUBSET Point, failed : BOOLEAN, acked : SUBSET Op,
   known : SUBSET Node, newest : [PointId -> Nat]]

(* ... and the current shard is one.                                       *)
ListTyped ==
  /\ list \in ListRecord
  /\ \A p, q \in list.merged : p.id = q.id => p = q
  /\ Listing => list.node \in Node
  /\ list.st \in {"local", "remote"} => list.shard \in Shard

LEMMA NotListedType == NotListed \in ListRecord
BY DEF NotListed, ListRecord

LEMMA EndsTyped ==
  ASSUME NEW st \in {"ok", "err", "gone"}, Ends(st)
  PROVE  ListTyped' /\ ~Listing' /\ list'.st = st
<1> DEFINE r == [NotListed EXCEPT !.st = st]
<1>1. r \in ListRecord /\ r.st = st /\ r.merged = {}
  BY NotListedType DEF NotListed, ListRecord
<1>2. list' = r
  BY DEF Ends
<1> HIDE DEF r
<1>3. QED
  BY <1>1, <1>2 DEF ListTyped, Listing

LEMMA ListInitTyped == ListInit => ListTyped
BY NotListedType DEF ListInit, ListTyped, Listing, NotListed

LEMMA ListBeginTyped ==
  ASSUME TypeOK, ListTyped, NEW n \in Node, ListBegin(n)
  PROVE  ListTyped'
<1> DEFINE newest == [id \in PointId |-> IF Shards[n] = {} THEN 0 ELSE Newest(n, id)]
           known == {remotes[n][i] : i \in 1..Len(remotes[n])}
           acked == {o \in Op : task[o].st = "ok"}
<1>1. newest \in [PointId -> Nat]
  BY NewestIs
<1>2. known \subseteq Node /\ acked \subseteq Op /\ Shards[n] \subseteq Shard
  BY PlacementAssumption DEF TypeOK
<1>3. list' = [list EXCEPT !.st = "pick", !.node = n, !.todo = Shards[n],
                           !.acked = acked, !.known = known, !.newest = newest]
  BY DEF ListBegin
<1> HIDE DEF newest, known, acked
<1>4. QED
  BY <1>1, <1>2, <1>3 DEF ListTyped, ListRecord, Listing

LEMMA ScanTyped ==
  ASSUME TypeOK, NEW n \in Node, NEW s \in Shard
  PROVE  /\ Contents(n, s) \subseteq Point
         /\ \A p, q \in Contents(n, s) : p.id = q.id => p = q
         /\ remotes[n] \in Seq(Node)
<1>1. Contents(n, s) = LastIn(log[n][s]) /\ log[n][s] \in Seq(Point)
  BY ContentsIs
<1>2. /\ \A p \in LastIn(log[n][s]) : p \in Point
      /\ \A p, q \in LastIn(log[n][s]) : p.id = q.id => p = q
  BY <1>1, LastInIs
<1>3. QED
  BY <1>1, <1>2 DEF TypeOK

LEMMA ListLocalTyped ==
  ASSUME TypeOK, ListTyped, ListLocal
  PROVE  ListTyped'
<1> DEFINE n == list.node
           P == Contents(n, list.shard)
           M == Merge(list.merged, P)
<1>1. n \in Node /\ list.shard \in Shard /\ list \in ListRecord
  BY DEF ListLocal, ListTyped, Listing
<1>2. P \subseteq Point /\ (\A p, q \in P : p.id = q.id => p = q)
      /\ remotes[n] \in Seq(Node)
  BY <1>1, ScanTyped
<1>3. M \subseteq Point /\ \A p, q \in M : p.id = q.id => p = q
  <2>1. list.merged \subseteq Point /\ \A p, q \in list.merged : p.id = q.id => p = q
    BY DEF ListTyped, ListRecord
  <2> HIDE DEF P
  <2>2. /\ M \subseteq list.merged \cup P
        /\ \A p, q \in M : p.id = q.id => p = q
    BY <1>2, <2>1, MergeIs
  <2>3. QED
    BY <1>2, <2>1, <2>2
<1>4. \/ list' = [list EXCEPT !.st = "remote", !.peers = remotes[n], !.merged = M]
      \/ list' = [list EXCEPT !.st = "remote", !.peers = remotes[n], !.failed = TRUE]
  BY <1>1 DEF ListLocal, ListRecord
<1> HIDE DEF n, M
<1>5. list' \in ListRecord /\ (list'.merged = M \/ list'.merged = list.merged)
  BY <1>1, <1>2, <1>3, <1>4 DEF ListRecord
<1>6. list'.node = list.node /\ list'.shard = list.shard
  BY <1>1, <1>4 DEF ListRecord
<1>7. QED
  BY <1>1, <1>3, <1>5, <1>6 DEF ListTyped, Listing, n

LEMMA ListRemoteTyped ==
  ASSUME TypeOK, ListTyped, ListRemote
  PROVE  ListTyped'
<1> DEFINE m == Head(list.peers)
           s == list.shard
           P == {p \in Contents(m, s) : p.id \in NumericId}
           M == Merge(list.merged, P)
           N == IF s \in Shards[m] THEN M ELSE list.merged
<1>1. m \in Node /\ s \in Shard /\ list \in ListRecord /\ Tail(list.peers) \in Seq(Node)
  BY DEF ListRemote, ListTyped, ListRecord
<1>2. P \subseteq Point /\ (\A p, q \in P : p.id = q.id => p = q)
  BY <1>1, ScanTyped
<1>3. list.merged \subseteq Point /\ \A p, q \in list.merged : p.id = q.id => p = q
  BY DEF ListTyped, ListRecord
<1>4. M \subseteq Point /\ \A p, q \in M : p.id = q.id => p = q
  <2> HIDE DEF P
  <2>1. /\ M \subseteq list.merged \cup P
        /\ \A p, q \in M : p.id = q.id => p = q
    BY <1>2, <1>3, MergeIs
  <2>2. QED
    BY <1>2, <1>3, <2>1
<1>5. list' = [list EXCEPT !.peers = Tail(list.peers), !.merged = N]
  BY <1>1 DEF ListRemote, ListRecord
<1>6. N \subseteq Point /\ \A p, q \in N : p.id = q.id => p = q
  BY <1>3, <1>4
<1> HIDE DEF N
<1>7. QED
  BY <1>1, <1>5, <1>6 DEF ListTyped, ListRecord, Listing

LEMMA ListStepTyped ==
  ASSUME TypeOK, ListTyped, ListStep
  PROVE  ListTyped'
<1>1. CASE ListPickShard
  <2>1. PICK s \in list.todo :
          list' = [list EXCEPT !.st = "local", !.todo = @ \ {s}, !.shard = s]
    BY <1>1 DEF ListPickShard
  <2>2. s \in Shard /\ list \in ListRecord /\ list.node \in Node
    BY <1>1 DEF ListPickShard, ListTyped, ListRecord, Listing
  <2>3. QED
    BY <2>1, <2>2 DEF ListTyped, ListRecord, Listing
<1>2. CASE ListRemoteFails
  <2>1. /\ list \in ListRecord /\ list.st = "remote"
        /\ list.node \in Node /\ list.shard \in Shard
        /\ Tail(list.peers) \in Seq(Node)
    BY <1>2 DEF ListRemoteFails, ListTyped, ListRecord, Listing
  <2>2. list' = [list EXCEPT !.peers = Tail(list.peers), !.failed = TRUE]
    BY <1>2, <2>1 DEF ListRemoteFails, ListRecord
  <2>3. QED
    BY <2>1, <2>2 DEF ListTyped, ListRecord, Listing
<1>3. CASE ListCollect
  <2>1. CASE list.failed
    BY <1>3, <2>1, EndsTyped DEF ListCollect
  <2>2. CASE ~list.failed
    BY <1>3, <2>2 DEF ListCollect, ListTyped, ListRecord, Listing
  <2>3. QED
    BY <2>1, <2>2
<1>4. CASE ListFinish \/ ListGone
  BY <1>4, EndsTyped DEF ListFinish, ListGone
<1>5. QED
  BY <1>1, <1>2, <1>3, <1>4, ListBeginTyped, ListLocalTyped, ListRemoteTyped DEF ListStep

(* Whatever else happens, the list is not touched, or ends.                *)
LEMMA ListNextMoves ==
  ASSUME [ListNext]_listVars
  PROVE  /\ [Next]_vars
         /\ \/ ListStep /\ UNCHANGED vars
            \/ \E n \in Node : ListCrash(n)
            \/ \E n, m \in Node : Join(n, m)
            \/ list' = list /\ \/ UNCHANGED vars
                               \/ \E o \in Op : RemoteStep(o) \/ ClientGone(o)
                               \/ \E o \in Op, n \in Node : Put(o, n)
                               \/ \E c \in Call : Serve(c)
                               \/ \E t \in Task : LocalStep(t)
                               \/ \E n \in Node : Restart(n)
<1>1. CASE ListNext
  BY <1>1 DEF ListNext, Next, ListCrash, Join
<1>2. CASE UNCHANGED listVars
  BY <1>2 DEF listVars
<1>3. QED
  BY <1>1, <1>2

LEMMA ListNextTyped ==
  ASSUME TypeOK, ListTyped, [ListNext]_listVars
  PROVE  ListTyped'
<1>1. CASE list' = list
  BY <1>1 DEF ListTyped, Listing
<1>2. CASE \E n \in Node : ListCrash(n)
  BY <1>1, <1>2, EndsTyped DEF ListCrash
<1>3. QED
  BY <1>1, <1>2, ListNextMoves, ListStepTyped DEF Join

(* The writes are those of Upsert, whatever is listed.                     *)
LEMMA ListWrites == ListSpec => Spec
<1>1. ListInit => Init
  BY DEF ListInit
<1>2. [ListNext]_listVars => [Next]_vars
  BY ListNextMoves
<1>3. QED
  BY <1>1, <1>2, PTL DEF ListSpec, Spec

(* Every list has a record of its type and names no id twice, whatever     *)
(* answers are merged (the seen ids of Collection::get_points).            *)
THEOREM ListTypeOKHolds == ListSpec => []ListTypeOK
<1>1. TypeOK /\ ListTyped /\ [ListNext]_listVars => ListTyped'
  BY ListNextTyped
<1>2. ListTyped => ListTypeOK
  BY DEF ListTyped, ListTypeOK, ListRecord
<1>3. QED
  BY <1>1, <1>2, ListInitTyped, ListWrites, TypeOKHolds, PTL DEF ListSpec

-----------------------------------------------------------------------------

(* The argument for what a list returns: an invariant every step keeps.    *)

(* The shard was read from the peer itself ...                             *)
Scanned(s) ==
  /\ s \in Shards[list.node] \ list.todo
  /\ ~(list.st = "local" /\ s = list.shard)

(* ... and from the remote m, as far as m answered.                        *)
Asked(m, s) ==
  /\ Scanned(s)
  /\ list.st = "remote" /\ s = list.shard =>
       \A i \in 1..Len(list.peers) : list.peers[i] # m

IsListed(id) == \E q \in list.merged : q.id = id

(* The reader runs on a peer that stays up and whose replica sets stay as  *)
(* they were when it began.                                                *)
ListPlaced ==
  /\ list.st = "idle" => list = NotListed
  /\ list.st \in {"pick", "local"} => ~list.failed
  /\ Listing =>
       /\ list.node \in Hosts /\ up[list.node]
       /\ list.todo \subseteq Shards[list.node]
       /\ list.st # "pick" => list.shard \in Shards[list.node] \ list.todo
       /\ list.merged # {} => Shards[list.node] # {}
       /\ list.known = {remotes[list.node][i] : i \in 1..Len(remotes[list.node])}
       /\ list.st = "remote" => \A i \in 1..Len(list.peers) : list.peers[i] \in list.known
       /\ \A o \in list.acked : task[o].st = "ok"

(* What the peer held when the list began it still holds, and it held what *)
(* it had answered for.                                                    *)
OwnHeld ==
  Listing =>
    /\ \A id \in PointId :
         list.newest[id] > 0 => list.newest[id] \in Versions(list.node, id)
    /\ \A o \in list.acked : \A p \in Batch[o] :
         task[o].node = list.node /\ Shards[list.node] # {} => list.newest[p.id] > 0

(* The peer's own points of a shard are merged before any other's of that  *)
(* shard, and where no peer has the id in another shard, before any other's*)
(* at all.                                                                 *)
OwnFirst ==
  Listing /\ ~list.failed =>
    /\ \A p \in list.merged :
         list.newest[p.id] > 0 /\ SameShard(list.node, list.known, p.id) =>
           \E i \in Versions(list.node, p.id) :
             /\ i >= list.newest[p.id]
             /\ log[list.node][Route(list.node, p.id)][i] = p
    /\ \A id \in PointId :
         list.newest[id] > 0 /\ Scanned(Route(list.node, id)) => IsListed(id)

(* A remote that was asked added what it had answered for.                 *)
RemotesMerged ==
  Listing /\ ~list.failed =>
    \A o \in list.acked : \A p \in Batch[o] :
      /\ task[o].node \in list.known /\ p.id \in NumericId
      /\ Asked(task[o].node, Route(task[o].node, p.id))
      => IsListed(p.id)

ListInv == ListPlaced /\ OwnHeld /\ OwnFirst /\ RemotesMerged

-----------------------------------------------------------------------------

(* Steps that leave the list alone: its peer stays up and only appends.    *)

Grows(n) ==
  \A s \in Shard : \/ log'[n][s] = log[n][s]
                   \/ \E p \in Point : log'[n][s] = Append(log[n][s], p)

LEMMA InsertGrows ==
  ASSUME TypeOK, NEW t \in Task, InsertPoint(t), NEW n \in Node
  PROVE  Grows(n)
<1>1. PICK p \in task[t].left :
        log' = [log EXCEPT ![task[t].node][task[t].shard] = Append(@, p)]
  BY DEF InsertPoint
<1>2. p \in Point
  BY <1>1 DEF TypeOK, TaskRecord
<1>3. \A s \in Shard : \/ log'[n][s] = log[n][s]
                       \/ log'[n][s] = Append(log[n][s], p)
  BY <1>1 DEF TypeOK
<1>4. QED
  BY <1>2, <1>3 DEF Grows

LEMMA PeerStays ==
  ASSUME WriteProgress, ListTyped, ListPlaced, Listing, [ListNext]_listVars, list' = list
  PROVE  /\ up'[list.node]
         /\ remotes'[list.node] = remotes[list.node]
         /\ Grows(list.node)
<1> DEFINE n == list.node
<1>1. n \in Node /\ up[n] /\ TypeOK
  BY DEF ListTyped, ListPlaced, WriteProgress
<1>2. CASE UNCHANGED <<up, remotes, log>>
  BY <1>1, <1>2 DEF Grows
<1>3. CASE \E t \in Task : LocalStep(t)
  <2>1. PICK t \in Task : LocalStep(t)
    BY <1>3
  <2>2. up' = up /\ remotes' = remotes
    BY <2>1 DEF LocalStep, PickShard, InsertPoint, Flush, LocalFails, Judge, Finish
  <2>3. CASE InsertPoint(t)
    BY <1>1, <2>2, <2>3, InsertGrows
  <2>4. CASE ~InsertPoint(t)
    BY <1>2, <2>1, <2>2, <2>4 DEF LocalStep, PickShard, Flush, LocalFails, Judge, Finish
  <2>5. QED
    BY <2>3, <2>4
<1>4. ASSUME NEW m \in Node, Restart(m)
      PROVE  up'[n] /\ remotes'[n] = remotes[n] /\ log' = log
  BY <1>1, <1>4 DEF Restart, TypeOK
<1>5. ASSUME NEW m \in Node, ListCrash(m)
      PROVE  up'[n] /\ remotes'[n] = remotes[n] /\ log'[n] = log[n]
  <2>1. m # n
    <3>1. ASSUME m = n
          PROVE  FALSE
      BY <1>5, <3>1, EndsTyped DEF ListCrash, Listing
    <3>2. QED
      BY <3>1
  <2>2. QED
    BY <1>1, <1>5, <2>1 DEF ListCrash, Crash, TypeOK
<1>6. ASSUME NEW m \in Node, NEW k \in Node, Join(m, k)
      PROVE  up'[n] /\ remotes'[n] = remotes[n] /\ log' = log
  BY <1>1, <1>6 DEF Join, AddRemoteShards, TypeOK
<1>7. CASE \/ \E o \in Op : RemoteStep(o) \/ ClientGone(o)
           \/ \E o \in Op, m \in Node : Put(o, m)
           \/ \E c \in Call : Serve(c)
  BY <1>2, <1>7 DEF RemoteStep, CallRemote, Answered, CallFails, ClientGone, Put, Serve, Begin
<1>8. QED
  BY <1>2, <1>3, <1>4, <1>5, <1>6, <1>7, ListNextMoves DEF Grows, vars

LEMMA VersionsStay ==
  ASSUME TypeOK, NEW n \in Node, Grows(n), NEW id \in PointId, NEW i \in Versions(n, id)
  PROVE  /\ i \in Versions(n, id)'
         /\ log'[n][Route(n, id)][i] = log[n][Route(n, id)][i]
<1> DEFINE s == Route(n, id)
           l == log[n][s]
           k == log'[n][s]
<1>1. s \in Shard /\ l \in Seq(Point)
  BY RouteType DEF TypeOK
<1>2. i \in 1..Len(l) /\ l[i].id = id
  BY DEF Versions
<1>3. i \in 1..Len(k) /\ k[i] = l[i]
  <2>1. CASE k = l
    BY <1>2, <2>1
  <2>2. ASSUME NEW p \in Point, k = Append(l, p)
        PROVE  i \in 1..Len(k) /\ k[i] = l[i]
    BY <1>1, <1>2, <2>2
  <2>3. QED
    BY <1>1, <2>1, <2>2 DEF Grows
<1>4. QED
  BY <1>2, <1>3 DEF Versions, Route

LEMMA ListKept ==
  ASSUME WriteProgress, ListTyped, ListInv, [ListNext]_listVars, list' = list
  PROVE  ListInv'
<1>1. CASE ~Listing
  BY <1>1 DEF ListInv, ListPlaced, OwnHeld, OwnFirst, RemotesMerged, Listing
<1>2. CASE Listing
  <2> DEFINE n == list.node
  <2>1. /\ n \in Node /\ TypeOK /\ Listing' /\ list \in ListRecord
        /\ up'[n] /\ remotes'[n] = remotes[n] /\ Grows(n)
    BY <1>2, PeerStays DEF ListInv, ListTyped, WriteProgress, Listing
  <2>2. \A o \in list.acked : task'[o] = task[o] /\ o \in Op
    <3>1. \A o \in list.acked : o \in Op /\ task[o].st = "ok"
      BY <1>2, <2>1 DEF ListInv, ListPlaced, ListRecord
    <3>2. [Next]_vars
      BY ListNextMoves
    <3>3. QED
      BY <3>1, <3>2, OverStays DEF Over
  <2>3. ListPlaced'
    BY <1>2, <2>1, <2>2 DEF ListInv, ListPlaced, Listing
  <2>4. OwnHeld'
    BY <1>2, <2>1, <2>2, VersionsStay DEF ListInv, OwnHeld
  <2>5. OwnFirst'
    <3> SUFFICES ASSUME ~list.failed
                 PROVE  OwnFirst'
      BY DEF OwnFirst
    <3>1. ASSUME NEW p \in list.merged,
                 list.newest[p.id] > 0, SameShard(n, list.known, p.id)
          PROVE  \E i \in Versions(n, p.id)' :
                   i >= list.newest[p.id] /\ log'[n][Route(n, p.id)][i] = p
      <4>1. p.id \in PointId
        BY <2>1 DEF ListRecord, Point
      <4>2. PICK i \in Versions(n, p.id) :
              i >= list.newest[p.id] /\ log[n][Route(n, p.id)][i] = p
        BY <1>2, <3>1 DEF ListInv, OwnFirst
      <4>3. QED
        BY <2>1, <4>1, <4>2, VersionsStay
    <3>2. ASSUME NEW id \in PointId, list.newest[id] > 0, Scanned(Route(n, id))'
          PROVE  IsListed(id)'
      <4>1. Scanned(Route(n, id))
        BY <3>2 DEF Scanned, Route
      <4>2. IsListed(id)
        BY <1>2, <3>2, <4>1 DEF ListInv, OwnFirst
      <4>3. QED
        BY <4>2 DEF IsListed
    <3>3. QED
      BY <3>1, <3>2 DEF OwnFirst, SameShard, Route
  <2>6. RemotesMerged'
    BY <1>2, <2>2 DEF ListInv, RemotesMerged, Asked, Scanned, IsListed, Route, Listing
  <2>7. QED
    BY <2>3, <2>4, <2>5, <2>6 DEF ListInv
<1>3. QED
  BY <1>1, <1>2

LEMMA ListEnds ==
  ASSUME NEW st \in {"ok", "err", "gone"}, Ends(st)
  PROVE  ListInv'
<1>1. ~Listing' /\ list'.st = st
  BY EndsTyped
<1>2. QED
  BY <1>1 DEF ListInv, ListPlaced, OwnHeld, OwnFirst, RemotesMerged

-----------------------------------------------------------------------------

(* The steps of a list.                                                    *)

(* A request with points only goes on at a peer that has shards.           *)
WritersHaveShards ==
  \A o \in Op : Active(o) \/ task[o].st = "ok" =>
    Batch[o] = {} \/ Shards[task[o].node] # {}

LEMMA WritersInit == Init => WritersHaveShards
BY DEF Init, NotBegun, WritersHaveShards, Active, Task

LEMMA WritersStay ==
  ASSUME WriteProgress, WritersHaveShards, [Next]_vars
  PROVE  WritersHaveShards'
<1> SUFFICES ASSUME NEW o \in Op, (Active(o) \/ task[o].st = "ok")', Batch[o] # {}
             PROVE  Shards[task'[o].node] # {}
  BY DEF WritersHaveShards
<1>1. o \in Task /\ TaskMove(o) /\ Points(o) = Batch[o] /\ task[o] \in TaskRecord
  BY TaskMoves DEF Task, Points, WriteProgress, TypeOK
<1>2. CASE Starts(o)
  BY <1>1, <1>2 DEF Starts, Active
<1>3. CASE ~Starts(o)
  <2>1. ~IsSent(o)
    BY IdAssumption DEF IsSent
  <2>2. ASSUME task'[o] = task[o]
        PROVE  Active(o) \/ task[o].st = "ok"
    BY <2>2 DEF Active
  <2>3. ASSUME ~(task'[o] = task[o])
        PROVE  Active(o)
    <3>1. CASE \E p \in Point : Inserts(o, p)
      BY <3>1 DEF Inserts, Active
    <3>2. CASE TakesShard(o) \/ LeavesLocal(o) \/ Calls(o)
      BY <3>2 DEF TakesShard, LeavesLocal, Calls, Active
    <3>3. CASE IsAnswered(o) \/ IsJudged(o) \/ IsFinished(o) \/ IsGone(o)
      BY <3>3 DEF IsAnswered, IsJudged, IsFinished, IsGone, Active
    <3>4. QED
      BY <1>1, <1>3, <2>1, <2>3, <3>1, <3>2, <3>3 DEF TaskMove
  <2>4. Active(o) \/ task[o].st = "ok"
    BY <2>2, <2>3
  <2>5. task'[o].node = task[o].node
    BY <1>1, <2>4, RunStays DEF Active
  <2>6. QED
    BY <2>4, <2>5 DEF WritersHaveShards
<1>4. QED
  BY <1>2, <1>3

(* A point that was answered for is in a segment of the peer that answered.*)
LEMMA AckedIsHeld ==
  ASSUME WriteProgress, AckedIsReplicated, StoredWhereRead,
         NEW o \in Op, task[o].st = "ok", NEW p \in Batch[o]
  PROVE  /\ task[o].node \in Node /\ p \in Point
         /\ \E i \in 1..Len(log[task[o].node][Route(task[o].node, p.id)]) :
              log[task[o].node][Route(task[o].node, p.id)][i] = p
<1> DEFINE n == task[o].node
<1>1. n \in Node /\ p \in Point /\ TypeOK
  BY HasNode, RequestAssumption DEF WriteProgress, Task
<1>2. PICK s \in Shard : \E i \in 1..flushed[n][s] : log[n][s][i] = p
  BY DEF AckedIsReplicated, HoldsDurably
<1>3. PICK i \in 1..flushed[n][s] : log[n][s][i] = p
  BY <1>2
<1>4. i \in 1..Len(log[n][s])
  BY <1>1 DEF TypeOK
<1>5. Route(n, p.id) = s
  BY <1>1, <1>3, <1>4 DEF StoredWhereRead
<1>6. QED
  BY <1>1, <1>3, <1>4, <1>5

(* What the theorems about the writes say, and what a list needs besides.  *)
Written ==
  WriteProgress /\ AckedIsReplicated /\ StoredWhereRead /\ WritersHaveShards

LEMMA AckedHasShard ==
  ASSUME Written, NEW o \in Op, task[o].st = "ok", NEW p \in Batch[o],
         NEW n, n = task[o].node
  PROVE  Route(n, p.id) \in Shards[n] /\ p \in Point
<1>1. n \in Node /\ p \in Point
  BY AckedIsHeld DEF Written
<1>2. Shards[n] # {} /\ p.id \in PointId
  BY <1>1 DEF Written, WritersHaveShards, Point
<1>3. Shards[n] \in (SUBSET Shard) \ {{}}
  BY <1>1, <1>2, PlacementAssumption
<1>4. Ring[Shards[n]][p.id] \in Shards[n]
  BY <1>2, <1>3, PlacementAssumption
<1>5. QED
  BY <1>1, <1>4 DEF Route

LEMMA HeldIsNewest ==
  ASSUME TypeOK, NEW n \in Node, NEW p \in Point,
         NEW i \in 1..Len(log[n][Route(n, p.id)]), log[n][Route(n, p.id)][i] = p
  PROVE  Newest(n, p.id) > 0
<1>1. p.id \in PointId
  BY DEF Point
<1>2. i \in Versions(n, p.id)
  BY DEF Versions
<1>3. QED
  BY <1>1, <1>2, NewestIs

LEMMA ListBeginInv ==
  ASSUME WriteProgress, AckedIsReplicated, StoredWhereRead, ListTyped, ListInv,
         NEW n \in Node, ListBegin(n), UNCHANGED vars
  PROVE  ListInv'
<1> DEFINE newest == [id \in PointId |-> IF Shards[n] = {} THEN 0 ELSE Newest(n, id)]
           known == {remotes[n][i] : i \in 1..Len(remotes[n])}
           acked == {o \in Op : task[o].st = "ok"}
<1>1. list = NotListed /\ TypeOK
  BY DEF ListBegin, ListInv, ListPlaced, WriteProgress
<1>2. /\ list' = [list EXCEPT !.st = "pick", !.node = n, !.todo = Shards[n],
                              !.acked = acked, !.known = known, !.newest = newest]
      /\ n \in Hosts /\ up[n]
  BY DEF ListBegin
<1>3. /\ list'.st = "pick" /\ list'.node = n /\ list'.todo = Shards[n]
      /\ list'.acked = acked /\ list'.known = known /\ list'.newest = newest
      /\ list'.merged = {} /\ list'.failed = FALSE
  <2> HIDE DEF newest, known, acked
  <2>1. QED
    BY <1>1, <1>2 DEF NotListed
<1>4. ListPlaced'
  BY <1>2, <1>3 DEF ListPlaced, vars
<1>5. OwnHeld'
  <2>1. ASSUME NEW id \in PointId, newest[id] > 0
        PROVE  newest[id] \in Versions(n, id)
    <3>1. newest[id] = Newest(n, id)
      BY <2>1
    <3> HIDE DEF newest
    <3>2. QED
      BY <1>1, <2>1, <3>1, NewestIs
  <2>2. ASSUME NEW o \in acked, NEW p \in Batch[o], task[o].node = n, Shards[n] # {}
        PROVE  newest[p.id] > 0
    <3>1. o \in Op /\ task[o].st = "ok"
      OBVIOUS
    <3>2. p \in Point /\ \E i \in 1..Len(log[n][Route(n, p.id)]) :
                            log[n][Route(n, p.id)][i] = p
      BY <2>2, <3>1, AckedIsHeld
    <3>3. Newest(n, p.id) > 0 /\ p.id \in PointId
      BY <1>1, <3>2, HeldIsNewest DEF Point
    <3>4. QED
      BY <2>2, <3>3
  <2>3. \A id \in PointId : Versions(list.node, id)' = Versions(n, id)
    BY <1>3 DEF vars, Versions, Route
  <2>4. task' = task /\ list'.node = n /\ list'.acked = acked /\ list'.newest = newest
    BY <1>3 DEF vars
  <2> HIDE DEF newest, acked
  <2>5. \A id \in PointId :
          list'.newest[id] > 0 => list'.newest[id] \in Versions(list.node, id)'
    BY <2>1, <2>3, <2>4
  <2>6. \A o \in list'.acked : \A p \in Batch[o] :
          task'[o].node = list'.node /\ Shards[list'.node] # {} => list'.newest[p.id] > 0
    BY <2>2, <2>4
  <2>7. QED
    BY <2>5, <2>6 DEF OwnHeld
<1>6. OwnFirst' /\ RemotesMerged'
  BY <1>3 DEF OwnFirst, RemotesMerged, Asked, Scanned
<1>7. QED
  BY <1>4, <1>5, <1>6 DEF ListInv

(* OwnFirst, put together from what a step makes of the parts.             *)
LEMMA OwnFirstNext ==
  ASSUME NEW n, NEW M, log' = log, list'.node = n, list'.merged = M,
         list'.failed = list.failed, list'.newest = list.newest, list'.known = list.known,
         \A id : Versions(list.node, id)' = Versions(n, id),
         ~list.failed =>
           /\ \A p \in M :
                list.newest[p.id] > 0 /\ SameShard(n, list.known, p.id) =>
                  \E i \in Versions(n, p.id) :
                    i >= list.newest[p.id] /\ log[n][Route(n, p.id)][i] = p
           /\ \A id \in PointId :
                list.newest[id] > 0 /\ Scanned(Route(n, id))' => IsListed(id)'
  PROVE  OwnFirst'
BY DEF OwnFirst, SameShard, Route

LEMMA OwnFirstStays ==
  ASSUME OwnFirst, Listing, NEW n, n = list.node, log' = log, list'.node = n,
         list'.merged = list.merged, list'.failed = list.failed,
         list'.newest = list.newest, list'.known = list.known,
         \A id : Versions(list.node, id)' = Versions(n, id),
         \A r : Scanned(r)' <=> Scanned(r),
         \A id : IsListed(id)' <=> IsListed(id)
  PROVE  OwnFirst'
<1>1. ASSUME ~list.failed, NEW p \in list.merged,
             list.newest[p.id] > 0, SameShard(n, list.known, p.id)
      PROVE  \E i \in Versions(n, p.id) :
               i >= list.newest[p.id] /\ log[n][Route(n, p.id)][i] = p
  BY <1>1 DEF OwnFirst, Route
<1>2. ASSUME ~list.failed, NEW id \in PointId, list.newest[id] > 0,
             Scanned(Route(n, id))'
      PROVE  IsListed(id)'
  BY <1>2 DEF OwnFirst, Route
<1>3. QED
  BY <1>1, <1>2, OwnFirstNext

LEMMA ListPickShardInv ==
  ASSUME ListTyped, ListInv, ListPickShard, UNCHANGED vars,
         NEW n, n = list.node
  PROVE  ListInv'
<1>1. PICK s \in list.todo :
        list' = [list EXCEPT !.st = "local", !.todo = @ \ {s}, !.shard = s]
  BY DEF ListPickShard
<1>2. /\ list'.st = "local" /\ list'.todo = list.todo \ {s} /\ list'.shard = s
      /\ list'.node = n /\ list'.merged = list.merged
      /\ list'.failed = list.failed /\ list'.acked = list.acked
      /\ list'.known = list.known /\ list'.newest = list.newest
      /\ list.st = "pick"
  BY <1>1 DEF ListPickShard, ListTyped, ListRecord
<1>3. Listing
  BY <1>2 DEF Listing
<1>4. ListPlaced'
  BY <1>2, <1>3 DEF ListInv, ListPlaced, vars, Listing
<1>5. /\ \A id : Versions(list.node, id)' = Versions(n, id)
      /\ OwnHeld /\ OwnFirst /\ RemotesMerged /\ task' = task /\ log' = log
  BY <1>2 DEF ListInv, vars, Versions, Route
<1>6. OwnHeld'
  BY <1>2, <1>3, <1>5 DEF OwnHeld
<1>7. \A r : Scanned(r)' <=> Scanned(r)
  BY <1>2, <1>3 DEF Scanned, ListInv, ListPlaced
<1>8. \A id : IsListed(id)' <=> IsListed(id)
  BY <1>2 DEF IsListed
<1>9. OwnFirst'
  BY <1>2, <1>3, <1>5, <1>7, <1>8, OwnFirstStays
<1>10. \A m, r : Asked(m, r)' => Asked(m, r)
  BY <1>2, <1>7 DEF Asked
<1>11. RemotesMerged'
  BY <1>2, <1>3, <1>8, <1>10 DEF ListInv, RemotesMerged, vars, Route
<1>12. QED
  BY <1>4, <1>6, <1>9, <1>11 DEF ListInv

(* A replica that failed makes the list fail.                              *)
LEMMA ListFailedInv ==
  ASSUME ListTyped, ListInv, UNCHANGED vars, list.st \in {"local", "remote"},
         NEW peers, \A i \in 1..Len(peers) : peers[i] \in list.known,
         list' = [list EXCEPT !.st = "remote", !.peers = peers, !.failed = TRUE]
  PROVE  ListInv'
<1>1. /\ list'.st = "remote" /\ list'.todo = list.todo /\ list'.shard = list.shard
      /\ list'.node = list.node /\ list'.merged = list.merged
      /\ list'.failed /\ list'.acked = list.acked
      /\ list'.known = list.known /\ list'.newest = list.newest
  BY DEF ListTyped, ListRecord
<1>2. ListPlaced'
  BY <1>1 DEF ListInv, ListPlaced, Listing, vars
<1>3. \A id : Versions(list.node, id)' = Versions(list.node, id)
  BY <1>1 DEF vars, Versions, Route
<1>4. OwnHeld /\ Listing /\ task' = task
  BY DEF ListInv, Listing, vars
<1>5. OwnHeld'
  BY <1>1, <1>3, <1>4 DEF OwnHeld
<1>6. QED
  BY <1>1, <1>2, <1>5 DEF ListInv, OwnFirst, RemotesMerged

(* A merge M adds what P, of the scan of a segment, has new to the list.   *)
Adds(n, s, P, M) ==
  /\ list.merged \subseteq M
  /\ \A p \in M : p \in list.merged \/ (p \in P /\ \A q \in list.merged : q.id # p.id)
  /\ \A p \in P : \E q \in M : q.id = p.id
  /\ \A p \in P :
       /\ p \in Point /\ Route(n, p.id) = s
       /\ \E i \in Versions(n, p.id) :
            log[n][s][i] = p /\ \A j \in Versions(n, p.id) : j <= i

LEMMA ScanAdds ==
  ASSUME TypeOK, StoredWhereRead, ListTyped, NEW n \in Node, NEW s \in Shard,
         NEW P, P \subseteq Contents(n, s)
  PROVE  Adds(n, s, P, Merge(list.merged, P))
<1> DEFINE l == log[n][s]
<1>1. Contents(n, s) = LastIn(l) /\ l \in Seq(Point)
  BY ContentsIs
<1>2. /\ \A p \in LastIn(l) : p \in Point /\ \E k \in 1..Len(l) :
           l[k] = p /\ \A j \in 1..Len(l) : l[j].id = p.id => j <= k
      /\ \A p, q \in LastIn(l) : p.id = q.id => p = q
  <2> HIDE DEF l
  <2>1. QED
    BY <1>1, LastInIs
<1>3. /\ \A p, q \in list.merged : p.id = q.id => p = q
      /\ \A p, q \in P : p.id = q.id => p = q
  BY <1>1, <1>2 DEF ListTyped
<1>4. ASSUME NEW p \in P
      PROVE  /\ p \in Point /\ Route(n, p.id) = s
             /\ \E i \in Versions(n, p.id) :
                  l[i] = p /\ \A j \in Versions(n, p.id) : j <= i
  <2>1. p \in Point /\ p \in LastIn(l)
    BY <1>1, <1>2
  <2>2. PICK k \in 1..Len(l) : l[k] = p /\ \A j \in 1..Len(l) : l[j].id = p.id => j <= k
    BY <1>2, <2>1
  <2>3. Route(n, p.id) = s
    BY <2>2 DEF StoredWhereRead
  <2>4. Versions(n, p.id) = {i \in 1..Len(l) : l[i].id = p.id}
    BY <2>3 DEF Versions
  <2>5. QED
    BY <2>1, <2>2, <2>3, <2>4
<1> DEFINE M == Merge(list.merged, P)
<1>5. /\ list.merged \subseteq M
      /\ \A p \in P : \E q \in M : q.id = p.id
      /\ \A p \in M : p \in list.merged \/ (p \in P /\ \A q \in list.merged : q.id # p.id)
  BY <1>3, MergeIs
<1>6. QED
  BY <1>4, <1>5 DEF Adds

(* ... and what it has.                                                    *)
LEMMA ScanHas ==
  ASSUME TypeOK, NEW n \in Node, NEW s \in Shard, NEW i \in 1..Len(log[n][s])
  PROVE  \E q \in Contents(n, s) : q.id = log[n][s][i].id
BY ContentsIs, LastInIs

LEMMA ListLocalInv ==
  ASSUME WriteProgress, StoredWhereRead, ListTyped, ListInv, ListLocal, UNCHANGED vars,
         NEW n, n = list.node, NEW s, s = list.shard,
         NEW P, P = Contents(n, s), NEW M, M = Merge(list.merged, P)
  PROVE  ListInv'
<1>1. /\ n \in Node /\ s \in Shard /\ list.st = "local" /\ list \in ListRecord
      /\ TypeOK /\ Listing
  BY DEF ListLocal, ListTyped, Listing, WriteProgress
<1>2. CASE s \notin Segmented[n]
  <2>1. list' = [list EXCEPT !.st = "remote", !.peers = remotes[n], !.failed = TRUE]
    BY <1>2 DEF ListLocal
  <2>2. \A i \in 1..Len(remotes[n]) : remotes[n][i] \in list.known
    BY <1>1 DEF ListInv, ListPlaced
  <2>3. QED
    BY <1>1, <2>1, <2>2, ListFailedInv
<1>3. CASE s \in Segmented[n]
  <2>1. list' = [list EXCEPT !.st = "remote", !.peers = remotes[n], !.merged = M]
    BY <1>1, <1>3 DEF ListLocal, ListRecord
  <2>2. /\ list'.st = "remote" /\ list'.todo = list.todo /\ list'.shard = s
        /\ list'.node = n /\ list'.merged = M /\ list'.peers = remotes[n]
        /\ list'.failed = list.failed /\ list'.acked = list.acked
        /\ list'.known = list.known /\ list'.newest = list.newest
    BY <1>1, <2>1 DEF ListRecord
  <2>3. /\ list.merged \subseteq M
        /\ \A p \in M : p \in list.merged \/ p \in P
        /\ \A p \in P : \E q \in M : q.id = p.id
        /\ \A p \in P :
             /\ p \in Point /\ Route(n, p.id) = s
             /\ \E i \in Versions(n, p.id) :
                  log[n][s][i] = p /\ \A j \in Versions(n, p.id) : j <= i
    <3>1. Adds(n, s, P, M)
      BY <1>1, ScanAdds
    <3>2. QED
      BY <3>1 DEF Adds
  <2>4. ListPlaced'
    BY <1>1, <2>2 DEF ListInv, ListPlaced, Listing, vars
  <2>5. \A id : Versions(list.node, id)' = Versions(n, id)
    BY <2>2 DEF vars, Versions, Route
  <2>6. OwnHeld /\ OwnFirst /\ RemotesMerged /\ ListPlaced /\ task' = task /\ log' = log
    BY DEF ListInv, vars
  <2>7. OwnHeld'
    BY <1>1, <2>2, <2>5, <2>6 DEF OwnHeld
  <2>8. \A r : Scanned(r)' <=> Scanned(r) \/ r = s
    BY <1>1, <2>2, <2>6 DEF Scanned, ListPlaced
  <2>9. \A id : IsListed(id) => IsListed(id)'
    BY <2>2, <2>3 DEF IsListed
  <2>10. ASSUME ~list.failed, NEW p \in M,
                list.newest[p.id] > 0, SameShard(n, list.known, p.id)
         PROVE  \E i \in Versions(n, p.id) :
                  i >= list.newest[p.id] /\ log[n][Route(n, p.id)][i] = p
    <3>1. CASE p \in list.merged
      BY <1>1, <2>6, <2>10, <3>1 DEF OwnFirst
    <3>2. CASE p \in P
      <4>1. Route(n, p.id) = s /\ p.id \in PointId
        BY <2>3, <3>2 DEF Point
      <4>2. PICK i \in Versions(n, p.id) :
              log[n][s][i] = p /\ \A j \in Versions(n, p.id) : j <= i
        BY <2>3, <3>2
      <4>3. list.newest[p.id] \in Versions(n, p.id)
        BY <1>1, <2>6, <2>10, <4>1 DEF OwnHeld
      <4>4. i \in Nat
        BY <4>2 DEF Versions
      <4>5. \A j \in Versions(n, p.id) : i >= j
        BY <4>2, <4>4 DEF Versions
      <4>6. QED
        BY <4>1, <4>2, <4>3, <4>5
    <3>3. QED
      BY <2>3, <2>10, <3>1, <3>2
  <2>11. ASSUME ~list.failed, NEW id \in PointId, list.newest[id] > 0,
                Scanned(Route(n, id))'
         PROVE  IsListed(id)'
    <3>1. CASE Scanned(Route(n, id))
      BY <1>1, <2>6, <2>9, <2>11, <3>1 DEF OwnFirst
    <3>2. CASE Route(n, id) = s
      <4>1. list.newest[id] \in Versions(n, id)
        BY <1>1, <2>6, <2>11 DEF OwnHeld
      <4>2. list.newest[id] \in 1..Len(log[n][s]) /\ log[n][s][list.newest[id]].id = id
        BY <3>2, <4>1 DEF Versions
      <4>3. \E q \in P : q.id = id
        BY <1>1, <4>2, ScanHas
      <4>4. \E q \in M : q.id = id
        BY <2>3, <4>3
      <4>5. QED
        BY <2>2, <4>4 DEF IsListed
    <3>3. Scanned(Route(n, id)) \/ Route(n, id) = s
      BY <2>8, <2>11 DEF Route
    <3>4. QED
      BY <3>1, <3>2, <3>3
  <2>12. OwnFirst'
    BY <2>2, <2>5, <2>6, <2>10, <2>11, OwnFirstNext
  <2>13. \A m, r : m \in list.known /\ Asked(m, r)' => Asked(m, r)
    <3>1. list.known = {remotes[n][i] : i \in 1..Len(remotes[n])}
      BY <1>1, <2>6 DEF ListPlaced
    <3>2. QED
      BY <1>1, <2>2, <2>8, <3>1 DEF Asked
  <2>14. RemotesMerged'
    BY <1>1, <2>2, <2>6, <2>9, <2>13 DEF RemotesMerged, Route
  <2>15. QED
    BY <2>4, <2>7, <2>12, <2>14 DEF ListInv
<1>4. QED
  BY <1>2, <1>3

LEMMA ListRemoteInv ==
  ASSUME Written, ListTyped, ListInv, ListRemote, UNCHANGED vars,
         NEW n, n = list.node, NEW s, s = list.shard, NEW m, m = Head(list.peers),
         NEW P, P = IF s \in Shards[m] THEN {p \in Contents(m, s) : p.id \in NumericId} ELSE {},
         NEW M, M = Merge(list.merged, P)
  PROVE  ListInv'
<1>1. /\ n \in Node /\ s \in Shard /\ list.st = "remote" /\ list \in ListRecord
      /\ TypeOK /\ Listing /\ list.peers \in Seq(Node) /\ list.peers # <<>>
  BY DEF ListRemote, ListTyped, Listing, Written, WriteProgress, ListRecord
<1>2. OwnHeld /\ OwnFirst /\ RemotesMerged /\ ListPlaced /\ task' = task /\ log' = log
  BY DEF ListInv, vars
<1>3. m \in Node /\ m \in Hosts /\ n \in Hosts /\ s \in Shards[n]
  BY <1>1, <1>2 DEF ListRemote, ListPlaced
<1>4. m \in list.known
  BY <1>1, <1>2 DEF ListPlaced
<1>5. list' = [list EXCEPT !.peers = Tail(list.peers), !.merged = M]
  <2>1. CASE s \in Shards[m]
    BY <1>1, <2>1 DEF ListRemote, ListRecord
  <2>2. CASE s \notin Shards[m]
    <3>1. M = list.merged
      BY <2>2 DEF Merge
    <3>2. QED
      BY <1>1, <2>2, <3>1 DEF ListRemote, ListRecord
  <2>3. QED
    BY <2>1, <2>2
<1>6. /\ list'.st = "remote" /\ list'.todo = list.todo /\ list'.shard = s
      /\ list'.node = n /\ list'.merged = M /\ list'.peers = Tail(list.peers)
      /\ list'.failed = list.failed /\ list'.acked = list.acked
      /\ list'.known = list.known /\ list'.newest = list.newest
  BY <1>1, <1>5 DEF ListRecord
<1>7. Adds(m, s, P, M)
  <2>1. P \subseteq Contents(m, s)
    OBVIOUS
  <2>2. QED
    BY <1>1, <1>3, <2>1, ScanAdds DEF Written
<1>8. ListPlaced'
  <2>1. \A i \in 1..Len(Tail(list.peers)) : Tail(list.peers)[i] \in list.known
    BY <1>1, <1>2 DEF ListPlaced
  <2>2. QED
    BY <1>1, <1>2, <1>3, <1>6, <2>1 DEF ListPlaced, Listing, vars
<1>9. \A id : Versions(list.node, id)' = Versions(n, id)
  BY <1>6 DEF vars, Versions, Route
<1>10. OwnHeld'
  BY <1>1, <1>2, <1>6, <1>9 DEF OwnHeld
<1>11. \A r : Scanned(r)' <=> Scanned(r)
  BY <1>1, <1>6 DEF Scanned
<1>12. \A id : IsListed(id) => IsListed(id)'
  BY <1>6, <1>7 DEF IsListed, Adds
<1>13. ASSUME ~list.failed, NEW p \in M,
              list.newest[p.id] > 0, SameShard(n, list.known, p.id)
       PROVE  \E i \in Versions(n, p.id) :
                i >= list.newest[p.id] /\ log[n][Route(n, p.id)][i] = p
  <2>1. CASE p \in list.merged
    BY <1>1, <1>2, <1>13, <2>1 DEF OwnFirst
  <2>2. ASSUME p \in P, \A q \in list.merged : q.id # p.id
        PROVE  FALSE
    <3>1. Route(m, p.id) = s /\ p.id \in PointId
      BY <1>7, <2>2 DEF Adds, Point
    <3>2. Route(n, p.id) = s
      BY <1>3, <1>4, <1>13, <3>1 DEF SameShard
    <3>3. Scanned(s)
      BY <1>1, <1>2 DEF Scanned, ListPlaced
    <3>4. IsListed(p.id)
      BY <1>1, <1>2, <1>13, <3>1, <3>2, <3>3 DEF OwnFirst
    <3>5. QED
      BY <2>2, <3>4 DEF IsListed
  <2>3. QED
    BY <1>7, <1>13, <2>1, <2>2 DEF Adds
<1>14. ASSUME ~list.failed, NEW id \in PointId, list.newest[id] > 0,
              Scanned(Route(n, id))'
       PROVE  IsListed(id)'
  BY <1>1, <1>2, <1>11, <1>12, <1>14 DEF OwnFirst, Route
<1>15. OwnFirst'
  BY <1>2, <1>6, <1>9, <1>13, <1>14, OwnFirstNext
<1>16. ASSUME NEW k, NEW r, Asked(k, r)', ~Asked(k, r)
       PROVE  k = m /\ r = s
  <2>1. Scanned(r) /\ r = s /\ \E i \in 1..Len(list.peers) : list.peers[i] = k
    BY <1>1, <1>11, <1>16 DEF Asked
  <2>2. \A i \in 1..Len(Tail(list.peers)) : Tail(list.peers)[i] # k
    BY <1>6, <1>16, <2>1 DEF Asked
  <2>3. PICK i \in 1..Len(list.peers) : list.peers[i] = k
    BY <2>1
  <2>4. i = 1
    <3>1. ASSUME i # 1
          PROVE  FALSE
      <4>1. i - 1 \in 1..Len(Tail(list.peers)) /\ Tail(list.peers)[i - 1] = list.peers[i]
        BY <1>1, <2>3, <3>1
      <4>2. QED
        BY <2>2, <2>3, <4>1
    <3>2. QED
      BY <3>1
  <2>5. QED
    BY <1>1, <2>1, <2>3, <2>4
<1>17. ASSUME ~list.failed, NEW o \in list.acked, NEW p \in Batch[o],
              NEW k, k = task[o].node, NEW r, r = Route(k, p.id),
              k \in list.known, p.id \in NumericId, Asked(k, r)'
       PROVE  IsListed(p.id)'
  <2>1. CASE Asked(k, r)
    BY <1>1, <1>2, <1>12, <1>17, <2>1 DEF RemotesMerged
  <2>2. CASE ~Asked(k, r)
    <3>1. k = m /\ r = s
      BY <1>16, <1>17, <2>2
    <3>2. o \in Op /\ task[o].st = "ok"
      BY <1>1, <1>2, <1>17 DEF ListPlaced, ListRecord
    <3>3. s \in Shards[m] /\ p \in Point
      BY <1>17, <3>1, <3>2, AckedHasShard
    <3>4. PICK i \in 1..Len(log[m][s]) : log[m][s][i] = p
      <4>1. \E i \in 1..Len(log[task[o].node][Route(task[o].node, p.id)]) :
              log[task[o].node][Route(task[o].node, p.id)][i] = p
        BY <1>17, <3>2, AckedIsHeld DEF Written
      <4>2. task[o].node = m /\ Route(task[o].node, p.id) = s
        BY <1>17, <3>1
      <4>3. QED
        BY <4>1, <4>2
    <3>5. PICK q \in Contents(m, s) : q.id = p.id
      BY <1>1, <1>3, <3>4, ScanHas
    <3>6. q \in P
      BY <1>17, <3>3, <3>5
    <3>7. \E x \in M : x.id = p.id
      BY <1>7, <3>5, <3>6 DEF Adds
    <3>8. QED
      BY <1>6, <3>7 DEF IsListed
  <2>3. QED
    BY <2>1, <2>2
<1>18. RemotesMerged'
  <2> SUFFICES ASSUME ~list.failed, NEW o \in list.acked, NEW p \in Batch[o],
                      task[o].node \in list.known, p.id \in NumericId,
                      Asked(task[o].node, Route(task[o].node, p.id))'
               PROVE  IsListed(p.id)'
    BY <1>2, <1>6 DEF RemotesMerged
  <2>1. PICK k, r : k = task[o].node /\ r = Route(k, p.id)
    OBVIOUS
  <2>2. Asked(k, r)'
    BY <1>2, <2>1 DEF Asked, Scanned, Route
  <2>3. QED
    BY <1>17, <2>1, <2>2
<1>19. QED
  BY <1>8, <1>10, <1>15, <1>18 DEF ListInv

(* A shard is through once no remote is left.                              *)
LEMMA ListCollectInv ==
  ASSUME ListTyped, ListInv, ListCollect, UNCHANGED vars
  PROVE  ListInv'
<1>1. CASE list.failed
  BY <1>1, ListEnds DEF ListCollect
<1>2. CASE ~list.failed
  <2>1. /\ list.st = "remote" /\ list.peers = <<>> /\ list' = [list EXCEPT !.st = "pick"]
        /\ Listing /\ list \in ListRecord
    BY <1>2 DEF ListCollect, ListTyped, Listing
  <2>2. /\ list'.st = "pick" /\ list'.todo = list.todo /\ list'.shard = list.shard
        /\ list'.node = list.node /\ list'.merged = list.merged
        /\ list'.failed = list.failed /\ list'.acked = list.acked
        /\ list'.known = list.known /\ list'.newest = list.newest
    BY <2>1 DEF ListRecord
  <2>3. OwnHeld /\ OwnFirst /\ RemotesMerged /\ ListPlaced /\ task' = task /\ log' = log
    BY DEF ListInv, vars
  <2>4. ListPlaced'
    BY <1>2, <2>1, <2>2, <2>3 DEF ListPlaced, Listing, vars
  <2>5. \A id : Versions(list.node, id)' = Versions(list.node, id)
    BY <2>2 DEF vars, Versions, Route
  <2>6. OwnHeld'
    BY <2>1, <2>2, <2>3, <2>5 DEF OwnHeld
  <2>7. /\ \A r : Scanned(r)' <=> Scanned(r)
        /\ \A id : IsListed(id)' <=> IsListed(id)
    BY <2>1, <2>2 DEF Scanned, IsListed
  <2>8. OwnFirst'
    BY <2>1, <2>2, <2>3, <2>5, <2>7, OwnFirstStays
  <2>9. \A m, r : Asked(m, r)' => Asked(m, r)
    BY <2>1, <2>2, <2>7 DEF Asked
  <2>10. RemotesMerged'
    BY <2>1, <2>2, <2>3, <2>7, <2>9 DEF RemotesMerged, Route
  <2>11. QED
    BY <2>4, <2>6, <2>8, <2>10 DEF ListInv
<1>3. QED
  BY <1>1, <1>2

LEMMA ListNextInv ==
  ASSUME Written, ListTyped, ListInv, [ListNext]_listVars
  PROVE  ListInv'
<1>1. CASE list' = list
  BY <1>1, ListKept DEF Written
<1>2. CASE \E n \in Node : ListCrash(n)
  BY <1>1, <1>2, ListEnds DEF ListCrash
<1>3. CASE ListStep /\ UNCHANGED vars
  <2>1. CASE ListRemoteFails
    <3>1. list.st = "remote" /\ list.peers # <<>> /\ list.peers \in Seq(Node)
      BY <2>1 DEF ListRemoteFails, ListTyped, ListRecord
    <3>2. \A i \in 1..Len(list.peers) : list.peers[i] \in list.known
      BY <3>1 DEF ListInv, ListPlaced, Listing
    <3>3. \A i \in 1..Len(Tail(list.peers)) : Tail(list.peers)[i] \in list.known
      BY <3>1, <3>2
    <3>4. list' = [list EXCEPT !.st = "remote", !.peers = Tail(list.peers), !.failed = TRUE]
      BY <2>1 DEF ListRemoteFails, ListTyped, ListRecord
    <3>5. QED
      BY <1>3, <3>1, <3>3, <3>4, ListFailedInv
  <2>2. CASE ListFinish \/ ListGone
    BY <2>2, ListEnds DEF ListFinish, ListGone
  <2>3. QED
    BY <1>3, <2>1, <2>2, ListBeginInv, ListPickShardInv, ListLocalInv, ListRemoteInv,
       ListCollectInv DEF ListStep, Written
<1>4. QED
  BY <1>1, <1>2, <1>3, ListNextMoves DEF Join

LEMMA WritersHold == Spec => []WritersHaveShards
<1>1. WriteProgress /\ WritersHaveShards /\ [Next]_vars => WritersHaveShards'
  BY WritersStay
<1>2. QED
  BY <1>1, WritersInit, WriteProgressHolds, PTL DEF Spec

LEMMA WrittenHolds == ListSpec => [](Written /\ ListTyped)
<1>1. TypeOK /\ ListTyped /\ [ListNext]_listVars => ListTyped'
  BY ListNextTyped
<1>2. /\ WriteProgress /\ AckedIsReplicated /\ StoredWhereRead /\ WritersHaveShards
      => Written
  BY DEF Written
<1>3. QED
  BY <1>1, <1>2, ListInitTyped, ListWrites, TypeOKHolds, WriteProgressHolds,
     AckedIsReplicatedHolds, StoredWhereReadHolds, WritersHold, PTL DEF ListSpec

LEMMA ListInvHolds == ListSpec => []ListInv
<1>1. ListInit => ListInv
  BY DEF ListInit, NotListed, ListInv, ListPlaced, OwnHeld, OwnFirst, RemotesMerged, Listing
<1>2. Written /\ ListTyped /\ ListInv /\ [ListNext]_listVars => ListInv'
  BY ListNextInv
<1>3. QED
  BY <1>1, <1>2, WrittenHolds, PTL DEF ListSpec

-----------------------------------------------------------------------------

(* An answer is the list's last step, with all shards read and no failure. *)
LEMMA AnswersLast ==
  ASSUME ListTyped, ListInv, [ListNext]_listVars, Answers
  PROVE  /\ Listing /\ ~list.failed /\ list.node \in Node
         /\ Shards[list.node] # {}
         /\ \A id \in PointId : Scanned(Route(list.node, id))
         /\ \A m : \A s \in Shards[list.node] : Asked(m, s)
<1>1. ListStep
  <2>1. \A n \in Node : ~ListCrash(n)
    BY EndsTyped DEF ListCrash, Answers
  <2>2. QED
    BY <2>1, ListNextMoves DEF Answers, Join
<1>2. ListFinish
  <2>1. \A st \in {"ok", "err", "gone"} : Ends(st) => list'.st = st
    BY EndsTyped
  <2>2. ~ListCollect /\ ~ListGone
    <3>1. ASSUME ListCollect
          PROVE  list'.st # "ok"
      BY <2>1, <3>1 DEF ListCollect, ListTyped, ListRecord
    <3>2. QED
      BY <2>1, <3>1 DEF ListGone, Answers
  <2>3. ~ListRemote /\ ~ListRemoteFails /\ ~ListPickShard
    BY DEF ListRemote, ListRemoteFails, ListPickShard, Answers, ListTyped, ListRecord
  <2>4. ~ListLocal
    BY DEF ListLocal, Answers, ListTyped, ListRecord
  <2>5. \A n \in Node : ~ListBegin(n)
    BY DEF ListBegin, Answers, ListTyped, ListRecord
  <2>6. QED
    BY <1>1, <2>2, <2>3, <2>4, <2>5 DEF ListStep
<1>3. list.st = "pick" /\ list.todo = {} /\ list.merged # {} /\ Listing
  <2>1. list.st = "pick" /\ list.todo = {} /\ Listing
    BY <1>2 DEF ListFinish, Listing
  <2>2. list.merged # {}
    <3>1. ASSUME list.merged = {}
          PROVE  FALSE
      BY <1>2, <3>1, EndsTyped DEF ListFinish, Answers
    <3>2. QED
      BY <3>1
  <2>3. QED
    BY <2>1, <2>2
<1>4. ~list.failed /\ list.node \in Node /\ Shards[list.node] # {}
  BY <1>3 DEF ListInv, ListPlaced, ListTyped
<1>5. \A id \in PointId : Route(list.node, id) \in Shards[list.node]
  BY <1>4, PlacementAssumption DEF Route
<1>6. QED
  BY <1>3, <1>4, <1>5 DEF Scanned, Asked

(* A list that was answered with success lacks no point that was answered  *)
(* for before it began by its own peer or, with a numeric id and in a shard*)
(* that its peer has too, by a peer it knew: every replica of every shard  *)
(* was read, or the list fails, whatever is written, crashes or joins      *)
(* meanwhile (Collection::get_points).                                     *)
THEOREM ListIsCompleteHolds == ListSpec => ListIsComplete
<1>1. ASSUME Written, ListTyped, ListInv, [ListNext]_listVars, Answers,
             NEW o \in list.acked, NEW p \in Batch[o],
             \/ task[o].node = list.node
             \/ /\ task[o].node \in list.known /\ p.id \in NumericId
                /\ Route(task[o].node, p.id) \in Shards[list.node]
      PROVE  \E q \in list.merged : q.id = p.id
  <2>1. /\ Listing /\ ~list.failed /\ Shards[list.node] # {}
        /\ \A id \in PointId : Scanned(Route(list.node, id))
        /\ \A m : \A s \in Shards[list.node] : Asked(m, s)
    BY <1>1, AnswersLast
  <2>2. o \in Op /\ p.id \in PointId
    BY <1>1, RequestAssumption DEF ListTyped, ListRecord, Point
  <2>3. CASE task[o].node = list.node
    BY <1>1, <2>1, <2>2, <2>3 DEF ListInv, OwnHeld, OwnFirst, IsListed
  <2>4. CASE /\ task[o].node \in list.known /\ p.id \in NumericId
             /\ Route(task[o].node, p.id) \in Shards[list.node]
    BY <1>1, <2>1, <2>2, <2>4 DEF ListInv, RemotesMerged, IsListed
  <2>5. QED
    BY <1>1, <2>3, <2>4
<1>2. Written /\ ListTyped /\ ListInv /\ [ListNext]_listVars
        => [Answers =>
              \A o \in list.acked : \A p \in Batch[o] :
                \/ task[o].node = list.node
                \/ /\ task[o].node \in list.known /\ p.id \in NumericId
                   /\ Route(task[o].node, p.id) \in Shards[list.node]
                => \E q \in list.merged : q.id = p.id]_listVars
  BY <1>1
<1>3. QED
  BY <1>2, WrittenHolds, ListInvHolds, PTL DEF ListSpec, ListIsComplete

(* An id that the peer held when the list began, and that no peer it knew  *)
(* has in another of its shards, is listed with a version of its own log,  *)
(* at least that new: remotes come after the local replica of each shard   *)
(* and replace nothing (collection.rs:235).                                *)
THEOREM LocalTakesPrecedenceHolds == ListSpec => LocalTakesPrecedence
<1>1. ASSUME ListTyped, ListInv, [ListNext]_listVars, Answers,
             NEW p \in list.merged, NEW n, n = list.node,
             list.newest[p.id] > 0, SameShard(n, list.known, p.id)
      PROVE  \E i \in Versions(n, p.id) :
               i >= list.newest[p.id] /\ log[n][Route(n, p.id)][i] = p
  <2>1. Listing /\ ~list.failed
    BY <1>1, AnswersLast
  <2>2. QED
    BY <1>1, <2>1 DEF ListInv, OwnFirst
<1>2. ListTyped /\ ListInv /\ [ListNext]_listVars
        => [Answers =>
              \A p \in list.merged :
                LET n == list.node IN
                list.newest[p.id] > 0 /\ SameShard(n, list.known, p.id) =>
                  \E i \in Versions(n, p.id) :
                    i >= list.newest[p.id] /\ log[n][Route(n, p.id)][i] = p]_listVars
  BY <1>1
<1>3. QED
  BY <1>2, WrittenHolds, ListInvHolds, PTL DEF ListSpec, LocalTakesPrecedence
=============================================================================
