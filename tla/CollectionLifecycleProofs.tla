--------------------- MODULE CollectionLifecycleProofs ---------------------
(* Proofs about CollectionLifecycle, for any creates, deletes and crashes. *)
EXTENDS CollectionLifecycle, TLAPS

(* Facts about the constants that the steps below use.                     *)
LEMMA Names ==
  /\ None # "empty" /\ None # "torn" /\ None # Boot
  /\ \A q \in Create : q \in Request /\ q \notin Delete /\ q # None
  /\ \A d \in Delete : d \in Request
BY LifecycleAssumption DEF Request

LEMMA DropType ==
  ASSUME FilesOK, NEW owner
  PROVE  /\ Drop(owner) \in [Shard -> Owner]
         /\ \A s \in Shard : Drop(owner)[s] # None => shard[s] = "segment"
BY DEF FilesOK, Drop, Owner

LEMMA InitType == Init => TypeOK
<1> SUFFICES ASSUME Init
             PROVE  TypeOK
  OBVIOUS
<1>1. /\ NotBegun \in RequestRecord /\ NotBegun.next \in Shard
      /\ NotBegun.st = "idle" /\ NotBegun.file = FALSE
  BY DEF NotBegun, RequestRecord, Owner, Shard
<1>2. FilesOK
  BY DEF Init, FilesOK, Owner
<1>3. RequestsOK /\ HandlesOK
  BY <1>1 DEF Init, RequestsOK, HandlesOK, Request
<1>4. ProcessOK
  <2>1. MaxCrash \in Nat
    BY LifecycleAssumption
  <2>2. crashes \in 0..MaxCrash
    BY <2>1 DEF Init
  <2>3. QED
    BY <2>2 DEF Init, ProcessOK
<1>5. QED
  BY <1>2, <1>3, <1>4 DEF TypeOK

(* A step that writes one request's record, and lets no delete begin to    *)
(* remove files.                                                           *)
LEMMA OneRequest ==
  ASSUME RequestsOK, NEW q \in Request, NEW r \in RequestRecord,
         req' = [req EXCEPT ![q] = r],
         r.st # "remove",
         r.st \in Making => r.next \in Shard
  PROVE  RequestsOK'
<1>1. \A p \in Request : req'[p] = IF p = q THEN r ELSE req[p]
  BY DEF RequestsOK
<1>2. req' \in [Request -> RequestRecord]
  BY DEF RequestsOK
<1>3. QED
  BY <1>1, <1>2, Names DEF RequestsOK

(* A step that only moves a request on.                                    *)
LEMMA GoesOn ==
  ASSUME RequestsOK, HandlesOK, NEW q \in Request, NEW st, Goes(q, st),
         config' # None \/ config' = config,
         st \in {"mkdir", "config", "write", "dir", "open", "insert", "lock",
                 "ok", "err", "panic", "gone", "late"},
         st \in Making => req[q].next \in Shard
  PROVE  RequestsOK' /\ HandlesOK'
<1> DEFINE r == [req[q] EXCEPT !.st = st]
<1>1. req[q] \in RequestRecord
  BY DEF RequestsOK
<1>2. r \in RequestRecord /\ r.st = st /\ r.next = req[q].next /\ r.file = req[q].file
  BY <1>1 DEF RequestRecord
<1>3. req' = [req EXCEPT ![q] = r]
  BY DEF Goes
<1> HIDE DEF r
<1>4. RequestsOK'
  BY <1>2, <1>3, OneRequest
<1>5. \A p \in Request : req'[p] = IF p = q THEN r ELSE req[p]
  BY <1>3 DEF RequestsOK
<1>6. HandlesOK'
  BY <1>2, <1>5 DEF HandlesOK
<1>7. QED
  BY <1>4, <1>6

-----------------------------------------------------------------------------

(* The steps of a create.                                                  *)

LEMMA CheckPathType ==
  ASSUME TypeOK, NEW q \in Create, CheckPath(q)
  PROVE  TypeOK'
<1>1. PICK st \in {"mkdir", "err"} : Goes(q, st)
  BY DEF CheckPath
<1>2. q \in Request /\ req[q].next \in Shard /\ config' = config
  BY Names DEF CheckPath, MayBegin, TypeOK, RequestsOK, Making
<1>3. RequestsOK' /\ HandlesOK'
  BY <1>1, <1>2, GoesOn DEF TypeOK
<1>4. QED
  BY <1>3 DEF CheckPath, TypeOK, FilesOK, ProcessOK

LEMMA MakeDirType ==
  ASSUME TypeOK, NEW q \in Create, MakeDir(q)
  PROVE  TypeOK'
<1>1. PICK st \in {"config", "gone"} : Goes(q, st) /\ (st = "config" => req[q].st = "mkdir")
  BY DEF MakeDir
<1>2. q \in Request /\ (req[q].st = "mkdir" => req[q].next \in Shard) /\ config' = config
  BY Names DEF MakeDir, TypeOK, RequestsOK, Making
<1>3. RequestsOK' /\ HandlesOK'
  BY <1>1, <1>2, GoesOn DEF TypeOK, Making
<1>4. QED
  BY <1>3 DEF MakeDir, TypeOK, FilesOK, ProcessOK

LEMMA CreateConfigType ==
  ASSUME TypeOK, NEW q \in Create, CreateConfig(q)
  PROVE  TypeOK'
<1>1. CASE dir
  <2> DEFINE r == [req[q] EXCEPT !.st = "write", !.file = TRUE]
  <2>1. q \in Request /\ req[q] \in RequestRecord
    BY Names DEF TypeOK, RequestsOK
  <2>2. r \in RequestRecord /\ r.st = "write" /\ r.next = req[q].next
    BY <2>1 DEF RequestRecord
  <2>2a. req[q].next \in Shard
    BY <2>1 DEF CreateConfig, TypeOK, RequestsOK, Making
  <2>3. req' = [req EXCEPT ![q] = r]
    BY <1>1, <2>1 DEF CreateConfig, TypeOK, RequestsOK, RequestRecord
  <2> HIDE DEF r
  <2>4. RequestsOK'
    BY <2>1, <2>2, <2>3, <2>2a, OneRequest DEF TypeOK
  <2>5. config' = "empty"
    BY <1>1 DEF CreateConfig
  <2>6. QED
    BY <1>1, <2>4, <2>5, Names
    DEF CreateConfig, TypeOK, FilesOK, ProcessOK, HandlesOK
<1>2. CASE ~dir
  <2>1. q \in Request /\ Goes(q, "err") /\ config' = config
    BY <1>2, Names DEF CreateConfig
  <2>2. RequestsOK' /\ HandlesOK'
    BY <2>1, GoesOn DEF TypeOK, Making
  <2>3. QED
    BY <2>1, <2>2 DEF CreateConfig, TypeOK, FilesOK, ProcessOK
<1>3. QED
  BY <1>1, <1>2

LEMMA WriteConfigType ==
  ASSUME TypeOK, NEW q \in Create, WriteConfig(q)
  PROVE  TypeOK'
<1>1. Goes(q, "dir") /\ q \in Request
  BY Names DEF WriteConfig
<1>2. \/ req[q].file /\ config' \in {q, "torn"}
      \/ config' = config
  BY DEF WriteConfig
<1>3. config' # None \/ config' = config
  BY <1>2, Names
<1>4. req[q].next \in Shard
  BY <1>1 DEF WriteConfig, TypeOK, RequestsOK, Making
<1>5. RequestsOK' /\ HandlesOK'
  BY <1>1, <1>3, <1>4, GoesOn DEF TypeOK
<1>6. FilesOK'
  BY <1>1, <1>2 DEF WriteConfig, TypeOK, FilesOK, HandlesOK
<1>7. QED
  BY <1>5, <1>6 DEF WriteConfig, TypeOK, ProcessOK

LEMMA MakeShardType ==
  ASSUME TypeOK, NEW q \in Create, MakeShard(q)
  PROVE  TypeOK'
<1>1. Goes(q, "open") /\ q \in Request /\ req[q].next \in Shard
  BY Names DEF MakeShard, TypeOK, RequestsOK, Making
<1>2. RequestsOK' /\ HandlesOK'
  BY <1>1, GoesOn DEF TypeOK, MakeShard
<1>3. FilesOK'
  BY <1>1 DEF MakeShard, TypeOK, FilesOK
<1>4. QED
  BY <1>2, <1>3 DEF MakeShard, TypeOK, ProcessOK

LEMMA OpenSegmentType ==
  ASSUME TypeOK, NEW q \in Create, OpenSegment(q)
  PROVE  TypeOK'
<1> DEFINE s == req[q].next
           st == IF s + 1 \in Shard THEN "dir" ELSE "insert"
           r == [req[q] EXCEPT !.next = s + 1, !.st = st]
<1>1. /\ q \in Request /\ req[q] \in RequestRecord /\ s \in Shard
      /\ dir' = TRUE /\ config' = config
      /\ shard' = [shard EXCEPT ![s] = "segment"]
  BY Names DEF OpenSegment, TypeOK, RequestsOK, Making
<1>2. CASE lock[s] = None
  <2>1. lock' = [lock EXCEPT ![s] = q]
    BY <1>2 DEF OpenSegment
  <2>2. FilesOK'
    BY <1>1, <2>1 DEF TypeOK, FilesOK, Owner
  <2>3. s + 1 \in 0..2 /\ st \in {"dir", "insert"} /\ (st = "dir" => s + 1 \in Shard)
    BY <1>1 DEF Shard
  <2>4. r \in RequestRecord /\ r.st = st /\ r.next = s + 1 /\ r.file = req[q].file
    BY <1>1, <2>3 DEF RequestRecord
  <2>5. req' = [req EXCEPT ![q] = r]
    BY <1>1, <1>2 DEF OpenSegment, TypeOK, RequestsOK, RequestRecord
  <2> HIDE DEF r, st
  <2>6. RequestsOK'
    BY <1>1, <2>3, <2>4, <2>5, OneRequest DEF TypeOK, Making
  <2>7. \A p \in Request : req'[p].file = req[p].file
    BY <2>4, <2>5 DEF TypeOK, RequestsOK
  <2>8. HandlesOK'
    BY <1>1, <2>7 DEF TypeOK, HandlesOK
  <2>9. QED
    BY <2>2, <2>6, <2>8 DEF OpenSegment, TypeOK, ProcessOK
<1>3. CASE lock[s] # None
  <2>1. lock' = Drop(q) /\ Goes(q, "panic")
    BY <1>3 DEF OpenSegment
  <2>2. RequestsOK' /\ HandlesOK'
    BY <1>1, <2>1, GoesOn DEF TypeOK, Making
  <2>3. FilesOK'
    BY <1>1, <2>1, DropType DEF TypeOK, FilesOK
  <2>4. QED
    BY <2>2, <2>3 DEF OpenSegment, TypeOK, ProcessOK
<1>4. QED
  BY <1>2, <1>3

LEMMA InsertType ==
  ASSUME TypeOK, NEW q \in Create, Insert(q)
  PROVE  TypeOK'
<1>1. PICK st \in {"ok", "err"} : q \in Request /\ Goes(q, st) /\ config' = config
  BY Names DEF Insert
<1>2. RequestsOK' /\ HandlesOK'
  BY <1>1, GoesOn DEF TypeOK, Making
<1>3. lock' = lock \/ lock' = Drop(q)
  BY DEF Insert
<1>4. FilesOK'
  BY <1>3, DropType DEF Insert, TypeOK, FilesOK
<1>5. ProcessOK'
  BY DEF Insert, TypeOK, ProcessOK, Collection
<1>6. QED
  BY <1>2, <1>4, <1>5 DEF TypeOK

LEMMA CreateFailsType ==
  ASSUME TypeOK, NEW q \in Create, CreateFails(q)
  PROVE  TypeOK'
<1>1. PICK st \in {"err", "panic"} : q \in Request /\ Goes(q, st) /\ config' = config
  BY Names DEF CreateFails
<1>2. RequestsOK' /\ HandlesOK'
  BY <1>1, GoesOn DEF TypeOK, Making
<1>3. FilesOK'
  BY DropType DEF CreateFails, TypeOK, FilesOK
<1>4. QED
  BY <1>2, <1>3 DEF CreateFails, TypeOK, ProcessOK

-----------------------------------------------------------------------------

(* The steps of a delete.                                                  *)

LEMMA AskType ==
  ASSUME TypeOK, NEW q \in Delete, Ask(q)
  PROVE  TypeOK'
<1>1. q \in Request /\ Goes(q, "lock") /\ config' = config
  BY Names DEF Ask
<1>2. RequestsOK' /\ HandlesOK'
  BY <1>1, GoesOn DEF TypeOK, Making
<1>3. QED
  BY <1>2 DEF Ask, TypeOK, FilesOK, ProcessOK

(* The delete that takes the collection out is the only one that has the   *)
(* write lock.                                                             *)
LEMMA TakeOutType ==
  ASSUME TypeOK, NEW q \in Delete, TakeOut(q)
  PROVE  TypeOK'
<1>1. q \in Request /\ req[q] \in RequestRecord /\ config' = config
      /\ \A d \in Delete : req[d].st # "remove"
  BY Names DEF TakeOut, Locked, TypeOK, RequestsOK
<1>2. FilesOK'
  <2>1. lock' = lock \/ lock' = Drop(served.by)
    BY DEF TakeOut
  <2>2. QED
    BY <2>1, DropType DEF TakeOut, TypeOK, FilesOK
<1>3. ProcessOK'
  BY DEF TakeOut, TypeOK, ProcessOK
<1>4. CASE served # None /\ dir
  <2> DEFINE r == [req[q] EXCEPT !.st = "remove", !.owner = served.by]
  <2>1. served.by \in Owner
    BY <1>4 DEF TypeOK, ProcessOK, Collection, Owner
  <2>2. r \in RequestRecord /\ r.st = "remove" /\ r.file = req[q].file
    BY <1>1, <2>1 DEF RequestRecord
  <2>3. req' = [req EXCEPT ![q] = r]
    BY <1>1, <1>4 DEF TakeOut, TypeOK, RequestsOK, RequestRecord
  <2> HIDE DEF r
  <2>4. \A p \in Request : req'[p] = IF p = q THEN r ELSE req[p]
    BY <2>3 DEF TypeOK, RequestsOK
  <2>5. req' \in [Request -> RequestRecord]
    BY <2>2, <2>3 DEF TypeOK, RequestsOK
  <2>6. \A d \in Delete : req'[d].st = "remove" => d = q
    BY <1>1, <2>4, Names
  <2>7. RequestsOK'
    BY <2>2, <2>4, <2>5, <2>6 DEF TypeOK, RequestsOK, Making
  <2>8. HandlesOK'
    BY <1>1, <2>2, <2>4 DEF TypeOK, HandlesOK
  <2>9. QED
    BY <1>2, <1>3, <2>7, <2>8 DEF TypeOK
<1>5. CASE served = None \/ ~dir
  <2>1. Goes(q, "err")
    BY <1>5 DEF TakeOut
  <2>2. RequestsOK' /\ HandlesOK'
    BY <1>1, <2>1, GoesOn DEF TypeOK, Making
  <2>3. QED
    BY <1>2, <1>3, <2>2 DEF TypeOK
<1>6. QED
  BY <1>4, <1>5

LEMMA RemoveConfigType ==
  ASSUME TypeOK, NEW q \in Delete, RemoveConfig(q)
  PROVE  TypeOK'
<1>1. ASSUME NEW p \in Request
      PROVE  /\ req'[p] \in RequestRecord
             /\ req'[p].st = req[p].st
             /\ req'[p].next = req[p].next
             /\ req'[p].file = FALSE
  <2>1. req[p] \in RequestRecord
    BY DEF TypeOK, RequestsOK
  <2>2. req'[p] = [req[p] EXCEPT !.file = FALSE]
    BY DEF RemoveConfig
  <2>3. QED
    BY <2>1, <2>2 DEF RequestRecord
<1>2. req' \in [Request -> RequestRecord]
  BY <1>1 DEF RemoveConfig
<1>3. RequestsOK'
  BY <1>1, <1>2, Names DEF TypeOK, RequestsOK
<1>4. HandlesOK'
  BY <1>1 DEF HandlesOK
<1>5. QED
  BY <1>3, <1>4 DEF RemoveConfig, TypeOK, FilesOK, ProcessOK

LEMMA RemoveShardType ==
  ASSUME TypeOK, NEW q \in Delete, RemoveShard(q)
  PROVE  TypeOK'
<1>1. PICK s \in Shard :
        /\ shard[s] # "none"
        /\ shard' = [shard EXCEPT ![s] = IF @ = "segment" THEN "dir" ELSE "none"]
        /\ lock' = [lock EXCEPT ![s] = None]
  BY DEF RemoveShard
<1>2. FilesOK'
  BY <1>1 DEF RemoveShard, TypeOK, FilesOK, Owner
<1>3. QED
  BY <1>2 DEF RemoveShard, TypeOK, RequestsOK, ProcessOK, HandlesOK

LEMMA RemoveDirType ==
  ASSUME TypeOK, NEW q \in Delete, RemoveDir(q)
  PROVE  TypeOK'
<1>1. q \in Request /\ Goes(q, "ok") /\ config' = config
  BY Names DEF RemoveDir
<1>2. RequestsOK' /\ HandlesOK'
  BY <1>1, GoesOn DEF TypeOK, Making
<1>3. FilesOK'
  BY DropType DEF RemoveDir, TypeOK, FilesOK
<1>4. QED
  BY <1>2, <1>3 DEF RemoveDir, TypeOK, ProcessOK

LEMMA RemoveFailsType ==
  ASSUME TypeOK, NEW q \in Delete, RemoveFails(q)
  PROVE  TypeOK'
<1>1. q \in Request /\ Goes(q, "err") /\ config' = config
  BY Names DEF RemoveFails
<1>2. RequestsOK' /\ HandlesOK'
  BY <1>1, GoesOn DEF TypeOK, Making
<1>3. FilesOK'
  BY DropType DEF RemoveFails, TypeOK, FilesOK
<1>4. QED
  BY <1>2, <1>3 DEF RemoveFails, TypeOK, ProcessOK

-----------------------------------------------------------------------------

(* What may happen to any request, and to the process.                     *)

LEMMA ClientGoneType ==
  ASSUME TypeOK, NEW q \in Request, ClientGone(q)
  PROVE  TypeOK'
<1>1. PICK st \in {"late", "gone"} : Goes(q, st) /\ config' = config
  BY DEF ClientGone
<1>2. RequestsOK' /\ HandlesOK'
  BY <1>1, GoesOn DEF TypeOK, Making
<1>3. FilesOK'
  BY DropType DEF ClientGone, TypeOK, FilesOK
<1>4. QED
  BY <1>2, <1>3 DEF ClientGone, TypeOK, ProcessOK

LEMMA CrashType ==
  ASSUME TypeOK, Crash
  PROVE  TypeOK'
<1>1. ASSUME NEW p \in Request
      PROVE  /\ req'[p] \in RequestRecord
             /\ req'[p] = req[p] \/ req'[p].st = "gone"
             /\ req'[p].file = req[p].file
  <2>1. req[p] \in RequestRecord
    BY DEF TypeOK, RequestsOK
  <2>2. req'[p] = req[p] \/ req'[p] = [req[p] EXCEPT !.st = "gone"]
    BY DEF Crash
  <2>3. QED
    BY <2>1, <2>2 DEF RequestRecord
<1>2. req' \in [Request -> RequestRecord]
  BY <1>1 DEF Crash
<1>3. RequestsOK'
  BY <1>1, <1>2, Names DEF TypeOK, RequestsOK, Making
<1>4. HandlesOK'
  BY <1>1 DEF Crash, TypeOK, HandlesOK
<1>5. FilesOK'
  BY DEF Crash, TypeOK, FilesOK, Owner
<1>6. crashes' \in 0..MaxCrash
  BY LifecycleAssumption DEF Crash, TypeOK, ProcessOK
<1>7. ProcessOK'
  BY <1>6 DEF Crash, TypeOK, ProcessOK
<1>8. QED
  BY <1>3, <1>4, <1>5, <1>7 DEF TypeOK

LEMMA RestartType ==
  ASSUME TypeOK, Restart
  PROVE  TypeOK'
<1> DEFINE found == {s \in Shard : shard[s] = "segment"}
<1>1. RequestsOK' /\ HandlesOK'
  BY DEF Restart, Found, Unreadable, TypeOK, RequestsOK, HandlesOK
<1>2. \/ lock' = lock
      \/ lock' = [s \in Shard |-> IF s \in found THEN Boot ELSE None]
  BY DEF Restart, Found, Unreadable
<1>3. FilesOK'
  BY <1>2 DEF Restart, Found, Unreadable, TypeOK, FilesOK, Owner
<1>4. \/ served' = served
      \/ /\ config \in Create
         /\ served' = [by |-> Boot, config |-> config, segments |-> found]
  BY DEF Restart, Found, Unreadable, TypeOK, FilesOK
<1>5. served' = None \/ served' \in Collection
  BY <1>4 DEF Collection, TypeOK, ProcessOK
<1>6. up' \in BOOLEAN /\ panicked' \in BOOLEAN
  BY DEF Restart, Found, Unreadable, TypeOK, ProcessOK
<1>7. QED
  BY <1>1, <1>3, <1>5, <1>6 DEF Restart, Found, Unreadable, TypeOK, ProcessOK

LEMMA NextType == TypeOK /\ [Next]_vars => TypeOK'
<1> SUFFICES ASSUME TypeOK, [Next]_vars
             PROVE  TypeOK'
  OBVIOUS
<1>1. ASSUME NEW q \in Create, CreateStep(q)
      PROVE  TypeOK'
  BY <1>1, CheckPathType, MakeDirType, CreateConfigType, WriteConfigType,
     MakeShardType, OpenSegmentType, InsertType, CreateFailsType DEF CreateStep
<1>2. ASSUME NEW q \in Delete, DeleteStep(q)
      PROVE  TypeOK'
  BY <1>2, AskType, TakeOutType, RemoveConfigType, RemoveShardType,
     RemoveDirType, RemoveFailsType DEF DeleteStep
<1>3. CASE UNCHANGED vars
  BY <1>3 DEF vars, TypeOK, FilesOK, RequestsOK, ProcessOK, HandlesOK
<1>4. QED
  BY <1>1, <1>2, <1>3, ClientGoneType, CrashType, RestartType DEF Next

(* However creates, deletes, crashes and restarts interleave, files lie in *)
(* the directory, only a segment that exists is locked, a handle that is   *)
(* written through is that of a file, and one delete at a time removes.    *)
THEOREM LifecycleTypeOKHolds == Spec => []TypeOK
BY InitType, NextType, PTL DEF Spec

-----------------------------------------------------------------------------

(* A step that leaves the map alone and moves one create on, which has not *)
(* been answered: the locks it lets go of are its own.                     *)
LEMMA CreateKeeps ==
  ASSUME RaceInv, TypeOK', NEW q \in Create,
         req[q].st # "ok", up, up' = up,
         served' = served,
         \A p \in Create \ {q} : req'[p] = req[p],
         \A s \in Shard : lock[s] # None /\ lock[s] # q => lock'[s] = lock[s],
         \A s \in Shard : shard[s] = "segment" => shard'[s] = "segment",
         req'[q].st \in {"idle", "mkdir", "config", "write"} => req'[q].next = 0,
         \A s \in Made(q)' : lock'[s] = q
  PROVE  RaceInv'
<1>1. \A p \in Create : p # None /\ p \in Request
  BY Names
<1>2. ASSUME NEW p \in Create \ {q}
      PROVE  /\ req'[p].st \in {"idle", "mkdir", "config", "write"} => req'[p].next = 0
             /\ \A s \in Made(p)' : lock'[s] = p
  <2>1. Made(p)' = Made(p)
    BY DEF Made
  <2>2. Made(p) \subseteq Shard
    <3>1. req[p].st \in {"dir", "open"} => req[p].next \in Shard
      BY <1>1 DEF RaceInv, TypeOK, RequestsOK, Making
    <3>2. QED
      BY <3>1 DEF Made, Shard
  <2>3. QED
    BY <1>1, <2>1, <2>2 DEF RaceInv, HoldsMade
<1>3. HoldsMade'
  BY <1>2 DEF HoldsMade
<1>4. InMap'
  BY DEF RaceInv, InMap
<1>5. ServedIsOpen'
  <2> SUFFICES ASSUME served # None, NEW s \in served.segments
               PROVE  shard'[s] = "segment" /\ lock'[s] = served.by
    BY DEF ServedIsOpen
  <2>1. served.segments \subseteq Shard /\ served.by \in Create \cup {Boot}
    BY DEF RaceInv, TypeOK, ProcessOK, Collection
  <2>2. served.by # q
    BY DEF RaceInv, InMap
  <2>3. shard[s] = "segment" /\ lock[s] = served.by
    BY DEF RaceInv, ServedIsOpen
  <2>4. served.by # None
    BY <1>1, <2>1, Names
  <2>5. QED
    BY <2>1, <2>2, <2>3, <2>4
<1>6. QuietWhenDown'
  BY DEF QuietWhenDown
<1>7. QED
  BY <1>3, <1>4, <1>5, <1>6 DEF RaceInv

LEMMA GoesKeeps ==
  ASSUME RaceInv, TypeOK', NEW q \in Create, NEW st, Goes(q, st),
         req[q].st # "ok", up, up' = up,
         st \in {"mkdir", "config", "write"} => req[q].next = 0,
         \/ /\ lock' = lock
            /\ \/ st \in {"mkdir", "config", "write", "err", "gone"}
               \/ st = "dir" /\ req[q].next = 0
               \/ st = "open" /\ req[q].st = "dir"
         \/ lock' = Drop(q) /\ st \in {"err", "panic", "gone", "late"},
         served' = served,
         \A s \in Shard : shard[s] = "segment" => shard'[s] = "segment"
  PROVE  RaceInv'
<1>1. q \in Request /\ req[q] \in RequestRecord /\ lock \in [Shard -> Owner]
  BY Names DEF RaceInv, TypeOK, RequestsOK, FilesOK
<1>2. req'[q].st = st /\ req'[q].next = req[q].next
  BY <1>1 DEF Goes, RaceInv, TypeOK, RequestsOK, RequestRecord
<1>3. \A p \in Create \ {q} : req'[p] = req[p]
  BY <1>1 DEF Goes, RaceInv, TypeOK, RequestsOK
<1>4. \A s \in Shard : lock[s] # None /\ lock[s] # q => lock'[s] = lock[s]
  BY <1>1 DEF Drop
<1>5. \A s \in Made(q)' : lock'[s] = q
  <2>1. CASE st \notin {"dir", "open"}
    BY <1>2, <2>1 DEF Made
  <2>2. CASE st = "dir"
    BY <1>2, <2>2 DEF Made
  <2>3. CASE st = "open"
    <3>1. Made(q)' = Made(q) /\ lock' = lock
      BY <1>2, <2>3 DEF Made
    <3>2. QED
      BY <3>1 DEF RaceInv, HoldsMade
  <2>4. QED
    BY <2>1, <2>2, <2>3
<1>6. req'[q].st \in {"idle", "mkdir", "config", "write"} => req'[q].next = 0
  BY <1>2
<1>7. QED
  BY <1>3, <1>4, <1>5, <1>6, CreateKeeps

LEMMA CreateRace ==
  ASSUME RaceInv, TypeOK', NEW q \in Create, CreateStep(q)
  PROVE  RaceInv'
<1>1. q \in Request /\ req[q] \in RequestRecord
  BY Names DEF RaceInv, TypeOK, RequestsOK
<1>2. req[q].st \in {"idle", "mkdir", "config", "write"} => req[q].next = 0
  BY DEF RaceInv, HoldsMade
<1>up. up /\ up' = up
  BY DEF RaceInv, QuietWhenDown, CreateStep, CheckPath, MayBegin, MakeDir,
         CreateConfig, WriteConfig, MakeShard, OpenSegment, Insert, CreateFails
<1>3. CASE CheckPath(q)
  <2>1. PICK st \in {"mkdir", "err"} : Goes(q, st)
    BY <1>3 DEF CheckPath
  <2>2. QED
    BY <1>up, <1>2, <1>3, <2>1, GoesKeeps DEF CheckPath, MayBegin
<1>4. CASE MakeDir(q)
  <2>1. PICK st \in {"config", "gone"} : Goes(q, st) /\ (st = "config" => req[q].st = "mkdir")
    BY <1>4 DEF MakeDir
  <2>2. QED
    BY <1>up, <1>2, <1>4, <2>1, GoesKeeps DEF MakeDir
<1>5. CASE CreateConfig(q)
  <2>1. CASE dir
    <3> DEFINE r == [req[q] EXCEPT !.st = "write", !.file = TRUE]
    <3>1. r.st = "write" /\ r.next = req[q].next
      BY <1>1 DEF RequestRecord
    <3>2. req' = [req EXCEPT ![q] = r]
      BY <1>1, <1>5, <2>1 DEF CreateConfig, RaceInv, TypeOK, RequestsOK, RequestRecord
    <3> HIDE DEF r
    <3>3. req'[q] = r /\ \A p \in Create \ {q} : req'[p] = req[p]
      BY <1>1, <3>2 DEF RaceInv, TypeOK, RequestsOK
    <3>4. \A s \in Made(q)' : lock'[s] = q
      BY <3>1, <3>3 DEF Made
    <3>5. QED
      BY <1>up, <1>2, <1>5, <3>1, <3>3, <3>4, CreateKeeps DEF CreateConfig
  <2>2. CASE ~dir
    <3>1. Goes(q, "err")
      BY <1>5, <2>2 DEF CreateConfig
    <3>2. QED
      BY <1>up, <1>5, <3>1, GoesKeeps DEF CreateConfig
  <2>3. QED
    BY <2>1, <2>2
<1>6. CASE WriteConfig(q)
  BY <1>up, <1>2, <1>6, GoesKeeps DEF WriteConfig
<1>7. CASE MakeShard(q)
  <2>1. \A s \in Shard : shard[s] = "segment" => shard'[s] = "segment"
    BY <1>7 DEF MakeShard, RaceInv, TypeOK, FilesOK
  <2>2. QED
    BY <1>up, <1>7, <2>1, GoesKeeps DEF MakeShard
<1>8. CASE OpenSegment(q)
  <2> DEFINE s == req[q].next
             st == IF s + 1 \in Shard THEN "dir" ELSE "insert"
             r == [req[q] EXCEPT !.next = s + 1, !.st = st]
  <2>1. s \in Shard /\ lock \in [Shard -> Owner]
    BY <1>1, <1>8 DEF OpenSegment, RaceInv, TypeOK, FilesOK, RequestsOK, Making
  <2>2. \A z \in Shard : shard[z] = "segment" => shard'[z] = "segment"
    BY <1>8, <2>1 DEF OpenSegment, RaceInv, TypeOK, FilesOK
  <2>3. CASE lock[s] = None
    <3>1. lock' = [lock EXCEPT ![s] = q]
      BY <1>8, <2>3 DEF OpenSegment
    <3>2. r.st = st /\ r.next = s + 1 /\ st \in {"dir", "insert"}
      BY <1>1 DEF RequestRecord
    <3>3. req' = [req EXCEPT ![q] = r]
      BY <1>1, <1>8, <2>3 DEF OpenSegment, RaceInv, TypeOK, RequestsOK, RequestRecord
    <3>4. \A z \in 0..(s - 1) : lock[z] = q
      BY <1>8 DEF OpenSegment, RaceInv, HoldsMade, Made
    <3>5. \A z \in 0..s : lock'[z] = q
      BY <2>1, <3>1, <3>4 DEF Shard
    <3>6. st = "insert" => s = 1
      BY <2>1 DEF Shard
    <3> HIDE DEF r, st
    <3>7. req'[q] = r /\ \A p \in Create \ {q} : req'[p] = req[p]
      BY <1>1, <3>3 DEF RaceInv, TypeOK, RequestsOK
    <3>8. \A z \in Made(q)' : lock'[z] = q
      <4>1. CASE st = "insert"
        BY <3>2, <3>5, <3>6, <3>7, <4>1 DEF Made, Shard
      <4>2. CASE st = "dir"
        <5>1. req'[q].st = "dir" /\ req'[q].next = s + 1
          BY <3>2, <3>7, <4>2
        <5>2. Made(q)' = 0..(req'[q].next - 1)
          BY <5>1 DEF Made
        <5>3. req'[q].next - 1 = s
          BY <2>1, <5>1 DEF Shard
        <5>4. QED
          BY <3>5, <5>2, <5>3
      <4>3. QED
        BY <3>2, <4>1, <4>2
    <3>9. \A z \in Shard : lock[z] # None /\ lock[z] # q => lock'[z] = lock[z]
      BY <2>1, <2>3, <3>1
    <3>10. QED
      BY <1>up, <1>8, <2>2, <3>2, <3>7, <3>8, <3>9, CreateKeeps DEF OpenSegment
  <2>4. CASE lock[s] # None
    BY <1>up, <1>8, <2>2, <2>4, GoesKeeps DEF OpenSegment
  <2>5. QED
    BY <2>3, <2>4
<1>9. CASE Insert(q)
  <2>1. CASE served = None
    <3>1. /\ Goes(q, "ok") /\ lock' = lock /\ shard' = shard
          /\ served' = [by |-> q, config |-> q, segments |-> Shard]
      BY <1>9, <2>1 DEF Insert
    <3>2. req'[q].st = "ok" /\ \A p \in Create \ {q} : req'[p] = req[p]
      BY <1>1, <3>1 DEF Goes, RaceInv, TypeOK, RequestsOK, RequestRecord
    <3>3. \A s \in Shard : lock[s] = q /\ q # None
      BY <1>9, Names DEF Insert, RaceInv, HoldsMade, Made
    <3>4. \A s \in Shard : shard[s] = "segment"
      BY <3>3 DEF RaceInv, TypeOK, FilesOK
    <3>5. ServedIsOpen' /\ InMap'
      BY <3>1, <3>2, <3>3, <3>4 DEF ServedIsOpen, InMap
    <3>6. Made(q)' = {}
      BY <3>2 DEF Made
    <3>7. \A p \in Create \ {q} : Made(p)' = Made(p)
      BY <3>2 DEF Made
    <3>8. HoldsMade'
      BY <3>1, <3>2, <3>6, <3>7 DEF HoldsMade, RaceInv
    <3>9. QED
      BY <1>up, <3>5, <3>8 DEF RaceInv, QuietWhenDown
  <2>2. CASE served # None
    BY <1>up, <1>9, <2>2, GoesKeeps DEF Insert
  <2>3. QED
    BY <2>1, <2>2
<1>10. CASE CreateFails(q)
  <2>1. PICK st \in {"err", "panic"} : Goes(q, st)
    BY <1>10 DEF CreateFails
  <2>2. QED
    BY <1>up, <1>10, <2>1, GoesKeeps DEF CreateFails
<1>11. QED
  BY <1>3, <1>4, <1>5, <1>6, <1>7, <1>8, <1>9, <1>10 DEF CreateStep

LEMMA CrashRace ==
  ASSUME RaceInv, TypeOK', Crash
  PROVE  RaceInv'
<1>1. ASSUME NEW p \in Create
      PROVE  \/ req'[p] = req[p] /\ req[p].st \in {"idle", "ok", "err", "panic", "gone"}
             \/ req'[p].st = "gone"
  <2>1. p \in Request /\ req[p] \in RequestRecord
    BY Names DEF RaceInv, TypeOK, RequestsOK
  <2>2. QED
    BY <2>1 DEF Crash, Over, RequestRecord
<1>2. \A p \in Create : Made(p)' = {}
  BY <1>1 DEF Made
<1>3. HoldsMade'
  BY <1>1, <1>2 DEF RaceInv, HoldsMade
<1>4. InMap' /\ ServedIsOpen' /\ QuietWhenDown'
  BY <1>1 DEF Crash, InMap, ServedIsOpen, QuietWhenDown
<1>5. QED
  BY <1>3, <1>4 DEF RaceInv

LEMMA RestartRace ==
  ASSUME RaceInv, TypeOK', Restart
  PROVE  RaceInv'
<1>1. \A p \in Create : Made(p) = {} /\ Made(p)' = {}
  BY DEF Restart, Found, Unreadable, RaceInv, QuietWhenDown, Made
<1>2. HoldsMade'
  BY <1>1 DEF Restart, Found, Unreadable, RaceInv, HoldsMade
<1>3. served = None
  BY DEF Restart, Found, Unreadable, RaceInv, QuietWhenDown
<1>4. QuietWhenDown'
  BY <1>3 DEF Restart, Found, Unreadable, RaceInv, QuietWhenDown
<1>5. CASE dir /\ config \notin {None, "empty", "torn"}
  <2> DEFINE found == {s \in Shard : shard[s] = "segment"}
  <2>1. /\ served' = [by |-> Boot, config |-> config, segments |-> found]
        /\ lock' = [s \in Shard |-> IF s \in found THEN Boot ELSE None]
        /\ shard' = shard
    BY <1>5 DEF Restart, Found, Unreadable
  <2>2. Boot \notin Create
    BY LifecycleAssumption DEF Request
  <2>3. served'.by = Boot /\ served'.segments = found
    BY <2>1
  <2>4. InMap'
    BY <2>2, <2>3 DEF InMap
  <2>5. ServedIsOpen'
    BY <2>1, <2>3 DEF ServedIsOpen
  <2>6. QED
    BY <1>2, <1>4, <2>4, <2>5 DEF RaceInv
<1>6. CASE ~(dir /\ config \notin {None, "empty", "torn"})
  <2>1. served' = None
    BY <1>3, <1>6 DEF Restart, Found, Unreadable
  <2>2. InMap' /\ ServedIsOpen'
    BY <2>1 DEF InMap, ServedIsOpen
  <2>3. QED
    BY <1>2, <1>4, <2>2 DEF RaceInv
<1>7. QED
  BY <1>5, <1>6

LEMMA ClientGoneRace ==
  ASSUME RaceInv, TypeOK', NEW q \in Create, ClientGone(q)
  PROVE  RaceInv'
<1>1. up /\ up' = up
  BY DEF RaceInv, QuietWhenDown, ClientGone
<1>2. PICK st \in {"late", "gone"} : Goes(q, st)
  BY DEF ClientGone
<1>3. QED
  BY <1>1, <1>2, GoesKeeps DEF ClientGone

LEMMA NextRace ==
  ASSUME RaceInv, TypeOK', Delete = {}, [Next]_vars
  PROVE  RaceInv'
<1>1. CASE Next
  <2>1. Request = Create
    BY DEF Request
  <2>2. CASE \E q \in Create : CreateStep(q)
    BY <2>2, CreateRace
  <2>3. CASE \E q \in Request : ClientGone(q)
    BY <2>1, <2>3, ClientGoneRace
  <2>4. CASE Crash
    BY <2>4, CrashRace
  <2>5. CASE Restart
    BY <2>5, RestartRace
  <2>6. QED
    BY <1>1, <2>2, <2>3, <2>4, <2>5 DEF Next
<1>2. CASE UNCHANGED vars
  BY <1>2 DEF vars, RaceInv, HoldsMade, Made, InMap, QuietWhenDown, ServedIsOpen
<1>3. QED
  BY <1>1, <1>2

(* However many creates of a name race, crash and are given up, what the   *)
(* process serves are databases that it opened for the collection in the   *)
(* map, as long as nobody deletes it (Collection::init and the second look *)
(* at the map, toc.rs:113).                                                *)
THEOREM RacesAreSafe == Delete = {} /\ Spec => []ServedIsOpen
<1> SUFFICES ASSUME Delete = {}
             PROVE  Spec => []ServedIsOpen
  OBVIOUS
<1>1. ASSUME Init, TypeOK
      PROVE  RaceInv
  BY <1>1 DEF Init, RaceInv, HoldsMade, Made, InMap, QuietWhenDown, ServedIsOpen,
              NotBegun, Request
<1>2. ASSUME RaceInv, TypeOK', [Next]_vars
      PROVE  RaceInv'
  BY <1>2, NextRace
<1>3. RaceInv => ServedIsOpen
  BY DEF RaceInv
<1>4. QED
  BY <1>1, <1>2, <1>3, LifecycleTypeOKHolds, PTL DEF Spec

-----------------------------------------------------------------------------

(* What outlives requests, crashes and restarts. Busy(q): q runs.          *)
Busy(q) == req[q].st # "idle" /\ ~Over(q)

InOrder ==
  \A q \in Request : req[q].st # "idle" => \A p \in Before[q] : Over(p)

Quiet == ~up => served = None /\ \A q \in Request : ~Busy(q)

(* What a create that nobody disturbs has on the disk.                     *)
HasMade(q) ==
  /\ req[q].st = "write" => dir /\ config = "empty" /\ req[q].file
  /\ req[q].st \in {"dir", "open", "insert"} => dir /\ config = q
  /\ \A s \in Made(q) : shard[s] = "segment"

(* A create has made no shard before it has written the config.            *)
MakesInTurn ==
  \A q \in Create :
    req[q].st \in {"idle", "mkdir", "config", "write"} => req[q].next = 0

OrderInv == TypeOK /\ MakesInTurn /\ InOrder /\ Quiet

DeletedStays ==
  \A q \in Delete : req[q].st = "ok" /\ IsLast(q) => config = None

(* A create that was answered is served as long as nobody else runs.       *)
Answered(q) ==
  /\ dir /\ config = q /\ \A s \in Shard : shard[s] = "segment"
  /\ up => served # None /\ served.config = q /\ served.segments = Shard

CreatedStays ==
  \A q \in Create : req[q].st # "idle" /\ IsLast(q) =>
    /\ HasMade(q)
    /\ req[q].st = "ok" => Answered(q)

(* A client that creates a collection again waits for the answer of the    *)
(* create before; deletes run whenever they like.                          *)
CreatesInTurn ==
  \A p, q \in Create : p # q => p \in Before[q] \/ q \in Before[p]

(* A delete removes what is no longer served, a create makes what is not   *)
(* served yet, and neither meets the other there.                          *)
RemovesAlone == Locked => dir /\ served = None

CreatesAlone ==
  \A q \in Create : Busy(q) =>
    /\ served = None
    /\ ~Locked
    /\ HasMade(q)
    /\ \A s \in Made(q) : lock[s] = q

StoredInv == ServedIsStored /\ RemovesAlone /\ CreatesAlone

-----------------------------------------------------------------------------

LEMMA GoesTo ==
  ASSUME TypeOK, NEW q \in Request, NEW st, Goes(q, st)
  PROVE  /\ req'[q].st = st /\ req'[q].next = req[q].next /\ req'[q].file = req[q].file
         /\ \A p \in Request \ {q} : req'[p] = req[p]
BY DEF Goes, TypeOK, RequestsOK, RequestRecord

(* Where each step of a create leaves it.                                  *)
LEMMA CreateTo ==
  ASSUME TypeOK, NEW q \in Create
  PROVE  /\ CheckPath(q) => req'[q].st \in {"mkdir", "err"} /\ req'[q].next = req[q].next
         /\ MakeDir(q) => \/ req[q].st = "mkdir" /\ req'[q].st = "config"
                          \/ req[q].st = "late" /\ req'[q].st = "gone"
         /\ MakeDir(q) => req'[q].next = req[q].next
         /\ CreateConfig(q) => \/ dir /\ req'[q].st = "write" /\ req'[q].file
                               \/ req'[q].st = "err"
         /\ CreateConfig(q) => req'[q].next = req[q].next
         /\ WriteConfig(q) => req'[q].st = "dir" /\ req'[q].next = req[q].next
         /\ MakeShard(q) => req'[q].st = "open" /\ req'[q].next = req[q].next
         /\ OpenSegment(q) =>
              \/ /\ lock[req[q].next] = None
                 /\ req'[q].next = req[q].next + 1
                 /\ \/ req[q].next = 0 /\ req'[q].st = "dir"
                    \/ req[q].next = 1 /\ req'[q].st = "insert"
              \/ req'[q].st = "panic"
         /\ Insert(q) => req'[q].st = IF served = None THEN "ok" ELSE "err"
         /\ CreateFails(q) => req'[q].st \in {"err", "panic"}
<1>1. q \in Request /\ req[q] \in RequestRecord
  BY Names DEF TypeOK, RequestsOK
<1>2. ASSUME CheckPath(q)
      PROVE  req'[q].st \in {"mkdir", "err"} /\ req'[q].next = req[q].next
  BY <1>1, <1>2, GoesTo DEF CheckPath
<1>3. ASSUME MakeDir(q)
      PROVE  /\ \/ req[q].st = "mkdir" /\ req'[q].st = "config"
                \/ req[q].st = "late" /\ req'[q].st = "gone"
             /\ req'[q].next = req[q].next
  <2>1. CASE req[q].st = "mkdir"
    BY <1>1, <1>3, <2>1, GoesTo DEF MakeDir
  <2>2. CASE req[q].st = "late"
    BY <1>1, <1>3, <2>2, GoesTo DEF MakeDir
  <2>3. QED
    BY <1>3, <2>1, <2>2 DEF MakeDir
<1>4. ASSUME CreateConfig(q)
      PROVE  /\ (dir /\ req'[q].st = "write" /\ req'[q].file) \/ req'[q].st = "err"
             /\ req'[q].next = req[q].next
  <2>1. CASE dir
    <3> DEFINE r == [req[q] EXCEPT !.st = "write", !.file = TRUE]
    <3>1. req' = [req EXCEPT ![q] = r]
      BY <1>1, <1>4, <2>1 DEF CreateConfig, TypeOK, RequestsOK, RequestRecord
    <3>2. r.st = "write" /\ r.file = TRUE /\ r.next = req[q].next
      BY <1>1 DEF RequestRecord
    <3> HIDE DEF r
    <3>3. QED
      BY <1>1, <2>1, <3>1, <3>2 DEF TypeOK, RequestsOK
  <2>2. CASE ~dir
    BY <1>1, <1>4, <2>2, GoesTo DEF CreateConfig
  <2>3. QED
    BY <2>1, <2>2
<1>5. ASSUME WriteConfig(q)
      PROVE  req'[q].st = "dir" /\ req'[q].next = req[q].next
  BY <1>1, <1>5, GoesTo DEF WriteConfig
<1>6. ASSUME MakeShard(q)
      PROVE  req'[q].st = "open" /\ req'[q].next = req[q].next
  BY <1>1, <1>6, GoesTo DEF MakeShard
<1>7. ASSUME OpenSegment(q)
      PROVE  \/ /\ lock[req[q].next] = None
                /\ req'[q].next = req[q].next + 1
                /\ \/ req[q].next = 0 /\ req'[q].st = "dir"
                   \/ req[q].next = 1 /\ req'[q].st = "insert"
             \/ req'[q].st = "panic"
  <2> DEFINE s == req[q].next
             st == IF s + 1 \in Shard THEN "dir" ELSE "insert"
             r == [req[q] EXCEPT !.next = s + 1, !.st = st]
  <2>1. s \in Shard
    BY <1>1, <1>7 DEF OpenSegment, TypeOK, RequestsOK, Making
  <2>2. CASE lock[s] = None
    <3>1. req' = [req EXCEPT ![q] = r]
      BY <1>1, <1>7, <2>2 DEF OpenSegment, TypeOK, RequestsOK, RequestRecord
    <3>2. r.st = st /\ r.next = s + 1
      BY <1>1 DEF RequestRecord
    <3>3. (s = 0 /\ st = "dir") \/ (s = 1 /\ st = "insert")
      BY <2>1 DEF Shard
    <3> HIDE DEF r, st
    <3>4. req'[q] = r
      BY <1>1, <3>1 DEF TypeOK, RequestsOK
    <3>5. QED
      BY <2>2, <3>2, <3>3, <3>4
  <2>3. CASE lock[s] # None
    BY <1>1, <1>7, <2>3, GoesTo DEF OpenSegment
  <2>4. QED
    BY <2>2, <2>3
<1>8. ASSUME Insert(q)
      PROVE  req'[q].st = IF served = None THEN "ok" ELSE "err"
  BY <1>1, <1>8, GoesTo DEF Insert
<1>9. ASSUME CreateFails(q)
      PROVE  req'[q].st \in {"err", "panic"}
  BY <1>1, <1>9, GoesTo DEF CreateFails
<1>10. QED
  BY <1>2, <1>3, <1>4, <1>5, <1>6, <1>7, <1>8, <1>9

(* ... and each step of a delete.                                          *)
LEMMA DeleteTo ==
  ASSUME TypeOK, NEW q \in Delete
  PROVE  /\ Ask(q) => req'[q].st = "lock"
         /\ TakeOut(q) => req'[q].st = IF served # None /\ dir THEN "remove" ELSE "err"
         /\ RemoveConfig(q) => req'[q].st = "remove"
         /\ RemoveShard(q) => req'[q].st = "remove"
         /\ RemoveDir(q) => req'[q].st = "ok"
         /\ RemoveFails(q) => req'[q].st = "err"
<1>1. q \in Request /\ req[q] \in RequestRecord
  BY Names DEF TypeOK, RequestsOK
<1>2. ASSUME TakeOut(q)
      PROVE  req'[q].st = IF served # None /\ dir THEN "remove" ELSE "err"
  <2>1. CASE served # None /\ dir
    <3> DEFINE r == [req[q] EXCEPT !.st = "remove", !.owner = served.by]
    <3>1. req' = [req EXCEPT ![q] = r]
      BY <1>1, <1>2, <2>1 DEF TakeOut, TypeOK, RequestsOK, RequestRecord
    <3>2. r.st = "remove"
      BY <1>1 DEF RequestRecord
    <3> HIDE DEF r
    <3>3. QED
      BY <1>1, <2>1, <3>1, <3>2 DEF TypeOK, RequestsOK
  <2>2. CASE ~(served # None /\ dir)
    <3>1. Goes(q, "err")
      BY <1>2, <2>2 DEF TakeOut
    <3>2. QED
      BY <1>1, <2>2, <3>1, GoesTo
  <2>3. QED
    BY <2>1, <2>2
<1>3. ASSUME RemoveConfig(q)
      PROVE  req'[q].st = "remove"
  BY <1>1, <1>3 DEF RemoveConfig, RequestRecord
<1>4. Ask(q) => req'[q].st = "lock"
  BY <1>1, GoesTo DEF Ask
<1>5. /\ RemoveShard(q) => req'[q].st = "remove"
      /\ RemoveDir(q) => req'[q].st = "ok"
      /\ RemoveFails(q) => req'[q].st = "err"
  BY <1>1, GoesTo DEF RemoveShard, RemoveDir, RemoveFails
<1>6. QED
  BY <1>2, <1>3, <1>4, <1>5


(* Who moves a request.                                                    *)
LEMMA OthersRest ==
  ASSUME TypeOK, NEW p \in Request, NEW q \in Request \ {p},
         \/ p \in Create /\ CreateStep(p)
         \/ p \in Delete /\ DeleteStep(p) /\ ~RemoveConfig(p)
         \/ ClientGone(p)
  PROVE  req'[q] = req[q]
<1>1. req \in [Request -> RequestRecord]
  BY DEF TypeOK, RequestsOK
<1>2. CASE CreateStep(p)
  BY <1>1, <1>2 DEF CreateStep, CheckPath, MakeDir, CreateConfig, WriteConfig, MakeShard,
     OpenSegment, Insert, CreateFails, Goes
<1>3. CASE DeleteStep(p) /\ ~RemoveConfig(p)
  BY <1>1, <1>3 DEF DeleteStep, Ask, TakeOut, RemoveShard, RemoveDir, RemoveFails, Goes
<1>4. CASE ClientGone(p)
  BY <1>1, <1>4 DEF ClientGone, Goes
<1>5. QED
  BY <1>2, <1>3, <1>4

LEMMA RequestMoves ==
  ASSUME TypeOK, [Next]_vars, NEW q \in Request
  PROVE  \/ q \in Create /\ CreateStep(q)
         \/ q \in Delete /\ DeleteStep(q)
         \/ ClientGone(q) /\ req'[q].st \in {"late", "gone"}
         \/ Crash /\ (req'[q] = req[q] \/ (Busy(q) /\ req'[q].st = "gone")
                                       \/ (req[q].st = "late" /\ req'[q].st = "gone"))
         \/ req'[q] = req[q]
         \/ Locked /\ req'[q].st = req[q].st /\ req'[q].next = req[q].next
<1>1. req \in [Request -> RequestRecord] /\ req[q] \in RequestRecord
  BY DEF TypeOK, RequestsOK
<1>2. CASE \E p \in Request \ {q} :
             \/ p \in Create /\ CreateStep(p)
             \/ p \in Delete /\ DeleteStep(p) /\ ~RemoveConfig(p)
             \/ ClientGone(p)
  BY <1>2, OthersRest
<1>3. ASSUME NEW p \in Delete, RemoveConfig(p)
      PROVE  Locked /\ req'[q].st = req[q].st /\ req'[q].next = req[q].next
  BY <1>1, <1>3 DEF RemoveConfig, Locked, RequestRecord
<1>4. CASE ClientGone(q)
  BY <1>4, GoesTo DEF ClientGone
<1>5. CASE Crash
  <2>1. req'[q] = IF req[q].st = "idle" \/ (Over(q) /\ req[q].st # "late")
                  THEN req[q] ELSE [req[q] EXCEPT !.st = "gone"]
    BY <1>5 DEF Crash
  <2>2. [req[q] EXCEPT !.st = "gone"].st = "gone"
    BY <1>1 DEF RequestRecord
  <2>3. QED
    BY <1>5, <2>1, <2>2 DEF Busy
<1>6. CASE Restart \/ UNCHANGED vars
  BY <1>6 DEF Restart, vars
<1>7. QED
  BY <1>2, <1>3, <1>4, <1>5, <1>6, Names DEF Next, Request

(* A request that is over stays so, one that was sent stays sent, and one  *)
(* that is sent has those before it over.                                  *)
LEMMA StateMoves ==
  ASSUME TypeOK, [Next]_vars, NEW q \in Request
  PROVE  /\ Over(q) => Over(q)'
         /\ req[q].st # "idle" => req'[q].st # "idle"
         /\ req[q].st = "idle" /\ req'[q].st # "idle" =>
              up /\ \A p \in Before[q] : Over(p)
         /\ req'[q].st = "ok" => req[q].st = "ok" \/ (q \in Create /\ Insert(q))
                                                  \/ (q \in Delete /\ RemoveDir(q))
<1>1. CASE q \in Create /\ CreateStep(q)
  BY <1>1, CreateTo DEF CreateStep, CheckPath, MayBegin, MakeDir, CreateConfig, WriteConfig,
     MakeShard, OpenSegment, Insert, CreateFails, Over
<1>2. CASE q \in Delete /\ DeleteStep(q)
  BY <1>2, DeleteTo DEF DeleteStep, Ask, MayBegin, TakeOut, RemoveConfig, RemoveShard,
     RemoveDir, RemoveFails, Over
<1>3. CASE ClientGone(q) /\ req'[q].st \in {"late", "gone"}
  BY <1>3 DEF ClientGone, Over
<1>4. CASE \/ req'[q] = req[q]
           \/ Busy(q) /\ req'[q].st = "gone"
           \/ req[q].st = "late" /\ req'[q].st = "gone"
           \/ req'[q].st = req[q].st
  BY <1>4 DEF Busy, Over
<1>5. QED
  BY <1>1, <1>2, <1>3, <1>4, RequestMoves

(* What may write to the disk.                                             *)
LEMMA FilesMove ==
  ASSUME TypeOK, [Next]_vars
  PROVE  \/ dir' \in {dir, TRUE} /\ config' = config /\ shard' = shard
         \/ \E q \in Create : Busy(q) /\ CreateStep(q)
         \/ Locked
<1>1. ASSUME NEW q \in Create, CreateStep(q)
      PROVE  \/ dir' \in {dir, TRUE} /\ config' = config /\ shard' = shard
             \/ Busy(q)
  BY <1>1 DEF CreateStep, CheckPath, MakeDir, CreateConfig, WriteConfig, MakeShard,
     OpenSegment, Insert, CreateFails, Busy, Over
<1>2. ASSUME NEW q \in Delete, DeleteStep(q)
      PROVE  (dir' = dir /\ config' = config /\ shard' = shard) \/ Locked
  BY <1>2 DEF DeleteStep, Ask, TakeOut, RemoveConfig, RemoveShard, RemoveDir, RemoveFails,
     Locked
<1>3. QED
  BY <1>1, <1>2 DEF Next, ClientGone, Crash, Restart, vars

-----------------------------------------------------------------------------

(* The inductive steps of OrderInv.                                        *)

LEMMA InOrderStep ==
  ASSUME TypeOK, InOrder, [Next]_vars
  PROVE  InOrder'
<1> SUFFICES ASSUME NEW q \in Request, req'[q].st # "idle",
                    NEW p \in Before[q]
             PROVE  Over(p)'
  BY DEF InOrder
<1>1. p \in Request
  BY LifecycleAssumption
<1>2. Over(p)
  BY StateMoves DEF InOrder
<1>3. QED
  BY <1>1, <1>2, StateMoves

(* The process goes down only in a crash, which ends what runs.            *)
LEMMA DownStep ==
  ASSUME TypeOK, up, [Next]_vars
  PROVE  up' \/ (served' = None /\ \A q \in Request : ~Busy(q)')
<1>1. CASE Crash
  <2>1. ASSUME NEW q \in Request
        PROVE  req'[q].st = "gone" \/ (req'[q] = req[q] /\ ~Busy(q))
    <3>1. req'[q] = IF req[q].st = "idle" \/ (Over(q) /\ req[q].st # "late")
                    THEN req[q] ELSE [req[q] EXCEPT !.st = "gone"]
      BY <1>1 DEF Crash
    <3>2. req[q] \in RequestRecord
      BY DEF TypeOK, RequestsOK
    <3>3. [req[q] EXCEPT !.st = "gone"].st = "gone"
      BY <3>2 DEF RequestRecord
    <3>4. QED
      BY <3>1, <3>3 DEF Busy
  <2>2. served' = None
    BY <1>1 DEF Crash
  <2>3. QED
    BY <2>1, <2>2 DEF Busy, Over
<1>2. CASE ~Crash
  BY <1>2 DEF Next, vars, ClientGone, Restart,
     CreateStep, CheckPath, MakeDir, CreateConfig, WriteConfig, MakeShard, OpenSegment,
     Insert, CreateFails, DeleteStep, Ask, TakeOut, RemoveConfig, RemoveShard, RemoveDir,
     RemoveFails
<1>3. QED
  BY <1>1, <1>2

(* While the process is down, only a directory is still made.              *)
LEMMA DownRests ==
  ASSUME TypeOK, Quiet, ~up, [Next]_vars
  PROVE  \/ Restart
         \/ /\ up' = up /\ served' = served
            /\ config' = config /\ shard' = shard /\ dir' \in {dir, TRUE}
            /\ \/ \E q \in Create : req[q].st = "late" /\ MakeDir(q)
               \/ UNCHANGED vars
<1>1. ASSUME NEW q \in Create, CreateStep(q)
      PROVE  req[q].st = "late" /\ MakeDir(q)
  <2>1. ~Busy(q)
    BY Names DEF Quiet
  <2>2. QED
    BY <1>1, <2>1 DEF CreateStep, CheckPath, MayBegin, MakeDir, CreateConfig, WriteConfig,
       MakeShard, OpenSegment, Insert, CreateFails, Busy, Over
<1>2. ASSUME NEW q \in Delete, DeleteStep(q)
      PROVE  FALSE
  <2>1. ~Busy(q)
    BY Names DEF Quiet
  <2>2. QED
    BY <1>2, <2>1 DEF DeleteStep, Ask, MayBegin, TakeOut, RemoveConfig, RemoveShard,
       RemoveDir, RemoveFails, Busy, Over
<1>3. ASSUME NEW q \in Request, ClientGone(q)
      PROVE  FALSE
  BY <1>3 DEF ClientGone, Quiet, Busy, Over
<1>4. CASE \E q \in Create : req[q].st = "late" /\ MakeDir(q)
  BY <1>4 DEF MakeDir
<1>5. QED
  BY <1>1, <1>2, <1>3, <1>4 DEF Next, Crash, vars

LEMMA QuietStep ==
  ASSUME TypeOK, Quiet, [Next]_vars
  PROVE  Quiet'
<1>1. CASE up
  BY <1>1, DownStep DEF Quiet
<1>2. CASE ~up
  <2>1. CASE Restart
    BY <1>2, <2>1 DEF Restart, Quiet, Busy, Over
  <2>2. CASE UNCHANGED vars
    BY <2>2 DEF Quiet, Busy, Over, vars
  <2>3. ASSUME NEW q \in Create, req[q].st = "late", MakeDir(q)
        PROVE  Quiet'
    <3>1. q \in Request /\ req'[q].st = "gone"
      BY <2>3, CreateTo, Names
    <3>2. \A p \in Request : p # q => req'[p] = req[p]
      BY <2>3, <3>1, OthersRest DEF CreateStep
    <3>3. QED
      BY <1>2, <2>3, <3>1, <3>2 DEF MakeDir, Quiet, Busy, Over
  <2>4. QED
    BY <1>2, <2>1, <2>2, <2>3, DownRests
<1>3. QED
  BY <1>1, <1>2

LEMMA InTurnStep ==
  ASSUME TypeOK, MakesInTurn, [Next]_vars
  PROVE  MakesInTurn'
<1> SUFFICES ASSUME NEW q \in Create, req'[q].st \in {"idle", "mkdir", "config", "write"}
             PROVE  req'[q].next = 0
  BY DEF MakesInTurn
<1>1. q \in Request /\ q \notin Delete
  BY Names
<1>2. CASE CreateStep(q)
  BY <1>2, CreateTo DEF MakesInTurn, CreateStep, CheckPath, MayBegin, MakeDir, CreateConfig
<1>3. CASE req'[q].st = req[q].st /\ req'[q].next = req[q].next
  BY <1>3 DEF MakesInTurn
<1>4. QED
  BY <1>1, <1>2, <1>3, RequestMoves

LEMMA OrderHolds == Spec => []OrderInv
<1>1. ASSUME Init, TypeOK
      PROVE  OrderInv
  BY <1>1, Names DEF Init, OrderInv, MakesInTurn, InOrder, Quiet, Busy, NotBegun
<1>2. ASSUME OrderInv, TypeOK', [Next]_vars
      PROVE  OrderInv'
  BY <1>2, InOrderStep, QuietStep, InTurnStep DEF OrderInv
<1>3. QED
  BY <1>1, <1>2, LifecycleTypeOKHolds, PTL DEF Spec

(* The last request of the next state is the last one of this state.       *)
LEMMA LastStays ==
  ASSUME OrderInv, [Next]_vars, NEW q \in Request, IsLast(q)', req[q].st # "idle"
  PROVE  /\ IsLast(q)
         /\ \A p \in Request \ {q} : ~Busy(p)
<1>1. \A p \in Request : req[p].st # "idle" => req'[p].st # "idle"
  BY StateMoves DEF OrderInv
<1>2. IsLast(q)
  BY <1>1 DEF IsLast
<1>3. ASSUME NEW p \in Request \ {q}
      PROVE  ~Busy(p)
  BY <1>2, <1>3 DEF OrderInv, InOrder, IsLast, Busy
<1>4. QED
  BY <1>2, <1>3

(* Nobody but q runs: only q writes to the disk.                           *)
LEMMA AloneWrites ==
  ASSUME OrderInv, [Next]_vars, NEW q \in Request,
         \A p \in Request \ {q} : ~Busy(p)
  PROVE  \/ dir' \in {dir, TRUE} /\ config' = config /\ shard' = shard
         \/ q \in Create /\ Busy(q) /\ CreateStep(q)
         \/ q \in Delete /\ req[q].st = "remove"
<1>1. ASSUME NEW p \in Create, Busy(p)
      PROVE  p = q
  BY <1>1, Names
<1>2. ASSUME NEW d \in Delete, req[d].st = "remove"
      PROVE  d = q
  BY <1>2, Names DEF Busy, Over
<1>3. QED
  BY <1>1, <1>2, FilesMove DEF OrderInv, Locked

(* Who changes what is served.                                             *)
LEMMA ServedMoves ==
  ASSUME [Next]_vars
  PROVE  \/ served' = served /\ up' = up
         \/ \E q \in Create : Insert(q)
         \/ \E q \in Delete : TakeOut(q)
         \/ Crash
         \/ Restart
<1>1. ASSUME NEW q \in Create, CreateStep(q)
      PROVE  (served' = served /\ up' = up) \/ Insert(q)
  BY <1>1 DEF CreateStep, CheckPath, MakeDir, CreateConfig, WriteConfig, MakeShard,
     OpenSegment, CreateFails
<1>2. ASSUME NEW q \in Delete, DeleteStep(q)
      PROVE  (served' = served /\ up' = up) \/ TakeOut(q)
  BY <1>2 DEF DeleteStep, Ask, RemoveConfig, RemoveShard, RemoveDir, RemoveFails
<1>3. QED
  BY <1>1, <1>2 DEF Next, ClientGone, vars

-----------------------------------------------------------------------------

LEMMA DeletedStaysStep ==
  ASSUME OrderInv, DeletedStays, [Next]_vars
  PROVE  DeletedStays'
<1> SUFFICES ASSUME NEW q \in Delete, req'[q].st = "ok", IsLast(q)'
             PROVE  config' = None
  BY DEF DeletedStays
<1>1. q \in Request /\ q \notin Create
  BY Names
<1>2. CASE req[q].st = "ok"
  <2>1. IsLast(q) /\ \A p \in Request \ {q} : ~Busy(p)
    BY <1>1, <1>2, LastStays
  <2>2. config' = config
    BY <1>1, <1>2, <2>1, AloneWrites
  <2>3. QED
    BY <1>2, <2>1, <2>2 DEF DeletedStays
<1>3. CASE RemoveDir(q)
  BY <1>3 DEF RemoveDir
<1>4. QED
  BY <1>1, <1>2, <1>3, StateMoves DEF OrderInv

(* A delete that was answered with success removed the directory, and what *)
(* gave up before it (an abandoned create_dir_all among them) leaves at    *)
(* most a directory without config.json, which the next start skips:       *)
(* whatever creates, deletes and crashes came before, it does not bring    *)
(* the collection back (toc.rs:60, toc.rs:158).                            *)
THEOREM AckedDeleteStaysHolds == Spec => []AckedDeleteStays
<1>1. Init => DeletedStays
  BY Names DEF Init, DeletedStays, NotBegun
<1>2. OrderInv /\ DeletedStays /\ [Next]_vars => DeletedStays'
  BY DeletedStaysStep
<1>3. DeletedStays => AckedDeleteStays
  BY DEF DeletedStays, AckedDeleteStays
<1>4. QED
  BY <1>1, <1>2, <1>3, OrderHolds, PTL DEF Spec

-----------------------------------------------------------------------------

(* A create that runs alone, on a disk that is not full, keeps what it has *)
(* made.                                                                   *)
LEMMA MakesOn ==
  ASSUME OrderInv, DiskFull = FALSE, NEW q \in Create, HasMade(q), CreateStep(q)
  PROVE  HasMade(q)'
<1>1. q \in Request /\ TypeOK
  BY Names DEF OrderInv
<1>2. CASE req'[q].st \notin {"write", "dir", "open", "insert"}
  BY <1>2 DEF HasMade, Made
<1>3. CASE CreateConfig(q) /\ req'[q].st = "write"
  BY <1>1, <1>3, CreateTo DEF CreateConfig, HasMade, Made
<1>4. CASE WriteConfig(q)
  <2>1. req[q].next = 0
    BY <1>4 DEF WriteConfig, OrderInv, MakesInTurn
  <2>2. req'[q].st = "dir" /\ req'[q].next = 0
    BY <1>1, <1>4, <2>1, CreateTo
  <2>3. dir' = dir /\ dir /\ config' = q
    BY <1>4 DEF WriteConfig, HasMade
  <2>4. QED
    BY <2>2, <2>3 DEF HasMade, Made
<1>5. CASE MakeShard(q)
  <2>1. req'[q].st = "open" /\ req'[q].next = req[q].next
    BY <1>1, <1>5, CreateTo
  <2>2. dir' = TRUE /\ config' = q
    BY <1>5 DEF MakeShard, HasMade
  <2>3. Made(q)' = Made(q) /\ Made(q) \subseteq Shard
    <3>1. req[q].next \in Shard
      BY <1>1, <1>5 DEF MakeShard, TypeOK, RequestsOK, Making
    <3>2. QED
      BY <1>5, <2>1, <3>1 DEF MakeShard, Made, Shard
  <2>4. \A s \in Shard : shard[s] = "segment" => shard'[s] = "segment"
    BY <1>1, <1>5 DEF MakeShard, TypeOK, FilesOK
  <2>5. QED
    BY <2>1, <2>2, <2>3, <2>4 DEF HasMade
<1>6. CASE OpenSegment(q) /\ req'[q].st \in {"dir", "insert"}
  <2>1. /\ req'[q].next = req[q].next + 1
        /\ \/ req[q].next = 0 /\ req'[q].st = "dir"
           \/ req[q].next = 1 /\ req'[q].st = "insert"
    BY <1>1, <1>6, CreateTo
  <2>2. dir' = TRUE /\ config' = q
    BY <1>6 DEF OpenSegment, HasMade
  <2>3. Made(q)' = Made(q) \cup {req[q].next} /\ Made(q)' \subseteq Shard
    <3>1. req[q].st = "open"
      BY <1>6 DEF OpenSegment
    <3>2. CASE req[q].next = 0 /\ req'[q].st = "dir" /\ req'[q].next = 1
      BY <3>1, <3>2 DEF Made, Shard
    <3>3. CASE req[q].next = 1 /\ req'[q].st = "insert"
      BY <3>1, <3>3 DEF Made, Shard
    <3>4. QED
      BY <2>1, <3>2, <3>3
  <2>4. /\ \A s \in Shard : shard[s] = "segment" => shard'[s] = "segment"
        /\ req[q].next \in Shard => shard'[req[q].next] = "segment"
    BY <1>1, <1>6 DEF OpenSegment, TypeOK, FilesOK
  <2>5. QED
    BY <1>6, <2>2, <2>3, <2>4 DEF HasMade
<1>7. QED
  BY <1>1, <1>2, <1>3, <1>4, <1>5, <1>6, CreateTo DEF CreateStep

LEMMA MadeStays ==
  ASSUME OrderInv, [Next]_vars, DiskFull = FALSE, NEW q \in Create, HasMade(q),
         \A p \in Request \ {q} : ~Busy(p)
  PROVE  HasMade(q)'
<1>1. q \in Request /\ q \notin Delete
  BY Names
<1>2. CASE CreateStep(q)
  BY <1>2, MakesOn
<1>3. CASE req'[q].st \in {"late", "gone"}
  BY <1>3 DEF HasMade, Made
<1>4. CASE req'[q] = req[q] /\ ~CreateStep(q)
  BY <1>1, <1>4, AloneWrites DEF HasMade, Made
<1>5. ~Locked
  BY <1>1, Names DEF Locked, Busy, Over
<1>6. QED
  BY <1>1, <1>2, <1>3, <1>4, <1>5, RequestMoves DEF OrderInv

LEMMA AnswersWhole ==
  ASSUME OrderInv, NEW q \in Create, HasMade(q), Insert(q), req'[q].st = "ok"
  PROVE  Answered(q)'
<1>1. served = None
  BY CreateTo DEF OrderInv
<1>2. served' = [by |-> q, config |-> q, segments |-> Shard]
  BY <1>1 DEF Insert
<1>3. [by |-> q, config |-> q, segments |-> Shard] # None
  BY LifecycleAssumption DEF Collection
<1>4. QED
  BY <1>2, <1>3 DEF Insert, HasMade, Made, Answered

LEMMA AnsweredStays ==
  ASSUME OrderInv, [Next]_vars, NEW q \in Create, req[q].st = "ok", Answered(q),
         \A p \in Request \ {q} : ~Busy(p)
  PROVE  Answered(q)'
<1>1. q \in Request /\ q \notin Delete /\ q \notin {None, "empty", "torn"}
  BY Names, LifecycleAssumption DEF Request
<1>2. dir' /\ config' = q /\ \A s \in Shard : shard'[s] = "segment"
  <2>1. dir' \in {dir, TRUE} /\ config' = config /\ shard' = shard
    BY <1>1, AloneWrites DEF Busy, Over
  <2>2. QED
    BY <2>1 DEF Answered
<1>3. ASSUME NEW p \in Request, req[p].st \in {"insert", "lock"}
      PROVE  FALSE
  <2>1. Busy(p)
    BY <1>3 DEF Busy, Over
  <2>2. QED
    BY <1>3, <2>1
<1>4. CASE served' = served /\ up' = up
  BY <1>2, <1>4 DEF Answered
<1>5. CASE Crash
  BY <1>2, <1>5 DEF Crash, Answered
<1>6. CASE Restart
  <2>1. /\ dir /\ config = q /\ Found = Shard
        /\ config # None /\ ~Unreadable
    BY <1>1 DEF Answered, Found, Unreadable
  <2>2. served' = [by |-> Boot, config |-> q, segments |-> Shard]
    BY <1>6, <2>1 DEF Restart
  <2>3. served' # None
    BY <2>2, LifecycleAssumption DEF Collection
  <2>4. QED
    BY <1>2, <2>2, <2>3 DEF Answered
<1>7. ASSUME NEW p \in Request, Insert(p) \/ TakeOut(p)
      PROVE  FALSE
  BY <1>3, <1>7 DEF Insert, TakeOut
<1>8. QED
  BY <1>4, <1>5, <1>6, <1>7, ServedMoves, Names

LEMMA CreatedStaysStep ==
  ASSUME OrderInv, CreatedStays, [Next]_vars, DiskFull = FALSE
  PROVE  CreatedStays'
<1> SUFFICES ASSUME NEW q \in Create, req'[q].st # "idle", IsLast(q)'
             PROVE  /\ HasMade(q)'
                    /\ req'[q].st = "ok" => Answered(q)'
  BY DEF CreatedStays
<1>1. q \in Request /\ q \notin Delete /\ TypeOK
  BY Names DEF OrderInv
<1>2. CASE req[q].st = "idle"
  <2>1. req'[q].st \in {"mkdir", "err"}
    <3>1. CreateStep(q)
      BY <1>1, <1>2, RequestMoves DEF ClientGone, Busy
    <3>2. QED
      BY <1>1, <1>2, <3>1, CreateTo DEF CreateStep, MakeDir, CreateConfig, WriteConfig,
         MakeShard, OpenSegment, Insert, CreateFails
  <2>2. QED
    BY <2>1 DEF HasMade, Made
<1>3. CASE req[q].st # "idle"
  <2>1. IsLast(q) /\ \A p \in Request \ {q} : ~Busy(p)
    BY <1>1, <1>3, LastStays
  <2>2. HasMade(q) /\ (req[q].st = "ok" => Answered(q))
    BY <1>3, <2>1 DEF CreatedStays
  <2>3. HasMade(q)'
    BY <2>1, <2>2, MadeStays
  <2>4. CASE req[q].st = "ok"
    BY <2>1, <2>2, <2>3, <2>4, AnsweredStays
  <2>5. CASE req'[q].st = "ok" /\ Insert(q)
    BY <2>2, <2>3, <2>5, AnswersWhole
  <2>6. QED
    BY <1>1, <2>3, <2>4, <2>5, StateMoves
<1>4. QED
  BY <1>2, <1>3

(* A create that was answered with success, and that no other request has  *)
(* followed, is served with its own params and both its shards, also after *)
(* any crash, whatever earlier creates and deletes left behind             *)
(* (Collection::init, TableOfContent::load). The disk must not fill up:    *)
(* the BufWriter that writes config.json discards an error.                *)
THEOREM AckedCreateStaysHolds == DiskFull = FALSE /\ Spec => []AckedCreateStays
<1> SUFFICES ASSUME DiskFull = FALSE
             PROVE  Spec => []AckedCreateStays
  OBVIOUS
<1>1. Init => CreatedStays
  BY Names DEF Init, CreatedStays, NotBegun
<1>2. OrderInv /\ CreatedStays /\ [Next]_vars => CreatedStays'
  BY CreatedStaysStep
<1>3. CreatedStays => AckedCreateStays
  BY DEF CreatedStays, Answered, AckedCreateStays
<1>4. QED
  BY <1>1, <1>2, <1>3, OrderHolds, PTL DEF Spec

-----------------------------------------------------------------------------

(* Creates that are sent in turn do not overlap.                           *)
LEMMA OneCreates ==
  ASSUME OrderInv, CreatesInTurn, NEW p \in Create, NEW q \in Create, Busy(p), Busy(q)
  PROVE  p = q
BY Names DEF OrderInv, CreatesInTurn, InOrder, Busy

LEMMA OneCreatesNext ==
  ASSUME OrderInv', CreatesInTurn, NEW p \in Create, NEW q \in Create, Busy(p)', Busy(q)'
  PROVE  p = q
BY Names DEF OrderInv, CreatesInTurn, InOrder, Busy, Over

(* A create's step moves no delete and no other create.                    *)
LEMMA CreateMovesOne ==
  ASSUME TypeOK, NEW q \in Create, CreateStep(q) \/ ClientGone(q)
  PROVE  /\ Locked' <=> Locked
         /\ \A p \in Create \ {q} : (Busy(p)' <=> Busy(p)) /\ req'[p] = req[p]
<1>1. \A p \in Request \ {q} : req'[p] = req[p]
  BY OthersRest, Names
<1>2. \A d \in Delete : d \in Request \ {q}
  BY Names
<1>3. \A p \in Create \ {q} : p \in Request \ {q}
  BY Names
<1>4. QED
  BY <1>1, <1>2, <1>3 DEF Locked, Busy, Over

LEMMA BeginsAlone ==
  ASSUME OrderInv, OrderInv', StoredInv, CreatesInTurn,
         NEW q \in Create, ~Busy(q), CreateStep(q)
  PROVE  StoredInv'
<1>1. TypeOK /\ q \in Request
  BY Names DEF OrderInv
<1>2. /\ Locked' <=> Locked
      /\ \A p \in Create \ {q} : (Busy(p)' <=> Busy(p)) /\ req'[p] = req[p]
  BY <1>1, CreateMovesOne
<1>3. CheckPath(q) \/ (MakeDir(q) /\ req[q].st = "late")
  BY DEF Busy, Over, CreateStep, MakeDir, CreateConfig, WriteConfig, MakeShard,
     OpenSegment, Insert, CreateFails
<1>4. /\ served' = served /\ config' = config /\ shard' = shard /\ lock' = lock
      /\ dir' \in {dir, TRUE}
  BY <1>3 DEF CheckPath, MakeDir
<1>5. ServedIsStored' /\ RemovesAlone'
  BY <1>2, <1>4 DEF StoredInv, ServedIsStored, RemovesAlone
<1>6. ASSUME NEW p \in Create \ {q}, Busy(p)'
      PROVE  /\ served' = None
             /\ ~Locked'
             /\ HasMade(p)'
             /\ \A s \in Made(p)' : lock'[s] = p
  <2>1. Busy(p) /\ req'[p] = req[p]
    BY <1>2, <1>6
  <2>2. served = None /\ ~Locked /\ HasMade(p) /\ \A s \in Made(p) : lock[s] = p
    BY <2>1 DEF StoredInv, CreatesAlone
  <2>3. QED
    BY <1>2, <1>4, <2>1, <2>2 DEF HasMade, Made
<1>7. ASSUME Busy(q)'
      PROVE  /\ served' = None
             /\ ~Locked'
             /\ HasMade(q)'
             /\ \A s \in Made(q)' : lock'[s] = q
  <2>1. CheckPath(q) /\ req'[q].st = "mkdir"
    BY <1>1, <1>3, <1>7, CreateTo DEF Busy, Over
  <2>2. ~dir
    <3>1. Goes(q, IF dir THEN "err" ELSE "mkdir")
      BY <2>1 DEF CheckPath
    <3>2. req'[q].st = IF dir THEN "err" ELSE "mkdir"
      BY <1>1, <3>1, GoesTo
    <3>3. QED
      BY <2>1, <3>2
  <2>3. served = None /\ ~Locked
    BY <2>2 DEF StoredInv, ServedIsStored, RemovesAlone
  <2>4. QED
    BY <1>2, <1>4, <2>1, <2>3 DEF HasMade, Made
<1>8. CreatesAlone'
  BY <1>6, <1>7 DEF CreatesAlone
<1>9. QED
  BY <1>5, <1>8 DEF StoredInv

(* The locks of the shards made so far, and what an insert publishes.      *)
LEMMA LocksWhatItMade ==
  ASSUME TypeOK, NEW q \in Create, CreateStep(q), Busy(q), MakesInTurn, Busy(q)',
         \A s \in Made(q) : lock[s] = q
  PROVE  \A s \in Made(q)' : lock'[s] = q
<1>1. q \in Request
  BY Names
<1>2. CASE OpenSegment(q) /\ req'[q].st # "panic"
  <2>1. /\ lock[req[q].next] = None
        /\ req'[q].next = req[q].next + 1
        /\ \/ req[q].next = 0 /\ req'[q].st = "dir"
           \/ req[q].next = 1 /\ req'[q].st = "insert"
    BY <1>2, CreateTo
  <2>2. Made(q)' = Made(q) \cup {req[q].next} /\ Made(q)' \subseteq Shard
    <3>1. req[q].st = "open"
      BY <1>2 DEF OpenSegment
    <3>2. CASE req[q].next = 0 /\ req'[q].st = "dir" /\ req'[q].next = 1
      BY <3>1, <3>2 DEF Made, Shard
    <3>3. CASE req[q].next = 1 /\ req'[q].st = "insert"
      BY <3>1, <3>3 DEF Made, Shard
    <3>4. QED
      BY <2>1, <3>2, <3>3
  <2>3. lock' = [lock EXCEPT ![req[q].next] = q]
    BY <1>2, <2>1 DEF OpenSegment
  <2>4. lock \in [Shard -> Owner]
    BY DEF TypeOK, FilesOK
  <2>5. QED
    BY <2>2, <2>3, <2>4
<1>3. CASE req'[q].st \in {"mkdir", "config", "write"}
  BY <1>3 DEF Made
<1>4. CASE WriteConfig(q)
  <2>1. req'[q].st = "dir" /\ req'[q].next = 0
    BY <1>4, CreateTo DEF WriteConfig, MakesInTurn
  <2>2. QED
    BY <2>1 DEF Made
<1>5. CASE MakeShard(q)
  <2>1. req'[q].st = "open" /\ req'[q].next = req[q].next
    BY <1>5, CreateTo
  <2>2. Made(q)' = Made(q) /\ lock' = lock
    BY <1>5, <2>1 DEF MakeShard, Made
  <2>3. QED
    BY <2>2
<1>6. QED
  BY <1>2, <1>3, <1>4, <1>5, CreateTo DEF CreateStep, Busy, Over

LEMMA MakesAlone ==
  ASSUME OrderInv, OrderInv', StoredInv, CreatesInTurn, DiskFull = FALSE,
         NEW q \in Create, Busy(q), CreateStep(q)
  PROVE  StoredInv'
<1>1. TypeOK /\ q \in Request /\ MakesInTurn
  BY Names DEF OrderInv
<1>2. /\ Locked' <=> Locked
      /\ \A p \in Create \ {q} : (Busy(p)' <=> Busy(p)) /\ req'[p] = req[p]
  BY <1>1, CreateMovesOne
<1>3. served = None /\ ~Locked /\ HasMade(q) /\ \A s \in Made(q) : lock[s] = q
  BY DEF StoredInv, CreatesAlone
<1>4. \A p \in Create \ {q} : ~Busy(p)'
  BY <1>2, OneCreates
<1>5. HasMade(q)' /\ RemovesAlone'
  BY <1>2, <1>3, MakesOn DEF RemovesAlone
<1>6. CASE Insert(q)
  <2>1. served' = [by |-> q, config |-> q, segments |-> Shard]
    BY <1>3, <1>6 DEF Insert
  <2>2. /\ dir' /\ config' = q
        /\ \A s \in Shard : shard'[s] = "segment" /\ lock'[s] = q
    BY <1>3, <1>6 DEF Insert, HasMade, Made
  <2>3. ServedIsStored'
    BY <2>1, <2>2 DEF ServedIsStored
  <2>4. ~Busy(q)'
    BY <1>1, <1>3, <1>6, CreateTo DEF Busy, Over
  <2>5. QED
    BY <1>4, <1>5, <2>3, <2>4 DEF StoredInv, CreatesAlone
<1>7. CASE ~Insert(q)
  <2>1. served' = None
    BY <1>3, <1>7 DEF CreateStep, CheckPath, MakeDir, CreateConfig, WriteConfig,
       MakeShard, OpenSegment, CreateFails
  <2>2. Busy(q)' => \A s \in Made(q)' : lock'[s] = q
    BY <1>1, <1>3, LocksWhatItMade
  <2>3. CreatesAlone'
    BY <1>2, <1>3, <1>4, <1>5, <2>1, <2>2 DEF CreatesAlone
  <2>4. QED
    BY <1>5, <2>1, <2>3 DEF StoredInv, ServedIsStored
<1>8. QED
  BY <1>6, <1>7

(* A delete asks, or takes the collection out, while no create runs.       *)
LEMMA TakesOutAlone ==
  ASSUME OrderInv, StoredInv, NEW q \in Delete, Ask(q) \/ TakeOut(q)
  PROVE  StoredInv'
<1>1. TypeOK /\ q \in Request /\ q \notin Create
  BY Names DEF OrderInv
<1>2. \A p \in Request \ {q} : req'[p] = req[p]
  BY <1>1, OthersRest DEF DeleteStep, Ask, TakeOut, RemoveConfig
<1>3. \A p \in Create : req'[p] = req[p] /\ (Busy(p)' <=> Busy(p))
  BY <1>1, <1>2, Names DEF Busy, Over
<1>4. dir' = dir /\ config' = config /\ shard' = shard
  BY DEF Ask, TakeOut
<1>5. CASE served' = served /\ lock' = lock /\ (Locked' <=> Locked)
  BY <1>3, <1>4, <1>5
  DEF StoredInv, ServedIsStored, RemovesAlone, CreatesAlone, HasMade, Made
<1>6. CASE Ask(q)
  <2>1. req'[q].st = "lock" /\ req[q].st = "idle"
    BY <1>1, <1>6, DeleteTo DEF Ask, MayBegin
  <2>2. \A d \in Delete : req'[d].st = "remove" <=> req[d].st = "remove"
    BY <1>2, <2>1, Names
  <2>3. QED
    BY <1>5, <1>6, <2>2 DEF Ask, Locked
<1>7. CASE TakeOut(q) /\ served = None
  <2>1. req'[q].st = "err" /\ req[q].st = "lock"
    BY <1>1, <1>7, DeleteTo DEF TakeOut
  <2>2. \A d \in Delete : req'[d].st = "remove" <=> req[d].st = "remove"
    BY <1>2, <2>1, Names
  <2>3. QED
    BY <1>5, <1>7, <2>2 DEF TakeOut, Locked
<1>8. CASE TakeOut(q) /\ served # None
  <2>1. dir /\ \A p \in Create : ~Busy(p)
    BY <1>8 DEF StoredInv, ServedIsStored, CreatesAlone
  <2>2. served' = None
    BY <1>8 DEF TakeOut
  <2>3. QED
    BY <1>3, <1>4, <2>1, <2>2 DEF StoredInv, ServedIsStored, RemovesAlone, CreatesAlone
<1>9. QED
  BY <1>6, <1>7, <1>8

(* A delete removes the files.                                             *)
LEMMA RemovesFiles ==
  ASSUME OrderInv, StoredInv, NEW q \in Delete,
         RemoveConfig(q) \/ RemoveShard(q) \/ RemoveDir(q) \/ RemoveFails(q)
  PROVE  StoredInv'
<1>1. TypeOK /\ q \in Request /\ q \notin Create /\ req[q].st = "remove"
  BY Names DEF OrderInv, RemoveConfig, RemoveShard, RemoveDir, RemoveFails
<1>2. Locked /\ dir /\ served = None /\ \A p \in Create : ~Busy(p)
  BY <1>1 DEF Locked, StoredInv, RemovesAlone, CreatesAlone
<1>3. served' = None
  BY <1>2 DEF RemoveConfig, RemoveShard, RemoveDir, RemoveFails
<1>4. \A p \in Request \ {q} : req'[p].st = req[p].st
  <2>1. CASE RemoveConfig(q)
    BY <1>1, <2>1 DEF RemoveConfig, TypeOK, RequestsOK, RequestRecord
  <2>2. CASE ~RemoveConfig(q)
    BY <1>1, <2>2, OthersRest DEF DeleteStep
  <2>3. QED
    BY <2>1, <2>2
<1>5. CreatesAlone'
  BY <1>1, <1>2, <1>4, Names DEF CreatesAlone, Busy, Over
<1>6. RemovesAlone'
  <2>1. CASE RemoveDir(q)
    <3>1. req'[q].st = "ok"
      BY <1>1, <2>1, DeleteTo
    <3>2. \A d \in Delete : d # q => req'[d].st # "remove"
      BY <1>1, <1>4, Names DEF TypeOK, RequestsOK
    <3>3. QED
      BY <3>1, <3>2 DEF RemovesAlone, Locked
  <2>2. CASE ~RemoveDir(q)
    BY <1>2, <1>3, <2>2 DEF RemoveConfig, RemoveShard, RemoveFails, RemovesAlone
  <2>3. QED
    BY <2>1, <2>2
<1>7. QED
  BY <1>3, <1>5, <1>6 DEF StoredInv, ServedIsStored

(* A client that hangs up ends a create, which closes its databases, or a  *)
(* delete that has none.                                                   *)
LEMMA GivesUpAlone ==
  ASSUME OrderInv, StoredInv, CreatesInTurn, NEW q \in Request, ClientGone(q)
  PROVE  StoredInv'
<1>1. TypeOK /\ Busy(q) /\ ~Busy(q)'
  <2>1. PICK st \in {"late", "gone"} : Goes(q, st)
    BY DEF ClientGone
  <2>2. QED
    BY <2>1, GoesTo DEF OrderInv, ClientGone, Busy, Over
<1>2. /\ dir' = dir /\ config' = config /\ shard' = shard /\ served' = served
      /\ lock' = Drop(q)
  BY DEF ClientGone
<1>3. CASE q \in Create
  <2>1. /\ Locked' <=> Locked
        /\ \A p \in Create \ {q} : Busy(p)' <=> Busy(p)
    BY <1>1, <1>3, CreateMovesOne
  <2>2. served = None /\ ~Locked
    BY <1>1, <1>3 DEF StoredInv, CreatesAlone
  <2>3. \A p \in Create : ~Busy(p)'
    BY <1>1, <1>3, <2>1, OneCreates
  <2>4. QED
    BY <1>2, <2>1, <2>2, <2>3 DEF StoredInv, ServedIsStored, RemovesAlone, CreatesAlone
<1>4. CASE q \in Delete
  <2>1. q \notin Owner /\ q \notin Create
    BY <1>4, LifecycleAssumption DEF Owner, Request
  <2>2. lock' = lock
    BY <1>1, <1>2, <2>1 DEF TypeOK, FilesOK, Drop
  <2>3. \A p \in Request \ {q} : req'[p] = req[p]
    BY <1>1, OthersRest
  <2>4. \A p \in Create : req'[p] = req[p] /\ (Busy(p)' <=> Busy(p))
    BY <2>1, <2>3, Names DEF Busy, Over
  <2>5. Locked' <=> Locked
    <3>1. req[q].st # "remove" /\ req'[q].st # "remove"
      BY <1>1 DEF ClientGone, Busy, Over
    <3>2. QED
      BY <2>3, <3>1, Names DEF Locked
  <2>6. QED
    BY <1>2, <2>2, <2>4, <2>5
    DEF StoredInv, ServedIsStored, RemovesAlone, CreatesAlone, HasMade, Made
<1>5. QED
  BY <1>3, <1>4 DEF Request

LEMMA CrashesAlone ==
  ASSUME OrderInv, StoredInv, Crash
  PROVE  StoredInv'
<1>1. served' = None /\ \A q \in Request : ~Busy(q)'
  <2>1. up /\ ~up' /\ TypeOK /\ [Next]_vars
    BY DEF Crash, OrderInv, Next
  <2>2. QED
    BY <2>1, DownStep
<1>2. ~Locked'
  BY <1>1, Names DEF Locked, Busy, Over
<1>3. QED
  BY <1>1, <1>2, Names DEF StoredInv, ServedIsStored, RemovesAlone, CreatesAlone

LEMMA StartsAlone ==
  ASSUME OrderInv, StoredInv, Restart
  PROVE  StoredInv'
<1>1. req' = req /\ ~up /\ dir' = dir /\ config' = config /\ shard' = shard
  BY DEF Restart
<1>2. served = None /\ \A q \in Request : ~Busy(q)
  BY <1>1 DEF OrderInv, Quiet
<1>3. ~Locked' /\ \A q \in Create : ~Busy(q)'
  BY <1>1, <1>2, Names DEF Locked, Busy, Over
<1>4. ServedIsStored'
  <2>1. CASE served' = None
    BY <2>1 DEF ServedIsStored
  <2>2. CASE served' # None
    <3>1. /\ dir
          /\ served' = [by |-> Boot, config |-> config, segments |-> Found]
          /\ lock' = [s \in Shard |-> IF s \in Found THEN Boot ELSE None]
      BY <1>2, <2>2 DEF Restart
    <3>2. QED
      BY <1>1, <3>1 DEF ServedIsStored, Found
  <2>3. QED
    BY <2>1, <2>2
<1>5. QED
  BY <1>3, <1>4 DEF StoredInv, RemovesAlone, CreatesAlone

LEMMA StoredStep ==
  ASSUME OrderInv, OrderInv', StoredInv, CreatesInTurn, DiskFull = FALSE, [Next]_vars
  PROVE  StoredInv'
<1>1. CASE \E q \in Create : CreateStep(q)
  BY <1>1, BeginsAlone, MakesAlone
<1>2. CASE \E q \in Delete : DeleteStep(q)
  BY <1>2, TakesOutAlone, RemovesFiles DEF DeleteStep
<1>3. CASE \E q \in Request : ClientGone(q)
  BY <1>3, GivesUpAlone
<1>4. CASE UNCHANGED vars
  BY <1>4 DEF vars, StoredInv, ServedIsStored, RemovesAlone, CreatesAlone, Busy, Over,
     HasMade, Made, Locked
<1>5. QED
  BY <1>1, <1>2, <1>3, <1>4, CrashesAlone, StartsAlone DEF Next

LEMMA StoredInvHolds == CreatesInTurn /\ DiskFull = FALSE /\ Spec => []StoredInv
<1> SUFFICES ASSUME CreatesInTurn, DiskFull = FALSE
             PROVE  Spec => []StoredInv
  OBVIOUS
<1>1. Init => StoredInv
  BY Names DEF Init, StoredInv, ServedIsStored, RemovesAlone, CreatesAlone, NotBegun,
     Busy, Locked
<1>2. OrderInv /\ OrderInv' /\ StoredInv /\ [Next]_vars => StoredInv'
  BY StoredStep
<1>3. QED
  BY <1>1, <1>2, OrderHolds, PTL DEF Spec

(* What the process serves is at every moment what the next start will     *)
(* find, with deletes that run at any time and clients and processes that  *)
(* give up at any step (Collection::init and load, perform_collection_     *)
(* meta_op). It takes creates that wait for each other, or a second one    *)
(* truncates the config of the first, and a disk that does not fill up.    *)
THEOREM ServedIsStoredHolds ==
  CreatesInTurn /\ DiskFull = FALSE /\ Spec => []ServedIsStored
<1>1. StoredInv => ServedIsStored
  BY DEF StoredInv
<1>2. QED
  BY <1>1, StoredInvHolds, PTL

-----------------------------------------------------------------------------

(* Only a create that saves makes a config unreadable, and its write makes *)
(* it readable.                                                            *)
LEMMA UnreadableMoves ==
  ASSUME OrderInv, StoredInv, DiskFull = FALSE, [Next]_vars, Unreadable'
  PROVE  \/ \E q \in Create : req'[q].st = "write"
         \/ Unreadable /\ \A q \in Create : ~WriteConfig(q)
<1>1. TypeOK /\ (~dir => config = None) /\ None \notin {"empty", "torn"}
  BY LifecycleAssumption DEF OrderInv, TypeOK, FilesOK
<1>2. ASSUME NEW q \in Create, CreateConfig(q)
      PROVE  req'[q].st = "write" \/ Unreadable
  <2>1. CASE dir
    <3>1. req' = [req EXCEPT ![q].st = "write", ![q].file = TRUE]
      BY <1>2, <2>1 DEF CreateConfig
    <3>2. req'[q].st = "write"
      BY <1>1, <3>1, Names DEF TypeOK, RequestsOK, RequestRecord
    <3>3. QED
      BY <3>2
  <2>2. CASE ~dir
    BY <1>2, <2>2 DEF CreateConfig, Unreadable
  <2>3. QED
    BY <2>1, <2>2
<1>3. ASSUME NEW q \in Create, WriteConfig(q)
      PROVE  FALSE
  <2>1. Busy(q) /\ req[q].st = "write"
    BY <1>3 DEF WriteConfig, Busy, Over
  <2>2. config = "empty" /\ req[q].file
    BY <2>1 DEF StoredInv, CreatesAlone, HasMade
  <2>3. config' = q
    BY <1>3, <2>2 DEF WriteConfig
  <2>4. q \notin {"empty", "torn"}
    BY LifecycleAssumption DEF Request
  <2>5. QED
    BY <2>3, <2>4 DEF Unreadable
<1>4. CASE config' = config
  BY <1>1, <1>3, <1>4 DEF Unreadable
<1>5. CASE config' # config
  <2>1. \/ \E q \in Create : CreateConfig(q) \/ WriteConfig(q)
        \/ \E q \in Delete : RemoveConfig(q)
    BY <1>5 DEF Next, vars, ClientGone, Crash, Restart,
       CreateStep, CheckPath, MakeDir, MakeShard, OpenSegment, Insert, CreateFails,
       DeleteStep, Ask, TakeOut, RemoveShard, RemoveDir, RemoveFails
  <2>2. \A q \in Delete : ~RemoveConfig(q)
    BY Names DEF RemoveConfig, Unreadable
  <2>3. QED
    BY <1>2, <1>3, <2>1, <2>2
<1>6. QED
  BY <1>4, <1>5

LEMMA UnfinishedStep ==
  ASSUME OrderInv, StoredInv, DiskFull = FALSE, UnreadableIsUnfinished, [Next]_vars
  PROVE  UnreadableIsUnfinished'
<1> SUFFICES ASSUME up', Unreadable', \A q \in Create : req'[q].st # "write"
             PROVE  FALSE
  BY DEF UnreadableIsUnfinished
<1>1. TypeOK /\ Quiet /\ Unreadable /\ \A q \in Create : ~WriteConfig(q)
  BY UnreadableMoves DEF OrderInv
<1>2. CASE ~up
  <2>1. Restart
    BY <1>1, <1>2, DownRests
  <2>2. dir /\ config # None
    BY <1>1, LifecycleAssumption DEF Unreadable
  <2>3. QED
    BY <1>1, <1>2, <2>1, <2>2 DEF Restart
<1>3. CASE up
  <2>1. PICK q \in Create : req[q].st = "write"
    BY <1>1, <1>3 DEF UnreadableIsUnfinished
  <2>2. q \in Request /\ q \notin Delete /\ ~Locked
    BY <2>1, Names DEF StoredInv, CreatesAlone, Busy, Over
  <2>3. ~CreateStep(q)
    BY <1>1, <2>1 DEF CreateStep, CheckPath, MayBegin, MakeDir, CreateConfig, MakeShard,
       OpenSegment, Insert, CreateFails
  <2>4. ~ClientGone(q) /\ ~Crash
    BY <2>1 DEF ClientGone, Crash
  <2>5. req'[q] = req[q]
    BY <1>1, <2>2, <2>3, <2>4, RequestMoves
  <2>6. QED
    BY <2>1, <2>5
<1>4. QED
  BY <1>2, <1>3

(* While the process runs, a config that TableOfContent::load would panic  *)
(* on is one that a create is just saving, between the two steps of        *)
(* CollectionConfig::save. It takes creates that wait for each other and a *)
(* disk that does not fill up, and speaks of the config only.              *)
THEOREM UnreadableIsUnfinishedHolds ==
  CreatesInTurn /\ DiskFull = FALSE /\ Spec => []UnreadableIsUnfinished
<1> SUFFICES ASSUME CreatesInTurn, DiskFull = FALSE
             PROVE  Spec => []UnreadableIsUnfinished
  OBVIOUS
<1>1. Init => UnreadableIsUnfinished
  BY DEF Init, UnreadableIsUnfinished, Unreadable
<1>2. OrderInv /\ StoredInv /\ UnreadableIsUnfinished /\ [Next]_vars
        => UnreadableIsUnfinished'
  BY UnfinishedStep
<1>3. QED
  BY <1>1, <1>2, StoredInvHolds, OrderHolds, PTL DEF Spec
=============================================================================
