------------------------- MODULE CollectionLifecycle -------------------------
(***************************************************************************)
(* One collection name on one peer: the requests that create and delete    *)
(* the collection (TableOfContent::perform_collection_meta_op), the        *)
(* directory storage/collections/<name> they write, the map of collections *)
(* the process serves, and the load of the directory when it starts again. *)
(*                                                                         *)
(* Requests run on several threads and share nothing but the directory and *)
(* the map, whose write lock is taken to insert and held by a delete until *)
(* its files are gone. The process may die between any two file system     *)
(* operations; what they wrote stays.                                      *)
(***************************************************************************)
EXTENDS Naturals

CONSTANTS
  Create,     \* requests that create the collection, each with its params
  Delete,     \* requests that delete it
  Before,     \* Before[q]: requests that are over before q is sent
  DiskFull,   \* whether writes of file contents may fail
  MaxCrash,   \* bound on the crashes of a behaviour
  None

Request == Create \cup Delete

Boot == "boot"

(* The shards that Collection::init makes, in this order.                  *)
Shard == 0..1

(* A collection in the map.                                                *)
Collection ==
  [by : Create \cup {Boot}, config : Create, segments : SUBSET Shard]

ASSUME LifecycleAssumption ==
  /\ Create \cap Delete = {}
  /\ Before \in [Request -> SUBSET Request]
  /\ DiskFull \in BOOLEAN
  /\ MaxCrash \in Nat
  /\ {None, "empty", "torn"} \cap Request = {}
  /\ None \notin {"empty", "torn", Boot} \cup Collection
  /\ Boot \notin Request

VARIABLES
  up,       \* the process runs
  dir,      \* the directory exists
  config,   \* contents of config.json: None, "empty", "torn" or its creator's
  shard,    \* shard[s]: its directory is missing, made, or has segment 0
  lock,     \* lock[s]: whose sled database holds the segment's file lock
  served,   \* the map's collection: who opened it, its config and segments
  req,      \* req[q]: local variables of a request
  panicked, \* TableOfContent::load has panicked
  crashes   \* number of crashes so far

vars == <<up, dir, config, shard, lock, served, req, panicked, crashes>>
disk == <<dir, config, shard>>

-----------------------------------------------------------------------------

(* A request's fields: where it is, the shard that a create makes next,    *)
(* whether its file handle is that of the present config.json, and whose   *)
(* collection a delete took out of the map.                                *)
NotBegun == [st |-> "idle", next |-> 0, file |-> FALSE, owner |-> None]

Init ==
  /\ up = TRUE
  /\ dir = FALSE
  /\ config = None
  /\ shard = [s \in Shard |-> "none"]
  /\ lock = [s \in Shard |-> None]
  /\ served = None
  /\ req = [q \in Request |-> NotBegun]
  /\ panicked = FALSE
  /\ crashes = 0

Goes(q, st) == req' = [req EXCEPT ![q].st = st]

Over(q) == req[q].st \in {"ok", "err", "panic", "gone", "late"}

(* A dropped collection closes its databases.                              *)
Drop(owner) == [s \in Shard |-> IF lock[s] = owner THEN None ELSE lock[s]]

(* A delete holds the map's write lock while it removes the files.         *)
Locked == \E d \in Delete : req[d].st = "remove"

MayBegin(q) ==
  /\ up
  /\ req[q].st = "idle"
  /\ \A p \in Before[q] : Over(p)

-----------------------------------------------------------------------------

(* A fault: the path is not checked.                                       *)
TakesAnyPath(q) ==
  /\ MayBegin(q)
  /\ Goes(q, "mkdir")
  /\ UNCHANGED <<up, dir, config, shard, lock, served, panicked, crashes>>

(* mkdir_collection_dir: path.exists().                                    *)
CheckPath(q) ==
  /\ MayBegin(q)
  /\ Goes(q, IF dir THEN "err" ELSE "mkdir")
  /\ UNCHANGED <<up, dir, config, shard, lock, served, panicked, crashes>>

(* create_dir_all, which does not mind a directory that exists by now. It  *)
(* runs on a blocking thread, and also when its request is gone.           *)
MakeDir(q) ==
  /\ req[q].st \in {"mkdir", "late"}
  /\ dir' = TRUE
  /\ Goes(q, IF req[q].st = "mkdir" THEN "config" ELSE "gone")
  /\ UNCHANGED <<up, config, shard, lock, served, panicked, crashes>>

(* CollectionConfig::save, File::create: truncates what is there.          *)
CreateConfig(q) ==
  /\ req[q].st = "config"
  /\ IF dir
     THEN /\ config' = "empty"
          /\ req' = [req EXCEPT ![q].st = "write", ![q].file = TRUE]
     ELSE Goes(q, "err") /\ UNCHANGED config
  /\ UNCHANGED <<up, dir, shard, lock, served, panicked, crashes>>

(* A fault: the buffered contents are not written out.                     *)
KeepsBuffer(q) ==
  /\ req[q].st = "write"
  /\ Goes(q, "dir")
  /\ UNCHANGED <<up, dir, config, shard, lock, served, panicked, crashes>>

(* CollectionConfig::save, contents that fit the BufWriter's 8 KiB: it     *)
(* writes them when it is dropped, which discards an error. Over longer    *)
(* contents that another request wrote since this one truncated the file,  *)
(* a tail of them stays.                                                   *)
WriteConfig(q) ==
  /\ req[q].st = "write"
  /\ \/ /\ req[q].file
        /\ config' \in IF config = "empty" THEN {q} ELSE {q, "torn"}
     \/ /\ ~req[q].file \/ DiskFull
        /\ UNCHANGED config
  /\ Goes(q, "dir")
  /\ UNCHANGED <<up, dir, shard, lock, served, panicked, crashes>>

(* LocalShard::init: create_dir_all of the shard, and of what is missing   *)
(* above it.                                                               *)
MakeShard(q) ==
  /\ req[q].st = "dir"
  /\ dir' = TRUE
  /\ shard' = [shard EXCEPT ![req[q].next] = IF @ = "none" THEN "dir" ELSE @]
  /\ Goes(q, "open")
  /\ UNCHANGED <<up, config, lock, served, panicked, crashes>>

(* A fault: the database of an open segment can be opened once more.       *)
SharesSegment(q) ==
  LET s == req[q].next IN
  /\ req[q].st = "open"
  /\ dir' = TRUE
  /\ shard' = [shard EXCEPT ![s] = "segment"]
  /\ lock' = [lock EXCEPT ![s] = q]
  /\ req' = [req EXCEPT ![q].next = @ + 1,
                        ![q].st = IF s + 1 \in Shard THEN "dir" ELSE "insert"]
  /\ UNCHANGED <<up, config, served, panicked, crashes>>

(* Segment::create: create_dir_all and sled::open, whose error on a        *)
(* database that is already open makes LocalShard::init panic.             *)
OpenSegment(q) ==
  LET s == req[q].next IN
  /\ req[q].st = "open"
  /\ dir' = TRUE
  /\ shard' = [shard EXCEPT ![s] = "segment"]
  /\ IF lock[s] = None
     THEN /\ lock' = [lock EXCEPT ![s] = q]
          /\ req' = [req EXCEPT ![q].next = @ + 1,
                                ![q].st = IF s + 1 \in Shard THEN "dir" ELSE "insert"]
     ELSE /\ lock' = Drop(q)
          /\ Goes(q, "panic")
  /\ UNCHANGED <<up, config, served, panicked, crashes>>

(* Under the write lock the map is checked once more.                      *)
Insert(q) ==
  /\ req[q].st = "insert"
  /\ ~Locked
  /\ IF served = None
     THEN /\ served' = [by |-> q, config |-> q, segments |-> Shard]
          /\ Goes(q, "ok")
          /\ UNCHANGED lock
     ELSE /\ lock' = Drop(q)
          /\ Goes(q, "err")
          /\ UNCHANGED served
  /\ UNCHANGED <<up, dir, config, shard, panicked, crashes>>

(* An I/O error: answered while the directory or the config is created,    *)
(* a panic while the shards are. What was made is left in place.           *)
CreateFails(q) ==
  /\ req[q].st \in {"mkdir", "config", "dir", "open"}
  /\ Goes(q, IF req[q].st \in {"mkdir", "config"} THEN "err" ELSE "panic")
  /\ lock' = Drop(q)
  /\ UNCHANGED <<up, dir, config, shard, served, panicked, crashes>>

-----------------------------------------------------------------------------

Ask(q) ==
  /\ MayBegin(q)
  /\ Goes(q, "lock")
  /\ UNCHANGED <<up, dir, config, shard, lock, served, panicked, crashes>>

(* A fault: the collection leaves the map, and its directory stays.        *)
ForgetsDir(q) ==
  /\ req[q].st = "lock"
  /\ ~Locked
  /\ served' = None
  /\ Goes(q, IF served = None THEN "err" ELSE "ok")
  /\ lock' = [s \in Shard |-> None]
  /\ UNCHANGED <<up, dir, config, shard, panicked, crashes>>

(* The write lock, and the removal from the map. The directory is missing  *)
(* only if somebody else removed it.                                       *)
TakeOut(q) ==
  /\ req[q].st = "lock"
  /\ ~Locked
  /\ IF served = None
     THEN Goes(q, "err") /\ UNCHANGED <<served, lock>>
     ELSE /\ served' = None
          /\ IF dir
             THEN /\ req' = [req EXCEPT ![q].st = "remove", ![q].owner = served.by]
                  /\ UNCHANGED lock
             ELSE Goes(q, "err") /\ lock' = Drop(served.by)
  /\ UNCHANGED <<up, dir, config, shard, panicked, crashes>>

(* remove_dir_all, one entry at a time and in any order. Whoever has the   *)
(* removed file open still writes to it, and nobody reads that.            *)
RemoveConfig(q) ==
  /\ req[q].st = "remove"
  /\ config # None
  /\ config' = None
  /\ req' = [p \in Request |-> [req[p] EXCEPT !.file = FALSE]]
  /\ UNCHANGED <<up, dir, shard, lock, served, panicked, crashes>>

(* A fault: the lock of a removed segment is still in the way.             *)
KeepsLock(q) ==
  /\ req[q].st = "remove"
  /\ \E s \in Shard :
       /\ shard[s] # "none"
       /\ shard' = [shard EXCEPT ![s] = IF @ = "segment" THEN "dir" ELSE "none"]
  /\ UNCHANGED <<up, dir, config, lock, served, req, panicked, crashes>>

RemoveShard(q) ==
  /\ req[q].st = "remove"
  /\ \E s \in Shard :
       /\ shard[s] # "none"
       /\ shard' = [shard EXCEPT ![s] = IF @ = "segment" THEN "dir" ELSE "none"]
       /\ lock' = [lock EXCEPT ![s] = None]
  /\ UNCHANGED <<up, dir, config, served, req, panicked, crashes>>

RemoveDir(q) ==
  /\ req[q].st = "remove"
  /\ config = None
  /\ \A s \in Shard : shard[s] = "none"
  /\ dir' = FALSE
  /\ Goes(q, "ok")
  /\ lock' = Drop(req[q].owner)
  /\ UNCHANGED <<up, config, shard, served, panicked, crashes>>

(* remove_dir_all fails, on an I/O error or because somebody else put a    *)
(* file there. The collection has left the map all the same.               *)
RemoveFails(q) ==
  /\ req[q].st = "remove"
  /\ Goes(q, "err")
  /\ lock' = Drop(req[q].owner)
  /\ UNCHANGED <<up, dir, config, shard, served, panicked, crashes>>

-----------------------------------------------------------------------------

(* The HTTP client hangs up: the handler's future is dropped where it      *)
(* awaits, which is the directory's creation or the map's write lock.      *)
ClientGone(q) ==
  /\ req[q].st \in {"mkdir", "insert", "lock"}
  /\ Goes(q, IF req[q].st = "mkdir" THEN "late" ELSE "gone")
  /\ lock' = Drop(q)
  /\ UNCHANGED <<up, dir, config, shard, served, panicked, crashes>>

Crash ==
  /\ up
  /\ crashes < MaxCrash
  /\ crashes' = crashes + 1
  /\ up' = FALSE
  /\ served' = None
  /\ lock' = [s \in Shard |-> None]
  /\ req' = [q \in Request |->
               IF req[q].st = "idle" \/ (Over(q) /\ req[q].st # "late")
               THEN req[q] ELSE [req[q] EXCEPT !.st = "gone"]]
  /\ UNCHANGED <<dir, config, shard, panicked>>

(* LocalShard::load takes any shard directory, with segment 0 if it is     *)
(* there, and opens it.                                                    *)
Found == {s \in Shard : shard[s] = "segment"}

(* Collection::load parses the config.                                     *)
Unreadable == dir /\ config \in {"empty", "torn"}

(* TableOfContent::load: a directory without config.json is skipped, and a *)
(* collection that does not load is a panic.                               *)
Restart ==
  /\ ~up
  /\ \/ Unreadable /\ panicked' = TRUE /\ UNCHANGED <<up, lock, served>>
     \/ /\ ~Unreadable /\ dir /\ config # None
        /\ up' = TRUE
        /\ served' = [by |-> Boot, config |-> config, segments |-> Found]
        /\ lock' = [s \in Shard |-> IF s \in Found THEN Boot ELSE None]
        /\ UNCHANGED panicked
     \/ /\ ~(dir /\ config # None)
        /\ up' = TRUE
        /\ UNCHANGED <<panicked, lock, served>>
  /\ UNCHANGED <<dir, config, shard, req, crashes>>

CreateStep(q) ==
  \/ CheckPath(q)
  \/ MakeDir(q)
  \/ CreateConfig(q)
  \/ WriteConfig(q)
  \/ MakeShard(q)
  \/ OpenSegment(q)
  \/ Insert(q)
  \/ CreateFails(q)

DeleteStep(q) ==
  \/ Ask(q)
  \/ TakeOut(q)
  \/ RemoveConfig(q)
  \/ RemoveShard(q)
  \/ RemoveDir(q)
  \/ RemoveFails(q)

Next ==
  \/ \E q \in Create : CreateStep(q)
  \/ \E q \in Delete : DeleteStep(q)
  \/ \E q \in Request : ClientGone(q)
  \/ Crash
  \/ Restart

Spec == Init /\ [][Next]_vars

-----------------------------------------------------------------------------

Owner == Create \cup {Boot, None}

RequestRecord ==
  [st : {"idle", "mkdir", "config", "write", "dir", "open", "insert", "lock",
         "remove", "ok", "err", "panic", "gone", "late"},
   next : 0..2, file : BOOLEAN, owner : Owner]

(* Files lie in directories, and only a segment that exists is locked.     *)
FilesOK ==
  /\ dir \in BOOLEAN
  /\ config \in Create \cup {None, "empty", "torn"}
  /\ shard \in [Shard -> {"none", "dir", "segment"}]
  /\ lock \in [Shard -> Owner]
  /\ ~dir => config = None /\ \A s \in Shard : shard[s] = "none"
  /\ \A s \in Shard : lock[s] # None => shard[s] = "segment"

(* A create still has a shard to make.                                     *)
Making == {"idle", "mkdir", "config", "write", "dir", "open"}

(* A create makes the two shards, and one delete at a time removes files.  *)
RequestsOK ==
  /\ req \in [Request -> RequestRecord]
  /\ \A q \in Request : req[q].st \in Making => req[q].next \in Shard
  /\ \A d, e \in Delete :
       req[d].st = "remove" /\ req[e].st = "remove" => d = e

ProcessOK ==
  /\ up \in BOOLEAN
  /\ panicked \in BOOLEAN
  /\ served = None \/ served \in Collection
  /\ crashes \in 0..MaxCrash

(* A file handle that is valid is that of a file.                          *)
HandlesOK == \A q \in Request : req[q].file => config # None

(* Every variable has its type, as far as the file system and the locks    *)
(* tie them together.                                                      *)
TypeOK == FilesOK /\ RequestsOK /\ ProcessOK /\ HandlesOK

(* What the process serves is what the next start will find: the directory *)
(* has the collection's own config, and its segments are the files that    *)
(* its databases have open, whatever creates and deletes ran or died in    *)
(* between. It takes creates that do not overlap.                          *)
ServedIsStored ==
  served # None =>
    /\ dir
    /\ config = served.config
    /\ \A s \in served.segments : shard[s] = "segment" /\ lock[s] = served.by

(* However creates race, the process serves nothing but databases that it  *)
(* opened for the collection in the map: those that lose the race neither  *)
(* close nor replace the winner's. No delete may run at the same time.     *)
ServedIsOpen ==
  served # None =>
    \A s \in served.segments : shard[s] = "segment" /\ lock[s] = served.by

(* The argument for ServedIsOpen: a create holds the locks of the shards   *)
(* that it has made, and lets go of none once it is in the map.            *)

Made(q) ==
  CASE req[q].st = "insert" -> Shard
    [] req[q].st \in {"dir", "open"} -> 0..(req[q].next - 1)
    [] OTHER -> {}

HoldsMade ==
  \A q \in Create :
    /\ req[q].st \in {"idle", "mkdir", "config", "write"} => req[q].next = 0
    /\ \A s \in Made(q) : lock[s] = q

InMap ==
  served # None /\ served.by \in Create => req[served.by].st = "ok"

(* While the process is down nothing is served and nobody creates.         *)
QuietWhenDown ==
  ~up => /\ served = None
         /\ \A q \in Create : req[q].st \in {"idle", "ok", "err", "panic", "gone"}

RaceInv == TypeOK /\ HoldsMade /\ InMap /\ QuietWhenDown /\ ServedIsOpen

(* The requests that may have run are q and those before it.               *)
IsLast(q) == \A p \in Request \ {q} : p \in Before[q] \/ req[p].st = "idle"

(* A create that was answered with success outlives every crash: until a   *)
(* later request, the collection is served with the params and the shards  *)
(* of this create, and the peer starts.                                    *)
AckedCreateStays ==
  \A q \in Create : req[q].st = "ok" /\ IsLast(q) =>
    /\ ~up => config = q /\ dir
    /\ up => /\ served # None
             /\ served.config = q
             /\ served.segments = Shard

(* A collection whose deletion was answered with success does not come     *)
(* back with a restart, whatever creates before it left on the disk.       *)
AckedDeleteStays ==
  \A q \in Delete : req[q].st = "ok" /\ IsLast(q) => ~dir \/ config = None

(* toc.rs:66 expects that every collection found on the disk loads.        *)
EveryCollectionLoads == ~panicked

(* What that rests on: while the process runs, the disk only holds a       *)
(* config that no start could read between the two steps of a create's     *)
(* CollectionConfig::save, whatever deletes run and whoever hangs up. It   *)
(* takes creates that do not overlap, and a disk that does not fill up.    *)
(* That a segment's database can be opened again is sled's affair          *)
(* (segment.rs:53), also for one that is partly removed.                   *)
UnreadableIsUnfinished ==
  up /\ Unreadable => \E q \in Create : req[q].st = "write"

(* local_shard.rs:55 expects that a new collection's segments open.        *)
NewSegmentsOpen ==
  [][\A q \in Create : req[q].st = "open" /\ req'[q].st = "panic"
       => lock[req[q].next] = None]_vars
=============================================================================
