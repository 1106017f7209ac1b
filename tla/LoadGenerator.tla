--------------------------- MODULE LoadGenerator ---------------------------
(***************************************************************************)
(* smolbench: one run of the load generator against a peer. It reads its   *)
(* arguments, makes the collection, writes points in batches, reads some   *)
(* of them, and prints latencies. Its requests are sent one at a time; the *)
(* peer may refuse each of them, or be gone, and other clients create and  *)
(* delete the same collection meanwhile.                                   *)
(***************************************************************************)
EXTENDS Integers, SequencesExt

CONSTANTS
  Text,        \* what may be typed for --num-points: sequences of characters
  DigitOf,     \* DigitOf[c]: the value of character c, for the digits only
  Kilo, Kibi,  \* 1000 and 1024
  MaxNumber,   \* the largest u64
  BatchSize,   \* values of --batch-size
  P9,          \* values of --p9
  Precision,   \* 1 - 0.1^d is 1.0 in an f64 from so many digits d on
  MaxQueries,  \* 1000
  MaxResults,  \* answers that a Vec can be made for, and points of a batch:
  MaxBatch,    \* of more, smolbench panics with a capacity overflow
  MaxPoints,   \* bound: runs with more points are not followed
  None

Argument ==
  [num_points : 0..MaxPoints, batch_size : BatchSize, p9 : P9,
   skip_create : BOOLEAN, skip_if_exists : BOOLEAN, skip_upsert : BOOLEAN,
   skip_query : BOOLEAN]

ASSUME NumberAssumption ==
  /\ \A c \in DOMAIN DigitOf : DigitOf[c] \in 0..9
  /\ DOMAIN DigitOf \cap {"_", "k", "M", "B", "T", "i"} = {}
  /\ Kilo \in Nat \ {0} /\ Kibi \in Nat \ {0} /\ MaxNumber \in Nat
  /\ 9 <= MaxNumber /\ Kilo ^ 4 <= MaxNumber /\ Kibi ^ 4 <= MaxNumber
  /\ BatchSize \subseteq Nat /\ P9 \subseteq Nat
  /\ Precision \in Nat /\ MaxQueries \in Nat \ {0} /\ MaxPoints \in Nat
  /\ MaxResults \in Nat /\ MaxBatch \in Nat
  /\ Text \subseteq Seq(STRING) /\ None \notin Nat \cup Argument

(* Powers of naturals are naturals, and powers of 10 are not 0: arithmetic *)
(* that TLC evaluates, stated because the provers know nothing of powers.  *)
ASSUME PowerAssumption ==
  /\ \A k \in 0..4 : Kilo ^ k \in Nat /\ Kibi ^ k \in Nat
  /\ \A d \in 0..Precision : 10 ^ d \in Nat \ {0}
  /\ 10 ^ 0 = 1
  /\ \A t \in Text : \A d \in 0..Len(t) :
       10 ^ d \in Nat \ {0} /\ 10 ^ (d + 1) = 10 * 10 ^ d

VARIABLES
  text,   \* what was typed for --num-points
  num,    \* how far it was read, and the number so far
  args,   \* the arguments
  pc,     \* where the run is, or how it ended
  held,   \* the peer's collection: none, the old one, this run's, another's
  batch,  \* batches that were acknowledged
  acked,  \* ids that were acknowledged, in order
  asked,  \* ids asked for
  got     \* points retrieved

vars == <<text, num, args, pc, held, batch, acked, asked, got>>

Smaller(a, b) == IF a < b THEN a ELSE b

-----------------------------------------------------------------------------
(* Numbers, as parse_number_impl reads them, a character at a time: digits *)
(* and underscores, then k, M, B or T, then i, after which nothing is read.*)

Power(c) == CASE c = "k" -> 1 [] c = "M" -> 2 [] c = "B" -> 3 [] c = "T" -> 4

IsUnit(c) == c \in {"k", "M", "B", "T"}

Bad(r) == [r EXCEPT !.at = "bad"]

(* A fault: the number wraps around.                                       *)
Wraps(r) == [r EXCEPT !.n = @ % (MaxNumber + 1)]

(* checked_mul and checked_add.                                            *)
Checked(r) == IF r.n > MaxNumber THEN Bad(r) ELSE r

Begun == [at |-> "first", n |-> 0, power |-> 0, read |-> 0]

(* What was read so far, and one character more.                           *)
Read(r, c) ==
  CASE r.at = "first" /\ c \in DOMAIN DigitOf ->
         [r EXCEPT !.at = "digits", !.n = DigitOf[c]]
    [] r.at = "digits" /\ c \in DOMAIN DigitOf ->
         Checked([r EXCEPT !.n = @ * 10 + DigitOf[c]])
    [] r.at = "digits" /\ c = "_" -> r
    [] r.at = "digits" /\ IsUnit(c) ->
         [r EXCEPT !.at = "unit", !.power = Power(c)]
    [] r.at = "unit" /\ c = "i" ->
         Checked([r EXCEPT !.at = "over", !.n = @ * Kibi ^ r.power])
    [] OTHER -> Bad(r)

(* The text was read to its end, or as far as it is looked at.             *)
IsRead == num.read = Len(text) \/ num.at \in {"over", "bad"}

Number ==
  LET r == IF num.at = "unit"
           THEN Checked([num EXCEPT !.n = @ * Kilo ^ num.power])
           ELSE num
  IN IF r.at \in {"first", "bad"} THEN None ELSE r.n

-----------------------------------------------------------------------------

Init ==
  /\ text \in Text
  /\ num = Begun
  /\ args = None
  /\ pc = "typed"
  /\ held \in {"none", "old"}
  /\ batch = 0
  /\ acked = <<>>
  /\ asked = {}
  /\ got = 0

ReadCharacter ==
  /\ pc = "typed" /\ ~IsRead
  /\ num' = [Read(num, text[num.read + 1]) EXCEPT !.read = @ + 1]
  /\ UNCHANGED <<text, args, pc, held, batch, acked, asked, got>>

(* Args::parse: a number that cannot be read ends the run.                 *)
ParseArgs ==
  /\ pc = "typed" /\ IsRead
  /\ \/ Number = None /\ pc' = "usage" /\ UNCHANGED args
     \/ /\ Number # None /\ Number <= MaxPoints
        /\ pc' = "begin"
        /\ \E b \in BatchSize, p \in P9, f \in [1..4 -> BOOLEAN] :
             args' = [num_points |-> Number, batch_size |-> b, p9 |-> p,
                      skip_create |-> f[1], skip_if_exists |-> f[2],
                      skip_upsert |-> f[3], skip_query |-> f[4]]
  /\ text' = <<>> /\ num' = Begun
  /\ UNCHANGED <<held, batch, acked, asked, got>>

(* The run goes on to another place.                                       *)
Goto(p) == pc' = p /\ UNCHANGED <<text, num, args, batch, acked, asked, got>>

(* The peer refuses, or its answer does not come: main returns the error.  *)
Fails(p) == pc = p /\ Goto("error") /\ UNCHANGED held

(* get_collection: each error counts as a collection that is not there.    *)
GetCollection(exists) == exists => held # "none"

AskExists ==
  /\ pc = "begin"
  /\ UNCHANGED held
  /\ \/ args.skip_create /\ Goto("upsert")
     \/ ~args.skip_create /\ GetCollection(FALSE) /\ Goto("create")
     \/ /\ ~args.skip_create /\ GetCollection(TRUE)
        /\ Goto(IF args.skip_if_exists THEN "upsert" ELSE "delete")

DeleteCollection ==
  \/ pc = "delete" /\ held # "none" /\ held' = "none" /\ Goto("create")
  \/ Fails("delete")

(* A fault: the error of create_collection is not looked at.               *)
CreatesAnyway ==
  \/ pc = "create" /\ held = "none" /\ held' = "mine" /\ Goto("upsert")
  \/ pc = "create" /\ Goto("upsert") /\ UNCHANGED held

(* The peer refuses to create a collection that it has.                    *)
CreateCollection ==
  \/ pc = "create" /\ held = "none" /\ held' = "mine" /\ Goto("upsert")
  \/ Fails("create")

-----------------------------------------------------------------------------

(* A fault: the last batch, which may be smaller, is forgotten.            *)
FullBatches == args.num_points \div args.batch_size

(* usize::div_ceil                                                         *)
NumBatches ==
  (args.num_points + args.batch_size - 1) \div args.batch_size

Start(b) == b * args.batch_size

(* A fault: the last batch is as large as the others.                      *)
FullEnd(b) == Start(b) + args.batch_size

End(b) == Smaller(Start(b) + args.batch_size, args.num_points)

(* How many points batch b collects, and their ids.                        *)
Size(b) == End(b) - Start(b)

IdsOf(b) == [i \in 1..Size(b) |-> Start(b) + i - 1]

(* latencies[index], for the p50, the p95, and two nines or more.          *)
Nines(len, d) ==
  IF d >= Precision THEN len ELSE (len * (10 ^ d - 1)) \div 10 ^ d

(* A fault: the index is not kept below the length.                        *)
UnboundedIndices(len) ==
  {len \div 2, (len * 95) \div 100} \cup {Nines(len, d) : d \in 2..args.p9}

Indices(len) ==
  {len \div 2, (len * 95) \div 100}
    \cup {Smaller(Nines(len, d), len - 1) : d \in 2..args.p9}

(* log_latencies panics without a first latency, or outside of them.       *)
LogLatencies(len, next) ==
  IF len = 0 \/ \E i \in Indices(len) : i >= len THEN "panic" ELSE next

(* div_ceil panics for batches of size 0, Vec::with_capacity for too many. *)
CannotBegin == args.batch_size = 0 \/ NumBatches > MaxResults

BeginUpsert ==
  /\ pc = "upsert"
  /\ UNCHANGED held
  /\ Goto(IF args.skip_upsert THEN "queries"
          ELSE IF CannotBegin THEN "panic" ELSE "batches")

(* A fault: a batch that was refused is sent again.                        *)
RetriesBatch ==
  /\ pc = "batches" /\ batch < NumBatches
  /\ \/ Size(batch) > MaxBatch /\ Goto("panic") /\ UNCHANGED held
     \/ /\ Size(batch) <= MaxBatch
        /\ held # "none"
        /\ batch' = batch + 1
        /\ acked' = acked \o IdsOf(batch)
        /\ UNCHANGED <<text, num, args, pc, held, asked, got>>
     \/ UNCHANGED vars

(* The points are collected, or are too many for a Vec; then one request:  *)
(* the batch is acknowledged or the run ends.                              *)
UpsertBatch ==
  /\ pc = "batches" /\ batch < NumBatches
  /\ \/ Size(batch) > MaxBatch /\ Goto("panic") /\ UNCHANGED held
     \/ /\ Size(batch) <= MaxBatch
        /\ held # "none"
        /\ batch' = batch + 1
        /\ acked' = acked \o IdsOf(batch)
        /\ UNCHANGED <<text, num, args, pc, held, asked, got>>
     \/ Size(batch) <= MaxBatch /\ Fails("batches")

LogUpserts ==
  /\ pc = "batches" /\ batch = NumBatches
  /\ Goto(LogLatencies(batch, "queries"))
  /\ UNCHANGED held

NumQueries == Smaller(args.num_points, MaxQueries)

(* A fault: one more than the last id may be asked for.                    *)
OneTooMany == 0..args.num_points

(* rnd % num_points                                                        *)
RandomId == 0..(args.num_points - 1)

BeginQueries ==
  /\ pc = "queries"
  /\ UNCHANGED held
  /\ Goto(IF args.skip_query THEN "ok" ELSE "query")

(* One request: the point is there or the run ends.                        *)
RetrievePoint ==
  /\ pc = "query" /\ got < NumQueries
  /\ \/ /\ \E id \in RandomId : asked' = asked \cup {id}
        /\ held # "none"
        /\ got' = got + 1
        /\ UNCHANGED <<text, num, args, pc, held, batch, acked>>
     \/ Fails("query")

LogQueries ==
  /\ pc = "query" /\ got = NumQueries
  /\ Goto(LogLatencies(got, "ok"))
  /\ UNCHANGED held

Step ==
  \/ ReadCharacter
  \/ ParseArgs
  \/ AskExists
  \/ DeleteCollection
  \/ CreateCollection
  \/ BeginUpsert
  \/ UpsertBatch
  \/ LogUpserts
  \/ BeginQueries
  \/ RetrievePoint
  \/ LogQueries

(* Another client deletes or creates the collection.                       *)
OtherClient ==
  /\ args # None
  /\ held' = IF held = "none" THEN "other" ELSE "none"
  /\ UNCHANGED <<text, num, args, pc, batch, acked, asked, got>>

Next == Step \/ OtherClient

(* The peer answers each request, or the connection ends: smolbench itself *)
(* has no timeout. A run in steps of its own gets on, whatever others do.  *)
Spec == Init /\ [][Next]_vars /\ WF_vars(Step)

-----------------------------------------------------------------------------

(* Every variable has its type, no batch has an id that is not to be       *)
(* written, and no more is asked for or counted than there is.             *)
TypeOK ==
  /\ text \in Text \cup {<<>>}
  /\ num \in [at : {"first", "digits", "unit", "over", "bad"}, n : Nat,
             power : 0..4, read : Nat]
  /\ num.at # "bad" => num.n <= MaxNumber
  /\ args \in Argument \cup {None}
  /\ pc \in {"typed", "usage", "begin", "delete", "create", "upsert",
             "batches", "queries", "query", "ok", "error", "panic"}
  /\ pc \in {"typed", "usage"} <=> args = None
  /\ held \in {"none", "old", "mine", "other"}
  /\ batch > 0 => batch <= NumBatches
  /\ acked # <<>> =>
       \A i \in DOMAIN acked : acked[i] \in 0..args.num_points - 1
  /\ got > 0 => got <= NumQueries

(* The digits of a text from after place i to place s.                     *)
DigitsAfter(t, i, s) == {j \in i + 1..s : t[j] \in DOMAIN DigitOf}

(* The decimal digits of v are those of the text up to place s.            *)
Shows(t, s, v) ==
  /\ v < 10 ^ Cardinality(DigitsAfter(t, 0, s))
  /\ \A i \in DigitsAfter(t, 0, s) :
       (v \div 10 ^ Cardinality(DigitsAfter(t, i, s))) % 10 = DigitOf[t[i]]

(* A numeral ends at place s: a digit, then digits and underscores.        *)
NumeralTo(t, s) ==
  /\ t[1] \in DOMAIN DigitOf
  /\ \A i \in 1..s : t[i] \in DOMAIN DigitOf \cup {"_"}

(* What the suffix after place s multiplies by: none, a power of 1000, or  *)
(* of 1024 if an i follows.                                                *)
Scale(t, s) ==
  CASE s = Len(t) -> {1}
    [] s < Len(t) /\ IsUnit(t[s + 1]) ->
         IF s + 1 = Len(t) THEN {Kilo ^ Power(t[s + 1])}
         ELSE IF t[s + 2] = "i" THEN {Kibi ^ Power(t[s + 1])} ELSE {}
    [] OTHER -> {}

(* The numbers that a text denotes and that are u64s: one or none.         *)
Written(t) ==
  LET ends == {s \in 1..Len(t) : NumeralTo(t, s) /\ Scale(t, s) # {}}
      shown(s) == {v \in 0..MaxNumber : Shows(t, s, v)}
  IN (UNION {{v * u : v \in shown(s), u \in Scale(t, s)} : s \in ends})
       \cap (0..MaxNumber)

(* parse_number_impl returns the number that was written, and none for a   *)
(* text that is no number or a number that is no u64: it never wraps.      *)
NumberAsWritten == pc = "typed" /\ IsRead => {Number} \ {None} = Written(text)

(* Without --skip-create and --skip-if-exists no point is written into the *)
(* collection that was there before, whichever answers are lost and        *)
(* whatever other clients do.                                              *)
WritesAfresh ==
  /\ pc \in {"upsert", "batches"}
  /\ ~args.skip_create
  /\ ~args.skip_if_exists
  => held # "old"

(* When all batches are acknowledged, each id below num_points was sent    *)
(* once, in order, whether or not batch_size divides num_points.           *)
UpsertedOnce ==
  \/ pc = "batches" /\ batch = NumBatches
  \/ pc = "query" /\ ~args.skip_upsert
  => acked = [i \in 1..args.num_points |-> i - 1]

(* "Assume that IDs in the range [0, num_points) have been upserted": the  *)
(* ids asked for are among those that this run saw acknowledged.           *)
AsksForAcked ==
  pc = "query" /\ ~args.skip_upsert => \A id \in asked : Contains(acked, id)

(* Only runs without points, batches of size 0, and more batches or larger *)
(* batches than a Vec can be made for make smolbench panic: no count of    *)
(* answers and no number of nines takes a percentile's index out of the    *)
(* latencies, and a smaller last batch changes nothing.                    *)
PanicsOnlyAtLimits ==
  pc = "panic" =>
    \/ args.num_points = 0
    \/ /\ ~args.skip_upsert
       /\ \/ args.batch_size = 0
          \/ NumBatches > MaxResults
          \/ Smaller(args.num_points, args.batch_size) > MaxBatch

(* A run ends, with an answer to each of its requests or an error, even if *)
(* the collection is deleted under it.                                     *)
EveryRunEnds == pc = "begin" ~> pc \in {"ok", "error", "panic"}
=============================================================================
