------------------------ MODULE LoadGeneratorProofs ------------------------
(* Theorems about LoadGenerator, for every value of its constants.         *)
EXTENDS LoadGenerator, FiniteSetTheorems, SequenceTheorems, TLAPS

(* What a number is read into.                                             *)
Reading == [at : {"first", "digits", "unit", "over", "bad"}, n : Nat,
            power : 0..4, read : Nat]

InRange(r) == r \in Reading /\ (r.at # "bad" => r.n <= MaxNumber)

LEMMA TimesNext ==
  ASSUME NEW a \in Nat, NEW b \in Nat
  PROVE  (a + 1) * b = a * b + b
OBVIOUS

LEMMA TimesIs ==
  ASSUME NEW a \in Nat, NEW b \in Nat
  PROVE  a * b \in Nat
OBVIOUS

(* A number stays within a u64, or it is bad.                              *)
LEMMA CheckedInRange ==
  ASSUME NEW r \in Reading
  PROVE  InRange(Checked(r))
<1>1. MaxNumber \in Nat /\ r.n \in Nat
  BY NumberAssumption DEF Reading
<1>2. CASE r.n > MaxNumber
  BY <1>2 DEF InRange, Reading, Checked, Bad
<1>3. CASE r.n <= MaxNumber
  <2>1. Checked(r) = r
    BY <1>1, <1>3 DEF Checked
  <2>2. QED
    BY <1>3, <2>1 DEF InRange
<1>4. QED
  BY <1>1, <1>2, <1>3

LEMMA PowerIs ==
  ASSUME NEW c, IsUnit(c)
  PROVE  Power(c) \in 0..4
<1>1. c = "k" => Power(c) = 1
  BY DEF Power
<1>2. c = "M" => Power(c) = 2
  BY DEF Power
<1>3. c = "B" => Power(c) = 3
  BY DEF Power
<1>4. c = "T" => Power(c) = 4
  BY DEF Power
<1>5. c \in {"k", "M", "B", "T"}
  BY DEF IsUnit
<1>6. QED
  BY <1>1, <1>2, <1>3, <1>4, <1>5

(* The arms of Read exclude each other.                                    *)
LEMMA ReadIs ==
  ASSUME NEW r \in Reading, NEW c
  PROVE  /\ r.at = "first" /\ c \in DOMAIN DigitOf =>
              Read(r, c) = [r EXCEPT !.at = "digits", !.n = DigitOf[c]]
         /\ r.at = "digits" /\ c \in DOMAIN DigitOf =>
              Read(r, c) = Checked([r EXCEPT !.n = r.n * 10 + DigitOf[c]])
         /\ r.at = "digits" /\ c = "_" => Read(r, c) = r
         /\ r.at = "digits" /\ IsUnit(c) =>
              Read(r, c) = [r EXCEPT !.at = "unit", !.power = Power(c)]
         /\ r.at = "unit" /\ c = "i" =>
              Read(r, c) = Checked([r EXCEPT !.at = "over", !.n = r.n * Kibi ^ r.power])
         /\ ~(\/ r.at = "first" /\ c \in DOMAIN DigitOf
              \/ r.at = "digits" /\ c \in DOMAIN DigitOf
              \/ r.at = "digits" /\ c = "_"
              \/ r.at = "digits" /\ IsUnit(c)
              \/ r.at = "unit" /\ c = "i") => Read(r, c) = Bad(r)
<1>1. CASE r.at = "first" /\ c \in DOMAIN DigitOf
  BY <1>1 DEF Read
<1>2. CASE r.at = "digits" /\ c \in DOMAIN DigitOf
  <2>1. r.at # "first" /\ r.at # "unit" /\ c # "_" /\ ~IsUnit(c)
    BY <1>2, NumberAssumption DEF IsUnit
  <2>2. QED
    BY <1>2, <2>1, Zenon DEF Read
<1>3. CASE r.at = "digits" /\ c \notin DOMAIN DigitOf /\ c = "_"
  <2>1. r.at # "first" /\ r.at # "unit" /\ ~IsUnit(c)
    BY <1>3 DEF IsUnit
  <2>2. QED
    BY <1>3, <2>1, Zenon DEF Read
<1>4. CASE r.at = "digits" /\ c \notin DOMAIN DigitOf /\ c # "_" /\ IsUnit(c)
  BY <1>4 DEF Read, Reading
<1>5. CASE r.at = "unit" /\ c = "i"
  BY <1>5 DEF Read, Reading
<1>6. CASE /\ ~(r.at = "first" /\ c \in DOMAIN DigitOf)
           /\ ~(r.at = "digits" /\ c \in DOMAIN DigitOf)
           /\ ~(r.at = "digits" /\ c = "_")
           /\ ~(r.at = "digits" /\ IsUnit(c))
           /\ ~(r.at = "unit" /\ c = "i")
  BY <1>6 DEF Read, Reading
<1>7. QED
  BY <1>1, <1>2, <1>3, <1>4, <1>5, <1>6

LEMMA ReadInRange ==
  ASSUME NEW r, InRange(r), NEW c
  PROVE  InRange(Read(r, c))
<1>1. r \in Reading /\ InRange(Bad(r))
  BY DEF InRange, Reading, Bad
<1>2. CASE r.at = "first" /\ c \in DOMAIN DigitOf
  <2>1. Read(r, c) = [r EXCEPT !.at = "digits", !.n = DigitOf[c]]
    BY <1>1, <1>2, ReadIs
  <2>2. DigitOf[c] \in 0..9 /\ MaxNumber \in Nat /\ 9 <= MaxNumber
    BY <1>2, NumberAssumption
  <2>3. DigitOf[c] \in Nat /\ DigitOf[c] <= MaxNumber
    BY <2>2
  <2>4. QED
    BY <1>1, <2>1, <2>3 DEF InRange, Reading
<1>3. CASE r.at = "digits" /\ c \in DOMAIN DigitOf
  <2>1. Read(r, c) = Checked([r EXCEPT !.n = r.n * 10 + DigitOf[c]])
    BY <1>1, <1>3, ReadIs
  <2>2. DigitOf[c] \in 0..9
    BY <1>3, NumberAssumption
  <2>3. [r EXCEPT !.n = r.n * 10 + DigitOf[c]] \in Reading
    BY <1>1, <2>2 DEF Reading
  <2>4. QED
    BY <2>1, <2>3, CheckedInRange
<1>4. CASE r.at = "digits" /\ c = "_"
  <2>1. Read(r, c) = r
    BY <1>1, <1>4, ReadIs
  <2>2. QED
    BY <2>1
<1>5. CASE r.at = "digits" /\ IsUnit(c)
  <2>1. Read(r, c) = [r EXCEPT !.at = "unit", !.power = Power(c)]
    BY <1>1, <1>5, ReadIs
  <2>2. Power(c) \in 0..4
    BY <1>5, PowerIs
  <2>3. QED
    BY <1>1, <1>5, <2>1, <2>2 DEF InRange, Reading
<1>6. CASE r.at = "unit" /\ c = "i"
  <2>1. Read(r, c) = Checked([r EXCEPT !.at = "over", !.n = r.n * Kibi ^ r.power])
    BY <1>1, <1>6, ReadIs
  <2>2. Kibi ^ r.power \in Nat /\ r.n \in Nat
    BY <1>1, PowerAssumption DEF Reading
  <2>3. r.n * Kibi ^ r.power \in Nat
    BY <2>2, TimesIs
  <2>4. [r EXCEPT !.at = "over", !.n = r.n * Kibi ^ r.power] \in Reading
    BY <1>1, <2>3 DEF Reading
  <2>5. QED
    BY <2>1, <2>4, CheckedInRange
<1>7. CASE ~(\/ r.at = "first" /\ c \in DOMAIN DigitOf
             \/ r.at = "digits" /\ c \in DOMAIN DigitOf
             \/ r.at = "digits" /\ c = "_"
             \/ r.at = "digits" /\ IsUnit(c)
             \/ r.at = "unit" /\ c = "i")
  BY <1>1, <1>7, ReadIs
<1>8. QED
  BY <1>2, <1>3, <1>4, <1>5, <1>6, <1>7

LEMMA NumberInRange ==
  ASSUME InRange(num)
  PROVE  Number \in 0..MaxNumber \cup {None}
<1> DEFINE u == [num EXCEPT !.n = num.n * Kilo ^ num.power]
<1>1. num \in Reading /\ MaxNumber \in Nat
  BY NumberAssumption DEF InRange
<1>2. InRange(Checked(u))
  <2>1. Kilo ^ num.power \in Nat /\ num.n \in Nat
    BY <1>1, PowerAssumption DEF Reading
  <2>2. num.n * Kilo ^ num.power \in Nat
    BY <2>1, TimesIs
  <2>3. u \in Reading
    BY <1>1, <2>2 DEF Reading
  <2>4. QED
    BY <2>3, CheckedInRange
<1>3. PICK r : /\ InRange(r)
               /\ Number = IF r.at \in {"first", "bad"} THEN None ELSE r.n
  <2>1. CASE num.at = "unit"
    BY <1>2, <2>1 DEF Number
  <2>2. CASE num.at # "unit"
    BY <2>2 DEF Number
  <2>3. QED
    BY <2>1, <2>2
<1>4. QED
  BY <1>1, <1>3 DEF InRange, Reading

-----------------------------------------------------------------------------

(* Batches of b cover n points, and each of them has a first one.          *)
LEMMA DivCeil ==
  ASSUME NEW n \in Nat, NEW b \in Nat \ {0}, NEW q, q = (n + b - 1) \div b
  PROVE  /\ q \in Nat
         /\ n <= q * b
         /\ \A k \in Nat : k < q => k * b < n
<1>1. q \in Nat
  OBVIOUS
<1>2. n <= q * b
  OBVIOUS
<1>3. ASSUME NEW k \in Nat, k < q
      PROVE  k * b < n
  BY <1>3
<1>4. QED
  BY <1>1, <1>2, <1>3

Ids(n) == [i \in 1..n |-> i - 1]

LEMMA IdsIs ==
  ASSUME NEW n \in Nat
  PROVE  Ids(n) \in Seq(Nat) /\ Len(Ids(n)) = n
BY DEF Ids

(* The ids of a batch follow those of the batches before.                  *)
LEMMA IdsFollow ==
  ASSUME NEW m \in Nat, NEW n \in Nat, m <= n
  PROVE  Ids(m) \o [i \in 1..(n - m) |-> m + i - 1] = Ids(n)
<1> DEFINE t == [i \in 1..(n - m) |-> m + i - 1]
<1>1. t \in Seq(Nat) /\ Len(t) = n - m
  OBVIOUS
<1>2. Ids(m) \in Seq(Nat) /\ Len(Ids(m)) = m /\ Ids(n) \in Seq(Nat) /\ Len(Ids(n)) = n
  BY IdsIs
<1> HIDE DEF t
<1>3. /\ Ids(m) \o t \in Seq(Nat) /\ Len(Ids(m) \o t) = m + (n - m)
      /\ \A i \in 1..(m + (n - m)) :
           (Ids(m) \o t)[i] = IF i <= m THEN Ids(m)[i] ELSE t[i - m]
  BY <1>1, <1>2, ConcatProperties
<1>4. m + (n - m) = n
  OBVIOUS
<1>5. ASSUME NEW i \in 1..n
      PROVE  (Ids(m) \o t)[i] = Ids(n)[i]
  <2>1. CASE i <= m
    BY <1>3, <1>4, <2>1 DEF Ids
  <2>2. CASE i > m
    <3>1. i - m \in 1..(n - m)
      BY <2>2
    <3>2. (Ids(m) \o t)[i] = t[i - m]
      BY <1>3, <1>4, <2>2
    <3>3. QED
      BY <2>2, <3>1, <3>2 DEF Ids, t
  <2>3. i <= m \/ i > m
    BY <1>5
  <2>4. QED
    BY <2>1, <2>2, <2>3, Zenon
<1>6. Ids(m) \o t = Ids(n)
  BY <1>2, <1>3, <1>4, <1>5, SeqEqual
<1>7. QED
  BY <1>6 DEF t

-----------------------------------------------------------------------------

(* What smolbench has of the points: nothing until the batches begin, then *)
(* those of the batches so far, and all of them in the end.                *)
Early == {"typed", "usage", "begin", "delete", "create", "upsert"}

Sent == Smaller(Start(batch), args.num_points)

Counts ==
  /\ batch \in Nat /\ got \in Nat /\ asked \subseteq Int
  /\ pc \in Early => batch = 0 /\ acked = <<>> /\ asked = {} /\ got = 0
  /\ pc = "batches" =>
       /\ args.batch_size > 0 /\ batch <= NumBatches
       /\ asked = {} /\ got = 0 /\ ~args.skip_upsert
       /\ acked = Ids(Sent)
  /\ pc = "queries" => asked = {} /\ got = 0
  /\ pc \in {"queries", "query"} /\ ~args.skip_upsert =>
       acked = Ids(args.num_points)
  /\ pc = "query" => asked \subseteq RandomId /\ got <= NumQueries

LoadInv == TypeOK /\ WritesAfresh /\ PanicsOnlyAtLimits /\ Counts

Place == {"typed", "usage", "begin", "delete", "create", "upsert",
          "batches", "queries", "query", "ok", "error", "panic"}

Held == {"none", "old", "mine", "other"}

LEMMA NoneIs == None \notin Nat /\ None \notin Argument
<1>1. None \notin Nat \cup Argument
  BY NumberAssumption
<1>2. QED
  BY <1>1

LEMMA ArgumentIs ==
  ASSUME NEW a \in Argument
  PROVE  a.num_points \in Nat /\ a.batch_size \in Nat /\ a.p9 \in Nat
<1>1. BatchSize \subseteq Nat /\ P9 \subseteq Nat /\ MaxPoints \in Nat
  BY NumberAssumption
<1>2. a.num_points \in 0..MaxPoints /\ a.batch_size \in BatchSize /\ a.p9 \in P9
  BY DEF Argument
<1>3. a.num_points \in Nat
  BY <1>1, <1>2
<1>4. a.batch_size \in Nat /\ a.p9 \in Nat
  BY <1>1, <1>2, Zenon
<1>5. QED
  BY <1>3, <1>4

LEMMA ArgsTyped ==
  ASSUME TypeOK, pc \notin {"typed", "usage"}
  PROVE  /\ args \in Argument /\ args # None
         /\ args.num_points \in Nat /\ args.batch_size \in Nat /\ args.p9 \in Nat
<1>1. args \in Argument /\ args # None
  BY DEF TypeOK
<1>2. QED
  BY <1>1, ArgumentIs

LEMMA BatchesIs ==
  ASSUME args.num_points \in Nat, args.batch_size \in Nat, args.batch_size > 0
  PROVE  /\ NumBatches \in Nat
         /\ args.num_points <= Start(NumBatches)
         /\ \A k \in Nat : k < NumBatches => Start(k) < args.num_points
<1>1. args.batch_size \in Nat \ {0}
  OBVIOUS
<1>2. NumBatches = (args.num_points + args.batch_size - 1) \div args.batch_size
  BY DEF NumBatches
<1>3. QED
  BY <1>1, <1>2, DivCeil DEF Start

(* What the arguments can ask too much of, as PanicsOnlyAtLimits says.     *)
AtLimit ==
  \/ args.num_points = 0
  \/ /\ ~args.skip_upsert
     /\ \/ args.batch_size = 0
        \/ NumBatches > MaxResults
        \/ Smaller(args.num_points, args.batch_size) > MaxBatch

(* What depends on the arguments only is as it was.                        *)
LEMMA SameArgs ==
  ASSUME args' = args
  PROVE  /\ NumBatches' = NumBatches /\ NumQueries' = NumQueries
         /\ RandomId' = RandomId /\ AtLimit' = AtLimit
         /\ batch' = batch => Sent' = Sent
BY DEF NumBatches, NumQueries, RandomId, AtLimit, Sent, Start

(* A step to another place keeps what was read, counted and collected.     *)
LEMMA GotoCounts ==
  ASSUME Counts, NEW p, Goto(p),
         p \in Early => pc \in Early,
         p = "batches" =>
           args.batch_size > 0 /\ batch <= NumBatches /\ asked = {} /\ got = 0
             /\ ~args.skip_upsert /\ acked = Ids(Sent),
         p = "queries" => asked = {} /\ got = 0,
         p \in {"queries", "query"} /\ ~args.skip_upsert =>
           acked = Ids(args.num_points),
         p = "query" => asked \subseteq RandomId /\ got <= NumQueries
  PROVE  Counts'
<1>1. /\ pc' = p /\ args' = args /\ batch' = batch /\ acked' = acked
      /\ asked' = asked /\ got' = got
  BY DEF Goto
<1>2. /\ NumBatches' = NumBatches /\ NumQueries' = NumQueries
      /\ RandomId' = RandomId /\ Sent' = Sent
  BY <1>1, SameArgs
<1>3. QED
  BY <1>1, <1>2 DEF Counts

LEMMA GotoInv ==
  ASSUME LoadInv, args # None, NEW p \in Place \ {"typed", "usage"}, Goto(p),
         held' \in Held,
         p \in {"upsert", "batches"} =>
           held' # "old" \/ args.skip_create \/ args.skip_if_exists,
         p = "panic" => AtLimit,
         Counts'
  PROVE  LoadInv'
<1>1. /\ pc' = p /\ args' = args /\ batch' = batch /\ acked' = acked
      /\ got' = got /\ text' = text /\ num' = num
  BY DEF Goto
<1>2. NumBatches' = NumBatches /\ NumQueries' = NumQueries /\ AtLimit' = AtLimit
  BY <1>1, SameArgs
<1>3. TypeOK'
  BY <1>1, <1>2 DEF LoadInv, TypeOK, Place, Held
<1>4. WritesAfresh'
  BY <1>1 DEF WritesAfresh
<1>5. PanicsOnlyAtLimits'
  <2>1. pc' = "panic" => AtLimit'
    BY <1>1, <1>2
  <2>2. QED
    BY <2>1 DEF PanicsOnlyAtLimits, AtLimit
<1>6. QED
  BY <1>3, <1>4, <1>5 DEF LoadInv

LEMMA InitInv == Init => LoadInv
<1> SUFFICES ASSUME Init
             PROVE  LoadInv
  OBVIOUS
<1>1. TypeOK
  <2>1. MaxNumber \in Nat
    BY NumberAssumption
  <2>2. QED
    BY <2>1 DEF Init, TypeOK, Begun
<1>2. WritesAfresh /\ PanicsOnlyAtLimits
  BY DEF Init, WritesAfresh, PanicsOnlyAtLimits
<1>3. Counts
  BY DEF Init, Counts, Early
<1>4. QED
  BY <1>1, <1>2, <1>3 DEF LoadInv

LEMMA ReadCharacterInv ==
  ASSUME LoadInv, ReadCharacter
  PROVE  LoadInv'
<1>1. /\ pc = "typed" /\ pc' = pc /\ text' = text /\ args' = args /\ held' = held
      /\ batch' = batch /\ acked' = acked /\ asked' = asked /\ got' = got
  BY DEF ReadCharacter
<1>2. InRange(num)
  BY DEF LoadInv, TypeOK, InRange, Reading
<1>3. PICK r : InRange(r) /\ num' = [r EXCEPT !.read = r.read + 1]
  <2>1. InRange(Read(num, text[num.read + 1]))
    BY <1>2, ReadInRange
  <2>2. num' = [Read(num, text[num.read + 1]) EXCEPT !.read = @ + 1]
    BY DEF ReadCharacter
  <2>3. QED
    BY <2>1, <2>2, Zenon
<1>4. num'.at = r.at /\ num'.n = r.n /\ num' \in Reading
  BY <1>2, <1>3 DEF InRange, Reading
<1>5. TypeOK'
  BY <1>1, <1>3, <1>4, SameArgs DEF LoadInv, TypeOK, InRange, Reading
<1>6. QED
  BY <1>1, <1>5, SameArgs DEF LoadInv, WritesAfresh, PanicsOnlyAtLimits, Counts

LEMMA ParseArgsInv ==
  ASSUME LoadInv, ParseArgs
  PROVE  LoadInv'
<1>1. /\ pc = "typed" /\ text' = <<>> /\ num' = Begun /\ held' = held
      /\ batch' = batch /\ acked' = acked /\ asked' = asked /\ got' = got
  BY DEF ParseArgs
<1>2. batch = 0 /\ acked = <<>> /\ asked = {} /\ got = 0 /\ args = None
  BY <1>1 DEF LoadInv, Counts, Early, TypeOK
<1>3. \/ pc' = "usage" /\ args' = None
      \/ pc' = "begin" /\ args' \in Argument
  <2>1. CASE Number = None /\ pc' = "usage" /\ UNCHANGED args
    BY <1>2, <2>1
  <2>2. CASE /\ Number # None /\ Number <= MaxPoints
             /\ pc' = "begin"
             /\ \E b \in BatchSize, p \in P9, f \in [1..4 -> BOOLEAN] :
                  args' = [num_points |-> Number, batch_size |-> b, p9 |-> p,
                           skip_create |-> f[1], skip_if_exists |-> f[2],
                           skip_upsert |-> f[3], skip_query |-> f[4]]
    <3>1. InRange(num)
      BY DEF LoadInv, TypeOK, InRange, Reading
    <3>2. Number \in 0..MaxPoints
      <4>1. MaxNumber \in Nat /\ MaxPoints \in Nat
        BY NumberAssumption
      <4>2. QED
        BY <2>2, <3>1, <4>1, NumberInRange
    <3>3. QED
      BY <2>2, <3>2 DEF Argument
  <2>3. QED
    BY <2>1, <2>2 DEF ParseArgs
<1>4. None \notin Argument /\ Begun \in Reading /\ Begun.n = 0 /\ MaxNumber \in Nat
  <2>1. MaxNumber \in Nat
    BY NumberAssumption
  <2>2. QED
    BY <2>1, NoneIs DEF Begun, Reading
<1>5. TypeOK'
  BY <1>1, <1>2, <1>3, <1>4 DEF LoadInv, TypeOK, Reading
<1>6. QED
  BY <1>1, <1>2, <1>3, <1>5 DEF LoadInv, WritesAfresh, PanicsOnlyAtLimits, Counts, Early

LEMMA AskExistsInv ==
  ASSUME LoadInv, AskExists
  PROVE  LoadInv'
<1>1. pc = "begin" /\ held' = held /\ held \in Held /\ args # None
  BY ArgsTyped DEF AskExists, LoadInv, TypeOK, Held
<1>2. PICK p \in {"upsert", "create", "delete"} :
        Goto(p) /\ (p = "upsert" => args.skip_create \/ args.skip_if_exists)
  BY DEF AskExists
<1>3. Counts'
  BY <1>1, <1>2, GotoCounts DEF LoadInv, Early
<1>4. QED
  BY <1>1, <1>2, <1>3, GotoInv DEF Place

LEMMA FailsInv ==
  ASSUME LoadInv, args # None, NEW p, Fails(p)
  PROVE  LoadInv'
<1>1. Goto("error") /\ held' \in Held
  BY DEF Fails, LoadInv, TypeOK, Held
<1>2. Counts'
  BY <1>1, GotoCounts DEF LoadInv, Early
<1>3. QED
  BY <1>1, <1>2, GotoInv DEF Place

LEMMA DeleteCollectionInv ==
  ASSUME LoadInv, DeleteCollection
  PROVE  LoadInv'
<1>1. pc = "delete" /\ args # None
  BY ArgsTyped DEF DeleteCollection, Fails, LoadInv
<1>2. CASE held' = "none" /\ Goto("create")
  <2>1. Counts'
    BY <1>1, <1>2, GotoCounts DEF LoadInv, Early
  <2>2. QED
    BY <1>1, <1>2, <2>1, GotoInv DEF Place, Held
<1>3. CASE Fails("delete")
  BY <1>1, <1>3, FailsInv
<1>4. QED
  BY <1>2, <1>3 DEF DeleteCollection

LEMMA CreateCollectionInv ==
  ASSUME LoadInv, CreateCollection
  PROVE  LoadInv'
<1>1. pc = "create" /\ args # None
  BY ArgsTyped DEF CreateCollection, Fails, LoadInv
<1>2. CASE held' = "mine" /\ Goto("upsert")
  <2>1. Counts'
    BY <1>1, <1>2, GotoCounts DEF LoadInv, Early
  <2>2. QED
    BY <1>1, <1>2, <2>1, GotoInv DEF Place, Held
<1>3. CASE Fails("create")
  BY <1>1, <1>3, FailsInv
<1>4. QED
  BY <1>2, <1>3 DEF CreateCollection

LEMMA BeginUpsertInv ==
  ASSUME LoadInv, BeginUpsert
  PROVE  LoadInv'
<1>1. /\ pc = "upsert" /\ held' = held /\ held \in Held /\ args # None
      /\ args.num_points \in Nat /\ args.batch_size \in Nat
  BY ArgsTyped DEF BeginUpsert, LoadInv, TypeOK, Held
<1>2. batch = 0 /\ acked = <<>> /\ asked = {} /\ got = 0
  BY <1>1 DEF LoadInv, Counts, Early
<1>3. CASE args.skip_upsert /\ Goto("queries")
  <2>1. Counts'
    BY <1>1, <1>2, <1>3, GotoCounts DEF LoadInv, Early
  <2>2. QED
    BY <1>1, <1>3, <2>1, GotoInv DEF Place
<1>4. CASE ~args.skip_upsert /\ CannotBegin /\ Goto("panic")
  <2>1. Counts'
    BY <1>1, <1>4, GotoCounts DEF LoadInv, Early
  <2>2. AtLimit
    BY <1>4 DEF CannotBegin, AtLimit
  <2>3. QED
    BY <1>1, <1>4, <2>1, <2>2, GotoInv DEF Place
<1>5. CASE ~args.skip_upsert /\ ~CannotBegin /\ Goto("batches")
  <2>1. args.batch_size > 0 /\ NumBatches \in Nat
    <3>1. args.batch_size > 0
      BY <1>1, <1>5 DEF CannotBegin
    <3>2. QED
      BY <1>1, <3>1, BatchesIs
  <2>2. Sent = 0
    BY <1>1, <1>2 DEF Sent, Start, Smaller
  <2>3. acked = Ids(Sent)
    BY <1>2, <2>2 DEF Ids
  <2>4. Counts'
    BY <1>2, <1>5, <2>1, <2>3, GotoCounts DEF LoadInv, Early
  <2>5. held' # "old" \/ args.skip_create \/ args.skip_if_exists
    BY <1>1 DEF LoadInv, WritesAfresh
  <2>6. QED
    BY <1>1, <1>5, <2>4, <2>5, GotoInv DEF Place
<1>6. QED
  BY <1>1, <1>3, <1>4, <1>5 DEF BeginUpsert

(* A batch that is acknowledged is the next one.                           *)
LEMMA BatchIs ==
  ASSUME args.num_points \in Nat, args.batch_size \in Nat, args.batch_size > 0,
         batch \in Nat, batch < NumBatches, acked = Ids(Sent)
  PROVE  /\ Start(batch) \in Nat /\ Start(batch) <= End(batch)
         /\ End(batch) \in 0..args.num_points
         /\ End(batch) = Smaller(Start(batch + 1), args.num_points)
         /\ Size(batch) <= Smaller(args.num_points, args.batch_size)
         /\ acked \o IdsOf(batch) = Ids(End(batch))
<1>1. Start(batch) \in Nat /\ Start(batch) < args.num_points
  BY BatchesIs, TimesIs DEF Start
<1>2. Start(batch + 1) = Start(batch) + args.batch_size
  <2>1. (batch + 1) * args.batch_size = batch * args.batch_size + args.batch_size
    BY TimesNext
  <2>2. QED
    BY <2>1 DEF Start
<1>3. End(batch) = IF Start(batch) + args.batch_size < args.num_points
                   THEN Start(batch) + args.batch_size ELSE args.num_points
  BY DEF End, Smaller
<1>4. Start(batch) <= End(batch) /\ End(batch) \in 0..args.num_points
  BY <1>1, <1>3
<1>5. End(batch) = Smaller(Start(batch + 1), args.num_points)
  BY <1>2, <1>3 DEF Smaller
<1>6. Sent = Start(batch)
  BY <1>1 DEF Sent, Smaller
<1>7. acked \o IdsOf(batch) = Ids(End(batch))
  <2>1. PICK m, n : m = Start(batch) /\ n = End(batch)
    OBVIOUS
  <2>2. m \in Nat /\ n \in Nat /\ m <= n
    BY <1>1, <1>4, <2>1
  <2>3. Ids(m) \o [i \in 1..(n - m) |-> m + i - 1] = Ids(n)
    BY <2>2, IdsFollow, Zenon
  <2>4. QED
    BY <1>6, <2>1, <2>3 DEF IdsOf, Size
<1>8. Size(batch) <= Smaller(args.num_points, args.batch_size)
  BY <1>1, <1>3 DEF Size, Smaller
<1>9. QED
  BY <1>1, <1>4, <1>5, <1>7, <1>8

LEMMA UpsertBatchInv ==
  ASSUME LoadInv, UpsertBatch
  PROVE  LoadInv'
<1>1. /\ pc = "batches" /\ batch < NumBatches /\ args # None
      /\ args.num_points \in Nat /\ args.batch_size \in Nat
  BY ArgsTyped DEF UpsertBatch, LoadInv
<1>2. /\ args.batch_size > 0 /\ batch \in Nat /\ acked = Ids(Sent)
      /\ asked = {} /\ got = 0 /\ ~args.skip_upsert
  BY <1>1 DEF LoadInv, Counts
<1>3. CASE Fails("batches")
  BY <1>1, <1>3, FailsInv
<1>4. CASE /\ batch' = batch + 1
           /\ acked' = acked \o IdsOf(batch)
           /\ UNCHANGED <<text, num, args, pc, held, asked, got>>
  <2>1. NumBatches' = NumBatches /\ NumQueries' = NumQueries
    BY <1>4, SameArgs
  <2>2. End(batch) \in 0..args.num_points /\ acked' = Ids(End(batch))
    BY <1>1, <1>2, <1>4, BatchIs
  <2>3. Sent' = End(batch)
    <3>1. End(batch) = Smaller(Start(batch + 1), args.num_points)
      BY <1>1, <1>2, BatchIs
    <3>2. QED
      BY <1>4, <3>1 DEF Sent, Start
  <2>4. NumBatches \in Nat
    BY <1>1, <1>2, BatchesIs
  <2>5. \A i \in DOMAIN acked' : acked'[i] \in 0..args.num_points - 1
    BY <1>1, <2>2 DEF Ids
  <2>6. batch' \in Nat /\ batch' <= NumBatches'
    BY <1>1, <1>2, <1>4, <2>1, <2>4
  <2>7. TypeOK'
    BY <1>4, <2>1, <2>5, <2>6 DEF LoadInv, TypeOK
  <2>8. acked' = Ids(Sent)'
    BY <2>2, <2>3
  <2>9. Counts'
    BY <1>1, <1>2, <1>4, <2>6, <2>8 DEF LoadInv, Counts, Early
  <2>10. QED
    BY <1>1, <1>4, <2>7, <2>9 DEF LoadInv, WritesAfresh, PanicsOnlyAtLimits
<1>5. CASE Size(batch) > MaxBatch /\ Goto("panic") /\ UNCHANGED held
  <2>1. AtLimit
    <3>1. /\ Size(batch) <= Smaller(args.num_points, args.batch_size)
          /\ Size(batch) \in Int
      BY <1>1, <1>2, BatchIs DEF Size
    <3>2. MaxBatch \in Nat /\ Smaller(args.num_points, args.batch_size) \in Nat
      BY <1>1, NumberAssumption DEF Smaller
    <3>3. Smaller(args.num_points, args.batch_size) > MaxBatch
      BY <1>5, <3>1, <3>2
    <3>4. QED
      BY <1>2, <3>3 DEF AtLimit
  <2>2. held' \in Held
    BY <1>5 DEF LoadInv, TypeOK, Held
  <2>3. Counts'
    BY <1>5, GotoCounts DEF LoadInv, Early
  <2>4. QED
    BY <1>1, <1>5, <2>1, <2>2, <2>3, GotoInv DEF Place
<1>6. QED
  BY <1>3, <1>4, <1>5 DEF UpsertBatch

(* Every percentile of a latency or more is one of them.                   *)
LEMMA IndicesAreBelow ==
  ASSUME NEW len \in Nat \ {0}, NEW i \in Indices(len), args.p9 \in Nat
  PROVE  i \in Int /\ i < len
<1>1. CASE i = len \div 2 \/ i = (len * 95) \div 100
  BY <1>1
<1>2. CASE \E d \in 2..args.p9 : i = Smaller(Nines(len, d), len - 1)
  <2>1. PICK d \in 2..args.p9 : i = Smaller(Nines(len, d), len - 1)
    BY <1>2
  <2>2. Precision \in Nat
    BY NumberAssumption
  <2>3. Nines(len, d) \in Int
    <3>1. CASE d >= Precision
      BY <3>1 DEF Nines
    <3>2. CASE d < Precision
      <4>1. 10 ^ d \in Nat \ {0}
        <5>1. d \in 0..Precision
          BY <2>2, <3>2
        <5>2. QED
          BY <5>1, PowerAssumption, Zenon
      <4>2. Nines(len, d) = (len * (10 ^ d - 1)) \div 10 ^ d
        BY <2>2, <3>2 DEF Nines
      <4>3. PICK t : t = 10 ^ d
        OBVIOUS
      <4>4. len * (t - 1) \in Int
        BY <4>1, <4>3, TimesIs
      <4>5. (len * (t - 1)) \div t \in Int
        BY <4>1, <4>3, <4>4
      <4>6. QED
        BY <4>2, <4>3, <4>5
    <3>3. QED
      BY <2>2, <3>1, <3>2
  <2>4. QED
    BY <2>1, <2>3 DEF Smaller
<1>3. QED
  BY <1>1, <1>2 DEF Indices

LEMMA LogLatenciesIs ==
  ASSUME NEW len \in Nat, NEW next, args.p9 \in Nat
  PROVE  LogLatencies(len, next) = IF len = 0 THEN "panic" ELSE next
<1>1. \A i \in Indices(len) : len # 0 => ~(i >= len)
  <2> SUFFICES ASSUME NEW i \in Indices(len), len # 0
               PROVE  ~(i >= len)
    OBVIOUS
  <2>1. i \in Int /\ i < len
    BY IndicesAreBelow
  <2>2. QED
    BY <2>1
<1>2. QED
  BY <1>1 DEF LogLatencies

LEMMA LogUpsertsInv ==
  ASSUME LoadInv, LogUpserts
  PROVE  LoadInv'
<1>1. /\ pc = "batches" /\ batch = NumBatches /\ args # None
      /\ args.num_points \in Nat /\ args.batch_size \in Nat /\ args.p9 \in Nat
  BY ArgsTyped DEF LogUpserts, LoadInv
<1>2. /\ args.batch_size > 0 /\ batch \in Nat /\ acked = Ids(Sent)
      /\ asked = {} /\ got = 0 /\ ~args.skip_upsert
  BY <1>1 DEF LoadInv, Counts
<1>3. args.num_points <= Start(batch)
  BY <1>1, <1>2, BatchesIs
<1>4. Start(batch) \in Nat
  BY <1>1, <1>2, TimesIs DEF Start
<1>5. acked = Ids(args.num_points)
  BY <1>1, <1>2, <1>3, <1>4 DEF Sent, Smaller
<1>6. PICK p : /\ Goto(p) /\ p = IF batch = 0 THEN "panic" ELSE "queries"
  <2>1. Goto(LogLatencies(batch, "queries"))
    BY DEF LogUpserts
  <2>2. LogLatencies(batch, "queries") = IF batch = 0 THEN "panic" ELSE "queries"
    BY <1>1, <1>2, LogLatenciesIs
  <2>3. QED
    BY <2>1, <2>2, Zenon
<1>7. batch = 0 => AtLimit
  BY <1>1, <1>3 DEF Start, AtLimit
<1>8. Counts'
  BY <1>2, <1>5, <1>6, GotoCounts DEF LoadInv, Early
<1>9. held' \in Held
  BY DEF LogUpserts, LoadInv, TypeOK, Held
<1>10. QED
  BY <1>1, <1>6, <1>7, <1>8, <1>9, GotoInv DEF Place

LEMMA BeginQueriesInv ==
  ASSUME LoadInv, BeginQueries
  PROVE  LoadInv'
<1>1. /\ pc = "queries" /\ args # None /\ held' \in Held
      /\ args.num_points \in Nat /\ MaxQueries \in Nat
  BY ArgsTyped, NumberAssumption DEF BeginQueries, LoadInv, TypeOK, Held
<1>2. asked = {} /\ got = 0 /\ 0 <= NumQueries
  BY <1>1 DEF LoadInv, Counts, NumQueries, Smaller
<1>3. PICK p \in {"ok", "query"} : Goto(p)
  BY DEF BeginQueries
<1>4. ~args.skip_upsert => acked = Ids(args.num_points)
  BY <1>1 DEF LoadInv, Counts
<1>5. Counts'
  BY <1>2, <1>3, <1>4, GotoCounts DEF LoadInv, Early
<1>6. QED
  BY <1>1, <1>3, <1>5, GotoInv DEF Place

LEMMA RetrievePointInv ==
  ASSUME LoadInv, RetrievePoint
  PROVE  LoadInv'
<1>1. /\ pc = "query" /\ got < NumQueries /\ args # None
      /\ args.num_points \in Nat /\ MaxQueries \in Nat
  BY ArgsTyped, NumberAssumption DEF RetrievePoint, LoadInv
<1>2. CASE Fails("query")
  BY <1>1, <1>2, FailsInv
<1>3. CASE /\ \E id \in RandomId : asked' = asked \cup {id}
           /\ got' = got + 1
           /\ UNCHANGED <<text, num, args, pc, held, batch, acked>>
  <2>1. NumBatches' = NumBatches /\ NumQueries' = NumQueries /\ RandomId' = RandomId
    BY <1>3, SameArgs
  <2>2. NumQueries \in Int /\ got \in Nat
    BY <1>1 DEF LoadInv, Counts, NumQueries, Smaller
  <2>3. got' \in Nat /\ got' <= NumQueries'
    BY <1>1, <1>3, <2>1, <2>2
  <2>4. asked' \subseteq RandomId' /\ asked' \subseteq Int
    <3>1. RandomId \subseteq Int
      BY <1>1 DEF RandomId
    <3>2. QED
      BY <1>1, <1>3, <2>1, <3>1 DEF LoadInv, Counts
  <2>5. TypeOK'
    BY <1>3, <2>1, <2>3 DEF LoadInv, TypeOK
  <2>6. Counts'
    BY <1>1, <1>3, <2>3, <2>4 DEF LoadInv, Counts, Early
  <2>7. QED
    BY <1>1, <1>3, <2>5, <2>6 DEF LoadInv, WritesAfresh, PanicsOnlyAtLimits
<1>4. QED
  BY <1>2, <1>3 DEF RetrievePoint

LEMMA LogQueriesInv ==
  ASSUME LoadInv, LogQueries
  PROVE  LoadInv'
<1>1. /\ pc = "query" /\ got = NumQueries /\ args # None /\ held' \in Held
      /\ args.num_points \in Nat /\ args.p9 \in Nat /\ got \in Nat
  BY ArgsTyped DEF LogQueries, LoadInv, TypeOK, Held, Counts
<1>2. PICK p : Goto(p) /\ p = IF got = 0 THEN "panic" ELSE "ok"
  <2>1. Goto(LogLatencies(got, "ok"))
    BY DEF LogQueries
  <2>2. LogLatencies(got, "ok") = IF got = 0 THEN "panic" ELSE "ok"
    BY <1>1, LogLatenciesIs
  <2>3. QED
    BY <2>1, <2>2, Zenon
<1>3. got = 0 => AtLimit
  <2>1. MaxQueries \in Nat \ {0}
    BY NumberAssumption
  <2>2. QED
    BY <1>1, <2>1 DEF NumQueries, Smaller, AtLimit
<1>4. Counts'
  BY <1>2, GotoCounts DEF LoadInv, Early
<1>5. QED
  BY <1>1, <1>2, <1>3, <1>4, GotoInv DEF Place

LEMMA OtherClientInv ==
  ASSUME LoadInv, OtherClient
  PROVE  LoadInv'
<1>1. /\ text' = text /\ num' = num /\ args' = args /\ pc' = pc /\ batch' = batch
      /\ acked' = acked /\ asked' = asked /\ got' = got
      /\ held' \in {"other", "none"}
  BY DEF OtherClient
<1>2. /\ NumBatches' = NumBatches /\ NumQueries' = NumQueries
      /\ RandomId' = RandomId /\ Sent' = Sent
  BY <1>1, SameArgs
<1>3. TypeOK'
  BY <1>1, <1>2 DEF LoadInv, TypeOK
<1>4. Counts'
  BY <1>1, <1>2 DEF LoadInv, Counts
<1>5. WritesAfresh'
  BY <1>1 DEF LoadInv, WritesAfresh
<1>6. PanicsOnlyAtLimits'
  BY <1>1, <1>2 DEF LoadInv, PanicsOnlyAtLimits
<1>7. QED
  BY <1>3, <1>4, <1>5, <1>6 DEF LoadInv

LEMMA StutterInv ==
  ASSUME LoadInv, UNCHANGED vars
  PROVE  LoadInv'
<1>1. /\ text' = text /\ num' = num /\ args' = args /\ pc' = pc /\ batch' = batch
      /\ acked' = acked /\ asked' = asked /\ got' = got /\ held' = held
  BY DEF vars
<1>2. /\ NumBatches' = NumBatches /\ NumQueries' = NumQueries
      /\ RandomId' = RandomId /\ Sent' = Sent
  BY <1>1, SameArgs
<1>3. TypeOK'
  BY <1>1, <1>2 DEF LoadInv, TypeOK
<1>4. Counts'
  BY <1>1, <1>2 DEF LoadInv, Counts
<1>5. WritesAfresh'
  BY <1>1 DEF LoadInv, WritesAfresh
<1>6. PanicsOnlyAtLimits'
  BY <1>1, <1>2 DEF LoadInv, PanicsOnlyAtLimits
<1>7. QED
  BY <1>3, <1>4, <1>5, <1>6 DEF LoadInv

(* LoadInv is kept, whatever smolbench, the peer and other clients do.     *)
THEOREM LoadInvHolds == Spec => []LoadInv
<1>1. Init => LoadInv
  BY InitInv
<1>2. LoadInv /\ [Next]_vars => LoadInv'
  <2> SUFFICES ASSUME LoadInv, [Next]_vars
               PROVE  LoadInv'
    OBVIOUS
  <2>1. CASE ReadCharacter
    BY <2>1, ReadCharacterInv
  <2>2. CASE ParseArgs
    BY <2>2, ParseArgsInv
  <2>3. CASE AskExists
    BY <2>3, AskExistsInv
  <2>4. CASE DeleteCollection
    BY <2>4, DeleteCollectionInv
  <2>5. CASE CreateCollection
    BY <2>5, CreateCollectionInv
  <2>6. CASE BeginUpsert
    BY <2>6, BeginUpsertInv
  <2>7. CASE UpsertBatch
    BY <2>7, UpsertBatchInv
  <2>8. CASE LogUpserts
    BY <2>8, LogUpsertsInv
  <2>9. CASE BeginQueries
    BY <2>9, BeginQueriesInv
  <2>10. CASE RetrievePoint
    BY <2>10, RetrievePointInv
  <2>11. CASE LogQueries
    BY <2>11, LogQueriesInv
  <2>12. CASE OtherClient
    BY <2>12, OtherClientInv
  <2>13. CASE UNCHANGED vars
    BY <2>13, StutterInv
  <2>14. QED
    BY <2>1, <2>2, <2>3, <2>4, <2>5, <2>6, <2>7, <2>8, <2>9, <2>10, <2>11, <2>12,
       <2>13 DEF Next, Step
<1>3. QED
  BY <1>1, <1>2, PTL DEF Spec

(* Every variable has its type; a number that is read stays within a u64,  *)
(* and no id is sent that is not to be written.                            *)
THEOREM TypeOKHolds == Spec => []TypeOK
<1>1. LoadInv => TypeOK
  BY DEF LoadInv
<1>2. QED
  BY <1>1, LoadInvHolds, PTL

(* A run that creates its collection writes nothing into one that was      *)
(* there before, whichever answers are lost.                               *)
THEOREM WritesAfreshHolds == Spec => []WritesAfresh
<1>1. LoadInv => WritesAfresh
  BY DEF LoadInv
<1>2. QED
  BY <1>1, LoadInvHolds, PTL

(* Only runs without points, batches of size 0 and more batches or larger  *)
(* ones than a Vec can be made for make smolbench panic, whatever the      *)
(* number of points, the batch size, the nines and the limits of a Vec:    *)
(* each index of a percentile is below the number of latencies.            *)
THEOREM PanicsOnlyAtLimitsHolds == Spec => []PanicsOnlyAtLimits
<1>1. LoadInv => PanicsOnlyAtLimits
  BY DEF LoadInv
<1>2. QED
  BY <1>1, LoadInvHolds, PTL

(* When the last batch is acknowledged, each id was sent once, in order.   *)
THEOREM UpsertedOnceHolds == Spec => []UpsertedOnce
<1>1. ASSUME LoadInv
      PROVE  UpsertedOnce
  <2>1. CASE pc = "batches" /\ batch = NumBatches
    <3>1. /\ args.num_points \in Nat /\ args.batch_size \in Nat /\ batch \in Nat
          /\ args.batch_size > 0 /\ acked = Ids(Sent)
      BY <1>1, <2>1, ArgsTyped DEF LoadInv, Counts
    <3>2. args.num_points <= Start(batch) /\ Start(batch) \in Nat
      BY <2>1, <3>1, BatchesIs, TimesIs DEF Start
    <3>3. Sent = args.num_points
      BY <3>1, <3>2 DEF Sent, Smaller
    <3>4. QED
      BY <3>1, <3>3 DEF UpsertedOnce, Ids
  <2>2. CASE pc = "query" /\ ~args.skip_upsert
    BY <1>1, <2>2 DEF LoadInv, Counts, UpsertedOnce, Ids
  <2>3. QED
    BY <2>1, <2>2 DEF UpsertedOnce
<1>2. QED
  BY <1>1, LoadInvHolds, PTL

(* The random ids that are read are among those that were acknowledged.    *)
THEOREM AsksForAckedHolds == Spec => []AsksForAcked
<1>1. ASSUME LoadInv
      PROVE  AsksForAcked
  <2> SUFFICES ASSUME pc = "query", ~args.skip_upsert, NEW id \in asked
               PROVE  Contains(acked, id)
    BY DEF AsksForAcked
  <2>1. /\ args.num_points \in Nat /\ acked = Ids(args.num_points)
        /\ asked \subseteq RandomId
    BY <1>1, ArgsTyped DEF LoadInv, Counts
  <2>2. id \in 0..(args.num_points - 1)
    BY <2>1 DEF RandomId
  <2>3. id + 1 \in 1..Len(acked) /\ acked[id + 1] = id
    BY <2>1, <2>2, IdsIs DEF Ids
  <2>4. QED
    BY <2>3 DEF Contains
<1>2. QED
  BY <1>1, LoadInvHolds, PTL

(* Quotient and remainder: what makes a number is found again by dividing. *)
LEMMA DivMod ==
  ASSUME NEW x \in Nat, NEW q \in Nat \ {0}
  PROVE  x \div q \in Nat /\ x % q \in 0..(q - 1) /\ x = q * (x \div q) + (x % q)
OBVIOUS

LEMMA TimesLess ==
  ASSUME NEW q \in Nat \ {0}, NEW a \in Nat, NEW b \in Nat, a < b
  PROVE  q * a + q <= q * b
<1>1. PICK k \in Nat : b = a + 1 + k
  <2>1. b - a - 1 \in Nat /\ b = a + 1 + (b - a - 1)
    OBVIOUS
  <2>2. QED
    BY <2>1
<1>2. q * b = q * a + q + q * k
  BY <1>1
<1>3. q * k \in Nat /\ q * a \in Nat
  BY TimesIs
<1>4. QED
  BY <1>2, <1>3

LEMMA DivIs ==
  ASSUME NEW q \in Nat \ {0}, NEW a \in Nat, NEW r \in 0..(q - 1)
  PROVE  (q * a + r) \div q = a
<1> DEFINE x == q * a + r
<1>1. x \in Nat /\ q * a \in Nat
  BY TimesIs
<1> DEFINE b == x \div q
<1>2. b \in Nat /\ x % q \in 0..(q - 1) /\ x = q * b + (x % q)
  BY <1>1, DivMod
<1>3. q * b \in Nat
  BY <1>2, TimesIs
<1> DEFINE qb == q * b
<1> DEFINE qa == q * a
<1> DEFINE m == x % q
<1>4. qa + r = qb + m /\ qa \in Nat /\ qb \in Nat /\ m \in 0..(q - 1)
  BY <1>1, <1>2, <1>3
<1>5. a < b => qa + q <= qb
  BY <1>2, TimesLess
<1>6. b < a => qb + q <= qa
  BY <1>2, TimesLess
<1> HIDE DEF qa, qb, m, b
<1>7. a = b
  BY <1>2, <1>4, <1>5, <1>6
<1>8. QED
  BY <1>7 DEF b

(* One decimal place further left.                                         *)
LEMMA DivTens ==
  ASSUME NEW v \in Nat, NEW q \in Nat \ {0}
  PROVE  v \div q = 10 * (v \div (10 * q)) + ((v \div q) % 10)
<1> DEFINE a == v \div q
           b == a \div 10
           c == a % 10
           r == v % q
<1>1. a \in Nat /\ r \in 0..(q - 1) /\ v = q * a + r
  BY DivMod
<1>2. b \in Nat /\ c \in 0..9 /\ a = 10 * b + c
  BY <1>1
<1> HIDE DEF a, b, c, r
<1>3. v = (10 * q) * b + (q * c + r)
  BY <1>1, <1>2
<1>4. q * c + r \in 0..(10 * q - 1)
  BY <1>1, <1>2
<1>5. v \div (10 * q) = b
  <2>1. 10 * q \in Nat \ {0}
    OBVIOUS
  <2>2. QED
    BY <1>2, <1>3, <1>4, <2>1, DivIs
<1>6. QED
  BY <1>2, <1>5 DEF a, c

(* A digit is appended: each of the others is one place further left.      *)
LEMMA DivOneMore ==
  ASSUME NEW v \in Nat, NEW d \in 0..9, NEW q \in Nat \ {0}
  PROVE  (v * 10 + d) \div (10 * q) = v \div q
<1> DEFINE a == v \div q
           r == v % q
<1>1. a \in Nat /\ r \in 0..(q - 1) /\ v = q * a + r
  BY DivMod
<1> HIDE DEF a, r
<1>2. v * 10 + d = (10 * q) * a + (10 * r + d)
  BY <1>1
<1>3. 10 * r + d \in 0..(10 * q - 1)
  BY <1>1
<1>4. 10 * q \in Nat \ {0}
  OBVIOUS
<1>5. QED
  BY <1>1, <1>2, <1>3, <1>4, DivIs DEF a
-----------------------------------------------------------------------------

(* A number as it is written and as it is read: while the digits are read, *)
(* the number so far shows the digits so far, and every u64 that shows     *)
(* all of them begins with it.                                             *)
Begins(t, m, n) ==
  \A s \in m..Len(t), v \in 0..MaxNumber :
    NumeralTo(t, s) /\ Shows(t, s, v)
      => v \div 10 ^ Cardinality(DigitsAfter(t, m, s)) = n

(* The numeral up to place m was read into n.                              *)
IsNumeral(t, m, n) == NumeralTo(t, m) /\ Shows(t, m, n) /\ Begins(t, m, n)

ReadSoFar(t, r) ==
  /\ r.read \in 0..Len(t)
  /\ r.at = "first" => r.read = 0 /\ r.n = 0
  /\ r.at = "digits" => r.read > 0 /\ IsNumeral(t, r.read, r.n)
  /\ r.at = "unit" =>
       /\ r.read > 1 /\ IsNumeral(t, r.read - 1, r.n)
       /\ IsUnit(t[r.read]) /\ r.power = Power(t[r.read])
  /\ r.at = "over" => Written(t) = {r.n}
  /\ r.at = "bad" => Written(t) = {}

NumeralInv == pc = "typed" => text \in Text /\ ReadSoFar(text, num)

LEMMA TextIs ==
  ASSUME NEW t \in Text
  PROVE  /\ Len(t) \in Nat
         /\ \A d \in 0..Len(t) : 10 ^ d \in Nat \ {0} /\ 10 ^ (d + 1) = 10 * 10 ^ d
<1>1. t \in Seq(STRING)
  <2>1. Text \subseteq Seq(STRING)
    BY NumberAssumption
  <2>2. QED
    BY <2>1
<1>2. \A d \in 0..Len(t) : 10 ^ d \in Nat \ {0} /\ 10 ^ (d + 1) = 10 * 10 ^ d
  BY PowerAssumption
<1>3. QED
  BY <1>1, <1>2

LEMMA TenIs ==
  ASSUME NEW t \in Text, NEW s \in Nat, s <= Len(t), NEW d \in 0..s
  PROVE  10 ^ d \in Nat \ {0} /\ 10 ^ (d + 1) = 10 * 10 ^ d
<1>1. d \in 0..Len(t)
  BY TextIs
<1>2. QED
  BY <1>1, TextIs, Zenon

LEMMA TenToNone == 10 ^ 0 = 1
BY PowerAssumption, Zenon

LEMMA NumberIs ==
  ASSUME NEW v \in 0..MaxNumber
  PROVE  v \in Nat /\ v <= MaxNumber /\ MaxNumber \in Nat
<1>1. MaxNumber \in Nat
  BY NumberAssumption
<1>2. QED
  BY <1>1

LEMMA PlaceIs ==
  ASSUME NEW t \in Text, NEW m \in Nat, NEW s \in m..Len(t)
  PROVE  Len(t) \in Nat /\ s \in Nat /\ m <= s /\ s <= Len(t)
<1>1. Len(t) \in Nat
  BY TextIs
<1>2. QED
  BY <1>1

LEMMA DigitIs ==
  ASSUME NEW c \in DOMAIN DigitOf
  PROVE  DigitOf[c] \in 0..9 /\ c # "_" /\ c # "i" /\ ~IsUnit(c)
BY NumberAssumption DEF IsUnit

LEMMA PlacesAfter ==
  ASSUME NEW t, NEW i \in Nat, NEW s \in Nat
  PROVE  /\ IsFiniteSet(DigitsAfter(t, i, s))
         /\ Cardinality(DigitsAfter(t, i, s)) \in 0..s
<1>1. IsFiniteSet(1..s) /\ Cardinality(1..s) = s
  BY FS_Interval
<1>2. DigitsAfter(t, i, s) \in SUBSET (1..s)
  BY DEF DigitsAfter
<1>3. /\ IsFiniteSet(DigitsAfter(t, i, s))
      /\ Cardinality(DigitsAfter(t, i, s)) <= s
  BY <1>1, <1>2, FS_Subset
<1>4. QED
  BY <1>3, FS_CardinalityType

LEMMA NoneAfter ==
  ASSUME NEW t, NEW s \in Nat
  PROVE  DigitsAfter(t, s, s) = {} /\ Cardinality(DigitsAfter(t, s, s)) = 0
<1>1. DigitsAfter(t, s, s) = {}
  BY DEF DigitsAfter
<1>2. QED
  BY <1>1, FS_EmptySet

(* The first character after a place is a digit or it is not.              *)
LEMMA FirstAfter ==
  ASSUME NEW t, NEW i \in Nat, NEW s \in Nat, i < s
  PROVE  Cardinality(DigitsAfter(t, i, s)) =
           IF t[i + 1] \in DOMAIN DigitOf
           THEN Cardinality(DigitsAfter(t, i + 1, s)) + 1
           ELSE Cardinality(DigitsAfter(t, i + 1, s))
<1> DEFINE T == DigitsAfter(t, i + 1, s)
<1>1. IsFiniteSet(T) /\ i + 1 \notin T
  <2>1. IsFiniteSet(T)
    BY PlacesAfter
  <2>2. QED
    BY <2>1 DEF DigitsAfter
<1>2. CASE t[i + 1] \in DOMAIN DigitOf
  <2>1. DigitsAfter(t, i, s) = T \cup {i + 1}
    BY <1>2 DEF DigitsAfter
  <2>2. QED
    BY <1>1, <1>2, <2>1, FS_AddElement
<1>3. CASE t[i + 1] \notin DOMAIN DigitOf
  <2>1. DigitsAfter(t, i, s) = T
    BY <1>3 DEF DigitsAfter
  <2>2. QED
    BY <1>3, <2>1
<1>4. QED
  BY <1>2, <1>3

(* One character more is read.                                             *)
LEMMA LastAfter ==
  ASSUME NEW t, NEW i \in Nat, NEW s \in Nat, i <= s
  PROVE  IF t[s + 1] \in DOMAIN DigitOf
         THEN /\ DigitsAfter(t, i, s + 1) = DigitsAfter(t, i, s) \cup {s + 1}
              /\ Cardinality(DigitsAfter(t, i, s + 1)) =
                   Cardinality(DigitsAfter(t, i, s)) + 1
         ELSE DigitsAfter(t, i, s + 1) = DigitsAfter(t, i, s)
<1> DEFINE T == DigitsAfter(t, i, s)
<1>1. IsFiniteSet(T) /\ s + 1 \notin T
  <2>1. IsFiniteSet(T)
    BY PlacesAfter
  <2>2. QED
    BY <2>1 DEF DigitsAfter
<1>2. CASE t[s + 1] \in DOMAIN DigitOf
  <2>1. DigitsAfter(t, i, s + 1) = T \cup {s + 1}
    BY <1>2 DEF DigitsAfter
  <2>2. QED
    BY <1>1, <1>2, <2>1, FS_AddElement
<1>3. CASE t[s + 1] \notin DOMAIN DigitOf
  BY <1>3 DEF DigitsAfter
<1>4. QED
  BY <1>2, <1>3

(* A digit is read: the number so far shows one digit more.                *)
LEMMA ShowsDigit ==
  ASSUME NEW t \in Text, NEW m \in Nat, m < Len(t), t[m + 1] \in DOMAIN DigitOf,
         NEW v \in Nat, Shows(t, m, v)
  PROVE  Shows(t, m + 1, v * 10 + DigitOf[t[m + 1]])
<1> DEFINE d == DigitOf[t[m + 1]]
           P(i) == 10 ^ Cardinality(DigitsAfter(t, i, m))
           Q(i) == 10 ^ Cardinality(DigitsAfter(t, i, m + 1))
<1>1. d \in 0..9
  BY DigitIs
<1>2. ASSUME NEW i \in 0..m
      PROVE  P(i) \in Nat \ {0} /\ Q(i) = 10 * P(i)
  <2>1. Cardinality(DigitsAfter(t, i, m)) \in 0..m
    BY PlacesAfter
  <2>2. Cardinality(DigitsAfter(t, i, m + 1)) = Cardinality(DigitsAfter(t, i, m)) + 1
    BY LastAfter
  <2>3. m <= Len(t)
    BY TextIs
  <2>4. QED
    BY <2>1, <2>2, <2>3, TenIs
<1>3. v < P(0)
  BY DEF Shows
<1>4. v * 10 + d < Q(0)
  <2>1. P(0) \in Nat \ {0} /\ Q(0) = 10 * P(0)
    BY <1>2
  <2> HIDE DEF P, Q, d
  <2>2. QED
    BY <1>1, <1>3, <2>1
<1>5. ASSUME NEW i \in DigitsAfter(t, 0, m + 1)
      PROVE  ((v * 10 + d) \div Q(i)) % 10 = DigitOf[t[i]]
  <2>1. CASE i = m + 1
    <3>1. Q(i) = 1
      <4>1. Cardinality(DigitsAfter(t, m + 1, m + 1)) = 0
        BY NoneAfter
      <4>2. QED
        BY <2>1, <4>1, TenToNone
    <3> HIDE DEF Q, d
    <3>2. ((v * 10 + d) \div 1) % 10 = d
      BY <1>1
    <3>3. QED
      BY <2>1, <3>1, <3>2 DEF d
  <2>2. CASE i # m + 1
    <3>1. i \in DigitsAfter(t, 0, m) /\ i \in 0..m
      BY <2>2, <1>5 DEF DigitsAfter
    <3>2. (v \div P(i)) % 10 = DigitOf[t[i]]
      BY <3>1 DEF Shows
    <3>3. (v * 10 + d) \div Q(i) = v \div P(i)
      <4>1. P(i) \in Nat \ {0} /\ Q(i) = 10 * P(i)
        BY <1>2, <3>1
      <4> HIDE DEF P, Q, d
      <4>2. QED
        BY <1>1, <4>1, DivOneMore
    <3>4. QED
      BY <3>2, <3>3
  <2>3. QED
    BY <2>1, <2>2
<1>6. QED
  BY <1>4, <1>5 DEF Shows

(* A digit is read: each number that begins with the number so far begins  *)
(* with one digit more.                                                    *)
LEMMA BeginsDigit ==
  ASSUME NEW t \in Text, NEW m \in Nat, m < Len(t), t[m + 1] \in DOMAIN DigitOf,
         NEW n \in Nat, Begins(t, m, n)
  PROVE  Begins(t, m + 1, n * 10 + DigitOf[t[m + 1]])
<1> DEFINE d == DigitOf[t[m + 1]]
<1> SUFFICES ASSUME NEW s \in (m + 1)..Len(t), NEW v \in 0..MaxNumber,
                    NumeralTo(t, s), Shows(t, s, v)
             PROVE  v \div 10 ^ Cardinality(DigitsAfter(t, m + 1, s)) = n * 10 + d
  BY DEF Begins
<1> DEFINE q == 10 ^ Cardinality(DigitsAfter(t, m + 1, s))
           p == 10 ^ Cardinality(DigitsAfter(t, m, s))
<1>1. Len(t) \in Nat /\ s \in Nat /\ s \in m..Len(t) /\ m < s /\ s <= Len(t)
  <2>1. Len(t) \in Nat /\ s \in Nat /\ m + 1 <= s /\ s <= Len(t)
    BY PlaceIs
  <2>2. QED
    BY <2>1
<1>2. v \in Nat
  BY NumberIs
<1>3. q \in Nat \ {0} /\ p = 10 * q
  <2>1. Cardinality(DigitsAfter(t, m + 1, s)) \in 0..s
    BY <1>1, PlacesAfter
  <2>2. Cardinality(DigitsAfter(t, m, s)) = Cardinality(DigitsAfter(t, m + 1, s)) + 1
    BY <1>1, FirstAfter
  <2>3. QED
    BY <1>1, <2>1, <2>2, TenIs
<1>4. v \div p = n
  BY <1>1 DEF Begins
<1>5. (v \div q) % 10 = d
  <2>1. m + 1 \in DigitsAfter(t, 0, s)
    BY <1>1 DEF DigitsAfter
  <2>2. QED
    BY <2>1 DEF Shows
<1> HIDE DEF p, q, d
<1>6. v \div q = 10 * (v \div (10 * q)) + ((v \div q) % 10)
  BY <1>2, <1>3, DivTens
<1>7. v \div q = n * 10 + d
  BY <1>3, <1>4, <1>5, <1>6
<1>8. QED
  BY <1>7 DEF q, d

(* A character that may be within a numeral.                               *)
OfNumeral(c) == c \in DOMAIN DigitOf \cup {"_"}

LEMMA OfNumeralIs ==
  ASSUME NEW t, NEW s
  PROVE  NumeralTo(t, s) <=>
           t[1] \in DOMAIN DigitOf /\ \A i \in 1..s : OfNumeral(t[i])
BY Zenon DEF NumeralTo, OfNumeral

LEMMA NumeralMore ==
  ASSUME NEW t, NEW m \in Nat, NumeralTo(t, m), OfNumeral(t[m + 1])
  PROVE  NumeralTo(t, m + 1)
<1>1. \A i \in 1..(m + 1) : i \in 1..m \/ i = m + 1
  OBVIOUS
<1>2. QED
  BY <1>1, OfNumeralIs, Zenon

LEMMA UnitEnds ==
  ASSUME NEW c, IsUnit(c)
  PROVE  ~OfNumeral(c)
BY DigitIs DEF IsUnit, OfNumeral

(* An underscore is read: nothing changes.                                 *)
LEMMA NumeralUnderscore ==
  ASSUME NEW t \in Text, NEW m \in Nat, m < Len(t),
         OfNumeral(t[m + 1]), t[m + 1] \notin DOMAIN DigitOf,
         NEW n \in Nat, IsNumeral(t, m, n)
  PROVE  IsNumeral(t, m + 1, n)
<1>1. t[m + 1] \notin DOMAIN DigitOf
  OBVIOUS
<1>2. NumeralTo(t, m + 1)
  BY NumeralMore DEF IsNumeral
<1>3. ASSUME NEW i \in 0..m
      PROVE  DigitsAfter(t, i, m + 1) = DigitsAfter(t, i, m)
  <2>1. i \in Nat /\ i <= m
    OBVIOUS
  <2>2. QED
    BY <1>1, <2>1, LastAfter
<1>4. Shows(t, m + 1, n)
  <2>1. \A i \in DigitsAfter(t, 0, m) : i \in 0..m
    BY DEF DigitsAfter
  <2>2. DigitsAfter(t, 0, m + 1) = DigitsAfter(t, 0, m)
    BY <1>3
  <2>3. Shows(t, m, n)
    BY DEF IsNumeral
  <2>4. QED
    BY <1>3, <2>1, <2>2, <2>3, Zenon DEF Shows
<1>5. Begins(t, m + 1, n)
  <2> SUFFICES ASSUME NEW s \in (m + 1)..Len(t), NEW v \in 0..MaxNumber,
                      NumeralTo(t, s), Shows(t, s, v)
               PROVE  v \div 10 ^ Cardinality(DigitsAfter(t, m + 1, s)) = n
    BY DEF Begins
  <2>1. Len(t) \in Nat /\ s \in Nat /\ s \in m..Len(t) /\ m < s
    <3>1. Len(t) \in Nat /\ s \in Nat /\ m + 1 <= s /\ s <= Len(t)
      BY PlaceIs
    <3>2. QED
      BY <3>1
  <2>2. Cardinality(DigitsAfter(t, m, s)) = Cardinality(DigitsAfter(t, m + 1, s))
    BY <1>1, <2>1, FirstAfter
  <2>3. QED
    BY <2>1, <2>2 DEF Begins, IsNumeral
<1>6. QED
  BY <1>2, <1>4, <1>5 DEF IsNumeral


(* A number is written by the numeral it begins with and the suffix.       *)
LEMMA WrittenIs ==
  ASSUME NEW t, NEW x
  PROVE  x \in Written(t) <=>
           /\ x \in 0..MaxNumber
           /\ \E s \in 1..Len(t) : \E v \in 0..MaxNumber : \E u \in Scale(t, s) :
                NumeralTo(t, s) /\ Shows(t, s, v) /\ x = v * u
<1> DEFINE ends == {s \in 1..Len(t) : NumeralTo(t, s) /\ Scale(t, s) # {}}
           shown(s) == {v \in 0..MaxNumber : Shows(t, s, v)}
           N(s) == {v * u : v \in shown(s), u \in Scale(t, s)}
<1>1. x \in Written(t) <=> x \in 0..MaxNumber /\ \E s \in ends : x \in N(s)
  <2>1. Written(t) = (UNION {N(s) : s \in ends}) \cap (0..MaxNumber)
    BY DEF Written
  <2> HIDE DEF ends, N
  <2>2. QED
    BY <2>1, Zenon
<1>2. \A s : x \in N(s) <=> \E v \in shown(s), u \in Scale(t, s) : x = v * u
  OBVIOUS
<1>3. \A s : s \in ends <=> s \in 1..Len(t) /\ NumeralTo(t, s) /\ Scale(t, s) # {}
  BY Zenon
<1>4. \A s, v : v \in shown(s) <=> v \in 0..MaxNumber /\ Shows(t, s, v)
  BY Zenon
<1> HIDE DEF ends, shown, N
<1>5. ASSUME x \in Written(t)
      PROVE  /\ x \in 0..MaxNumber
             /\ \E s \in 1..Len(t) : \E v \in 0..MaxNumber : \E u \in Scale(t, s) :
                  NumeralTo(t, s) /\ Shows(t, s, v) /\ x = v * u
  <2>1. PICK s \in ends : x \in N(s)
    BY <1>1, <1>5
  <2>2. PICK v \in shown(s), u \in Scale(t, s) : x = v * u
    BY <1>2, <2>1
  <2>3. QED
    BY <1>1, <1>3, <1>4, <1>5, <2>1, <2>2, Zenon
<1>6. ASSUME x \in 0..MaxNumber, NEW s \in 1..Len(t), NEW v \in 0..MaxNumber,
             NEW u \in Scale(t, s), NumeralTo(t, s), Shows(t, s, v), x = v * u
      PROVE  x \in Written(t)
  <2>1. s \in ends /\ v \in shown(s)
    BY <1>3, <1>4, <1>6, Zenon
  <2>2. x \in N(s)
    BY <1>2, <1>6, <2>1, Zenon
  <2>3. QED
    BY <1>1, <1>6, <2>1, <2>2, Zenon
<1>7. QED
  BY <1>5, <1>6, Zenon

LEMMA ScaleBeforeEnd ==
  ASSUME NEW t, NEW s, s # Len(t), Scale(t, s) # {}
  PROVE  IsUnit(t[s + 1])
<1>1. CASE s < Len(t) /\ IsUnit(t[s + 1])
  BY <1>1
<1>2. CASE ~(s < Len(t) /\ IsUnit(t[s + 1]))
  <2>1. Scale(t, s) = {}
    BY <1>2, Zenon DEF Scale
  <2>2. QED
    BY <2>1
<1>3. QED
  BY <1>1, <1>2

LEMMA ScaleAtUnit ==
  ASSUME NEW t \in Text, NEW s \in Nat, s < Len(t), IsUnit(t[s + 1])
  PROVE  Scale(t, s) = IF s + 1 = Len(t) THEN {Kilo ^ Power(t[s + 1])}
                       ELSE IF t[s + 2] = "i" THEN {Kibi ^ Power(t[s + 1])} ELSE {}
<1>1. s # Len(t)
  BY TextIs
<1>2. QED
  BY <1>1, Zenon DEF Scale

(* A numeral goes on as long as it can.                                    *)
LEMMA NumeralEnds ==
  ASSUME NEW t \in Text, NEW m \in 1..Len(t), NumeralTo(t, m),
         m < Len(t) => ~OfNumeral(t[m + 1]),
         NEW s \in 1..Len(t), NumeralTo(t, s), Scale(t, s) # {}
  PROVE  s = m
<1>1. /\ Len(t) \in Nat /\ m \in Nat /\ s \in Nat
      /\ 1 <= m /\ m <= Len(t) /\ 1 <= s /\ s <= Len(t)
  BY PlaceIs
<1>2. ASSUME s < m
      PROVE  FALSE
  <2>1. s # Len(t) /\ s + 1 \in 1..m
    BY <1>1, <1>2
  <2>2. IsUnit(t[s + 1])
    BY <2>1, ScaleBeforeEnd
  <2>3. OfNumeral(t[s + 1])
    BY <2>1, OfNumeralIs
  <2>4. QED
    BY <2>2, <2>3, UnitEnds
<1>3. ASSUME m < s
      PROVE  FALSE
  <2>1. m < Len(t) /\ m + 1 \in 1..s
    BY <1>1, <1>3
  <2>2. QED
    BY <2>1, OfNumeralIs
<1>4. QED
  BY <1>1, <1>2, <1>3

(* All digits were read: the number so far is the only one that they show. *)
LEMMA WrittenOne ==
  ASSUME NEW t \in Text, NEW m \in 1..Len(t), NEW n \in 0..MaxNumber,
         IsNumeral(t, m, n), NEW u, Scale(t, m) = {u}
  PROVE  Written(t) = {n * u} \cap (0..MaxNumber)
<1>1. Len(t) \in Nat /\ m \in Nat /\ m \in m..Len(t)
  BY TextIs
<1>2. m < Len(t) => ~OfNumeral(t[m + 1])
  <2> SUFFICES ASSUME m < Len(t)
               PROVE  ~OfNumeral(t[m + 1])
    OBVIOUS
  <2>1. m # Len(t) /\ Scale(t, m) # {}
    BY <1>1
  <2>2. IsUnit(t[m + 1])
    BY <2>1, ScaleBeforeEnd
  <2>3. QED
    BY <2>2, UnitEnds
<1>3. ASSUME NEW v \in 0..MaxNumber, Shows(t, m, v)
      PROVE  v = n
  <2>1. v \div 10 ^ Cardinality(DigitsAfter(t, m, m)) = n
    BY <1>1, <1>3 DEF IsNumeral, Begins
  <2>2. 10 ^ Cardinality(DigitsAfter(t, m, m)) = 1
    BY <1>1, NoneAfter, PowerAssumption
  <2>3. v \in Nat
    BY NumberIs
  <2>4. v \div 1 = v
    BY <2>3
  <2>5. QED
    BY <2>1, <2>2, <2>4
<1>4. ASSUME NEW x \in Written(t)
      PROVE  x = n * u /\ x \in 0..MaxNumber
  <2>0. PICK s \in 1..Len(t), v \in 0..MaxNumber :
          \E w \in Scale(t, s) : NumeralTo(t, s) /\ Shows(t, s, v) /\ x = v * w
    BY <1>4, WrittenIs
  <2>1. PICK w : w \in Scale(t, s) /\ NumeralTo(t, s) /\ Shows(t, s, v) /\ x = v * w
    BY <2>0
  <2>2. s = m
    BY <1>2, <2>1, NumeralEnds DEF IsNumeral
  <2>3. v = n /\ w = u
    BY <1>3, <2>1, <2>2
  <2>4. QED
    BY <1>4, <2>1, <2>3, WrittenIs
<1>5. ASSUME n * u \in 0..MaxNumber
      PROVE  n * u \in Written(t)
  <2>1. u \in Scale(t, m) /\ NumeralTo(t, m) /\ Shows(t, m, n)
    BY DEF IsNumeral
  <2>2. QED
    BY <1>5, <2>1, WrittenIs
<1>6. QED
  BY <1>4, <1>5

LEMMA WrittenNone ==
  ASSUME NEW t,
         ASSUME NEW s \in 1..Len(t), NumeralTo(t, s), Scale(t, s) # {},
                NEW v \in 0..MaxNumber, Shows(t, s, v)
         PROVE  FALSE
  PROVE  Written(t) = {}
<1>1. ASSUME NEW x \in Written(t)
      PROVE  FALSE
  <2>1. PICK s \in 1..Len(t), v \in 0..MaxNumber :
          NumeralTo(t, s) /\ Shows(t, s, v) /\ \E w \in Scale(t, s) : x = v * w
    BY <1>1, WrittenIs
  <2>2. Scale(t, s) # {}
    BY <2>1
  <2>3. QED
    BY <2>1, <2>2
<1>2. QED
  BY <1>1

(* Without a digit in front, a text denotes no number.                     *)
LEMMA NoDigitFirst ==
  ASSUME NEW t \in Text, 0 < Len(t) => t[1] \notin DOMAIN DigitOf
  PROVE  Written(t) = {}
<1>1. ASSUME NEW s \in 1..Len(t), NumeralTo(t, s)
      PROVE  FALSE
  <2>1. 0 < Len(t)
    BY TextIs
  <2>2. QED
    BY <1>1, <2>1 DEF NumeralTo
<1>2. QED
  BY <1>1, WrittenNone

(* Nor does it if what follows the digits is no suffix.                    *)
LEMMA NoSuffix ==
  ASSUME NEW t \in Text, NEW m \in 1..Len(t), NumeralTo(t, m),
         m < Len(t), ~OfNumeral(t[m + 1]), Scale(t, m) = {}
  PROVE  Written(t) = {}
<1>1. ASSUME NEW s \in 1..Len(t), NumeralTo(t, s), Scale(t, s) # {}
      PROVE  FALSE
  <2>1. s = m
    BY <1>1, NumeralEnds
  <2>2. QED
    BY <1>1, <2>1
<1>2. QED
  BY <1>1, WrittenNone

(* Nor if its first digits are too large by themselves.                    *)
LEMMA TooLarge ==
  ASSUME NEW t \in Text, NEW m \in 1..Len(t), NumeralTo(t, m),
         NEW n \in Nat, n > MaxNumber, Begins(t, m, n)
  PROVE  Written(t) = {}
<1>1. Len(t) \in Nat /\ m \in Nat /\ m <= Len(t) /\ MaxNumber \in Nat
  <2>1. MaxNumber \in Nat
    BY NumberAssumption
  <2>2. QED
    BY <2>1, PlaceIs
<1>2. ASSUME NEW s \in 1..Len(t), NumeralTo(t, s), Scale(t, s) # {},
             NEW v \in 0..MaxNumber, Shows(t, s, v)
      PROVE  FALSE
  <2>1. CASE s < m
    <3>1. s # Len(t) /\ s + 1 \in 1..m
      BY <1>1, <2>1
    <3>2. IsUnit(t[s + 1])
      BY <1>2, <3>1, ScaleBeforeEnd
    <3>3. OfNumeral(t[s + 1])
      BY <3>1, OfNumeralIs
    <3>4. QED
      BY <3>2, <3>3, UnitEnds
  <2>2. CASE m <= s
    <3> DEFINE q == 10 ^ Cardinality(DigitsAfter(t, m, s))
    <3>1. s \in m..Len(t)
      BY <1>1, <2>2
    <3>2. v \div q = n
      BY <1>2, <3>1 DEF Begins
    <3>3. q \in Nat \ {0}
      <4>1. Cardinality(DigitsAfter(t, m, s)) \in 0..s /\ s <= Len(t)
        BY <1>1, <3>1, PlacesAfter
      <4>2. QED
        BY <1>1, <3>1, <4>1, TextIs
    <3> HIDE DEF q
    <3>4. v \in Nat /\ v <= MaxNumber
      BY <1>1
    <3>5. v \div q <= v
      <4>1. v \div q \in Nat /\ v % q \in 0..(q - 1) /\ v = q * (v \div q) + (v % q)
        BY <3>3, <3>4, DivMod
      <4>2. q * n >= n
        BY <3>3
      <4>3. q * n \in Nat
        BY <3>3, TimesIs
      <4>4. QED
        BY <3>2, <3>3, <4>1, <4>2, <4>3
    <3>6. QED
      BY <1>1, <3>2, <3>4, <3>5
  <2>3. QED
    BY <1>1, <2>1, <2>2
<1>3. QED
  BY <1>2, WrittenNone


(* The number so far after the first digit.                                *)
LEMMA FirstDigit ==
  ASSUME NEW t \in Text, 0 < Len(t), t[1] \in DOMAIN DigitOf
  PROVE  IsNumeral(t, 1, DigitOf[t[1]])
<1> DEFINE d == DigitOf[t[1]]
<1>1. d \in 0..9
  BY DigitIs
<1>2. NumeralTo(t, 1)
  <2>1. \A i \in 1..1 : i = 1
    OBVIOUS
  <2>2. QED
    BY <2>1, OfNumeralIs, Zenon DEF OfNumeral
<1>3. Shows(t, 0, 0)
  <2>1. DigitsAfter(t, 0, 0) = {} /\ Cardinality(DigitsAfter(t, 0, 0)) = 0
    BY NoneAfter
  <2>2. 0 < 10 ^ Cardinality(DigitsAfter(t, 0, 0))
    <3>1. 10 ^ Cardinality(DigitsAfter(t, 0, 0)) = 1
      BY <2>1, TenToNone, Zenon
    <3>2. QED
      BY <3>1
  <2>3. QED
    BY <2>1, <2>2 DEF Shows
<1>4. Begins(t, 0, 0)
  <2> SUFFICES ASSUME NEW s \in 0..Len(t), NEW v \in 0..MaxNumber,
                      NumeralTo(t, s), Shows(t, s, v)
               PROVE  v \div 10 ^ Cardinality(DigitsAfter(t, 0, s)) = 0
    BY DEF Begins
  <2> DEFINE q == 10 ^ Cardinality(DigitsAfter(t, 0, s))
  <2>1. v < q
    BY DEF Shows
  <2>2. q \in Nat \ {0}
    <3>1. s \in Nat /\ s <= Len(t)
      BY PlaceIs
    <3>2. Cardinality(DigitsAfter(t, 0, s)) \in 0..s
      BY <3>1, PlacesAfter
    <3>3. QED
      BY <3>1, <3>2, TenIs
  <2>3. v \in Nat
    BY NumberIs
  <2> HIDE DEF q
  <2>4. v = q * 0 + v /\ v \in 0..(q - 1)
    BY <2>1, <2>2, <2>3
  <2>5. v \div q = 0
    BY <2>2, <2>4, DivIs
  <2>6. QED
    BY <2>5 DEF q
<1>5. t[0 + 1] \in DOMAIN DigitOf /\ 0 \in Nat
  OBVIOUS
<1>6. Shows(t, 0 + 1, 0 * 10 + DigitOf[t[0 + 1]])
  BY <1>3, <1>5, ShowsDigit
<1>7. Begins(t, 0 + 1, 0 * 10 + DigitOf[t[0 + 1]])
  BY <1>4, <1>5, BeginsDigit
<1>8. 0 + 1 = 1 /\ 0 * 10 + d = d
  BY <1>1
<1>9. QED
  BY <1>2, <1>6, <1>7, <1>8 DEF IsNumeral

(* One character more: the next digit, or an underscore.                   *)
LEMMA NextDigit ==
  ASSUME NEW t \in Text, NEW m \in Nat, m < Len(t), t[m + 1] \in DOMAIN DigitOf,
         NEW n \in Nat, IsNumeral(t, m, n)
  PROVE  IsNumeral(t, m + 1, n * 10 + DigitOf[t[m + 1]])
<1>1. NumeralTo(t, m) /\ Shows(t, m, n) /\ Begins(t, m, n) /\ OfNumeral(t[m + 1])
  BY DEF IsNumeral, OfNumeral
<1>2. NumeralTo(t, m + 1)
  BY <1>1, NumeralMore
<1>3. Shows(t, m + 1, n * 10 + DigitOf[t[m + 1]])
  BY <1>1, ShowsDigit
<1>4. Begins(t, m + 1, n * 10 + DigitOf[t[m + 1]])
  BY <1>1, BeginsDigit
<1>5. QED
  BY <1>2, <1>3, <1>4 DEF IsNumeral

LEMMA CheckedIs ==
  ASSUME NEW r \in Reading
  PROVE  IF r.n > MaxNumber THEN Checked(r) = Bad(r) ELSE Checked(r) = r
BY DEF Checked

LEMMA DigitAdded ==
  ASSUME NEW n \in Nat, NEW d \in 0..9
  PROVE  n * 10 + d \in Nat
OBVIOUS

(* What is known after each character.                                     *)
LEMMA ReadSoFarNext ==
  ASSUME NEW t \in Text, NEW r, InRange(r), ReadSoFar(t, r),
         r.at \notin {"over", "bad"}, r.read # Len(t),
         NEW c, c = t[r.read + 1],
         NEW q, q = [Read(r, c) EXCEPT !.read = @ + 1]
  PROVE  ReadSoFar(t, q)
<1> DEFINE m == r.read
<1>1. /\ r \in Reading /\ r.n \in Nat /\ m \in Nat /\ r.n <= MaxNumber
      /\ MaxNumber \in Nat /\ Len(t) \in Nat
  BY TextIs, NumberAssumption DEF InRange, Reading
<1>2. m < Len(t) /\ m + 1 \in 1..Len(t) /\ m + 1 \in 0..Len(t)
  <2>1. m \in 0..Len(t)
    BY DEF ReadSoFar
  <2>2. QED
    BY <1>1, <2>1
<1>3. CASE r.at = "first" /\ c \in DOMAIN DigitOf
  <2>1. m = 0
    BY <1>3 DEF ReadSoFar
  <2>2. Read(r, c) = [r EXCEPT !.at = "digits", !.n = DigitOf[c]]
    BY <1>1, <1>3, ReadIs
  <2>3. q.at = "digits" /\ q.n = DigitOf[c] /\ q.read = 1
    <3>1. PICK d : d = DigitOf[c]
      OBVIOUS
    <3>2. Read(r, c) = [r EXCEPT !.at = "digits", !.n = d]
      BY <2>2, <3>1
    <3>3. q.at = "digits" /\ q.n = d /\ q.read = 0 + 1
      BY <1>1, <2>1, <3>2 DEF Reading
    <3>4. QED
      BY <3>1, <3>3
  <2>4. c = t[1] /\ 0 < Len(t)
    BY <1>2, <2>1
  <2>5. IsNumeral(t, 1, q.n)
    BY <1>3, <2>3, <2>4, FirstDigit
  <2>6. QED
    BY <1>2, <2>1, <2>3, <2>5 DEF ReadSoFar
<1>4. CASE r.at = "digits" /\ c \in DOMAIN DigitOf
  <2> DEFINE n == r.n * 10 + DigitOf[c]
             u == [r EXCEPT !.n = n]
  <2>1. m > 0 /\ IsNumeral(t, m, r.n)
    BY <1>4 DEF ReadSoFar
  <2>2. IsNumeral(t, m + 1, n)
    BY <1>1, <1>2, <1>4, <2>1, NextDigit
  <2>3. n \in Nat /\ u \in Reading /\ u.n = n /\ u.at = "digits" /\ u.read = m
    <3>1. DigitOf[c] \in 0..9
      BY <1>4, DigitIs
    <3>2. n \in Nat
      BY <1>1, <3>1, DigitAdded, Zenon
    <3> HIDE DEF n
    <3>3. QED
      BY <1>1, <1>4, <3>2 DEF Reading
  <2>4. Read(r, c) = Checked(u)
    BY <1>1, <1>4, ReadIs
  <2> HIDE DEF n, u
  <2>5. CASE n > MaxNumber
    <3>1. Read(r, c) = Bad(u)
      BY <2>3, <2>4, <2>5, CheckedIs
    <3>2. q.at = "bad" /\ q.read = m + 1
      BY <2>3, <3>1 DEF Bad, Reading
    <3>3. Written(t) = {}
      BY <1>2, <2>2, <2>3, <2>5, TooLarge DEF IsNumeral
    <3>4. QED
      BY <1>2, <3>2, <3>3 DEF ReadSoFar
  <2>6. CASE ~(n > MaxNumber)
    <3>1. Read(r, c) = u
      BY <2>3, <2>4, <2>6, CheckedIs
    <3>2. q.at = "digits" /\ q.read = m + 1 /\ q.n = n
      BY <2>3, <3>1 DEF Reading
    <3>3. QED
      BY <1>1, <1>2, <2>2, <3>2 DEF ReadSoFar
  <2>7. QED
    BY <2>5, <2>6
<1>5. CASE r.at = "digits" /\ c = "_"
  <2>1. Read(r, c) = r
    BY <1>1, <1>5, ReadIs
  <2>2. q.at = "digits" /\ q.read = m + 1 /\ q.n = r.n
    BY <1>1, <1>5, <2>1 DEF Reading
  <2>3. IsNumeral(t, m, r.n)
    BY <1>5 DEF ReadSoFar
  <2>4. OfNumeral(c) /\ c \notin DOMAIN DigitOf
    BY <1>5, DigitIs DEF OfNumeral
  <2>5. IsNumeral(t, m + 1, r.n)
    BY <1>1, <1>2, <2>3, <2>4, NumeralUnderscore
  <2>6. QED
    BY <1>1, <1>2, <2>2, <2>5 DEF ReadSoFar
<1>6. CASE r.at = "digits" /\ IsUnit(c)
  <2>1. Read(r, c) = [r EXCEPT !.at = "unit", !.power = Power(c)]
    BY <1>1, <1>6, ReadIs
  <2>2. q.at = "unit" /\ q.read = m + 1 /\ q.n = r.n /\ q.power = Power(c)
    BY <1>1, <1>6, <2>1 DEF Reading
  <2>3. m > 0 /\ IsNumeral(t, m, r.n)
    BY <1>6 DEF ReadSoFar
  <2>4. q.read > 1 /\ q.read - 1 = m
    BY <1>1, <2>2, <2>3
  <2>5. IsUnit(t[q.read]) /\ q.power = Power(t[q.read])
    BY <1>6, <2>2
  <2>6. QED
    BY <1>2, <2>2, <2>3, <2>4, <2>5 DEF ReadSoFar
<1>7. CASE r.at = "unit"
  <2> DEFINE w == Kibi ^ r.power
             n == r.n * w
             u == [r EXCEPT !.at = "over", !.n = n]
             s == m - 1
  <2>1. /\ m > 1 /\ IsNumeral(t, s, r.n) /\ IsUnit(t[m]) /\ r.power = Power(t[m])
    BY <1>7 DEF ReadSoFar
  <2>2. s \in 1..Len(t) /\ s \in Nat /\ s < Len(t) /\ s + 1 = m /\ s + 2 = m + 1
        /\ s + 1 # Len(t)
    BY <1>1, <1>2, <2>1
  <2>3. Scale(t, s) = IF c = "i" THEN {w} ELSE {}
    <3>1. IsUnit(t[s + 1]) /\ r.power = Power(t[s + 1]) /\ c = t[s + 2]
      BY <2>1, <2>2
    <3>2. QED
      BY <2>2, <3>1, ScaleAtUnit
  <2>4. r.n \in 0..MaxNumber
    BY <1>1
  <2>5. w \in Nat /\ n \in Nat
    <3>1. w \in Nat
      BY <1>1, PowerAssumption DEF Reading
    <3>2. QED
      BY <1>1, <3>1, TimesIs
  <2>6. u \in Reading /\ u.at = "over" /\ u.n = n /\ u.read = m
    BY <1>1, <2>5 DEF Reading
  <2> HIDE DEF w, n, u, s
  <2>7. CASE c = "i"
    <3>1. Read(r, c) = Checked(u)
      BY <1>1, <1>7, <2>7, ReadIs DEF u, n, w
    <3>2. Written(t) = {n} \cap (0..MaxNumber)
      BY <2>1, <2>2, <2>3, <2>4, <2>7, WrittenOne DEF n
    <3>3. CASE n > MaxNumber
      <4>1. Read(r, c) = Bad(u)
        BY <2>6, <3>1, <3>3, CheckedIs
      <4>2. q.at = "bad" /\ q.read = m + 1
        BY <2>6, <4>1 DEF Bad, Reading
      <4>3. Written(t) = {}
        BY <1>1, <2>5, <3>2, <3>3
      <4>4. QED
        BY <1>2, <4>2, <4>3 DEF ReadSoFar
    <3>4. CASE ~(n > MaxNumber)
      <4>1. Read(r, c) = u
        BY <2>6, <3>1, <3>4, CheckedIs
      <4>2. q.at = "over" /\ q.read = m + 1 /\ q.n = n
        BY <2>6, <4>1 DEF Reading
      <4>3. Written(t) = {n}
        BY <1>1, <2>5, <3>2, <3>4
      <4>4. QED
        BY <1>2, <4>2, <4>3 DEF ReadSoFar
    <3>5. QED
      BY <3>3, <3>4
  <2>8. CASE c # "i"
    <3>1. Read(r, c) = Bad(r)
      BY <1>1, <1>7, <2>8, ReadIs
    <3>2. q.at = "bad" /\ q.read = m + 1
      BY <1>1, <3>1 DEF Bad, Reading
    <3>3. ~OfNumeral(t[s + 1]) /\ Scale(t, s) = {} /\ NumeralTo(t, s)
      BY <2>1, <2>2, <2>3, <2>8, UnitEnds DEF IsNumeral
    <3>4. Written(t) = {}
      BY <2>2, <3>3, NoSuffix
    <3>5. QED
      BY <1>2, <3>2, <3>4 DEF ReadSoFar
  <2>9. QED
    BY <2>7, <2>8
<1>8. CASE r.at = "first" /\ c \notin DOMAIN DigitOf
  <2>1. Read(r, c) = Bad(r)
    BY <1>1, <1>8, ReadIs
  <2>2. q.at = "bad" /\ q.read = m + 1
    BY <1>1, <2>1 DEF Bad, Reading
  <2>3. m = 0
    BY <1>8 DEF ReadSoFar
  <2>4. c = t[1]
    BY <2>3
  <2>5. Written(t) = {}
    BY <1>8, <2>4, NoDigitFirst
  <2>6. QED
    BY <1>2, <2>2, <2>5 DEF ReadSoFar
<1>9. CASE r.at = "digits" /\ c \notin DOMAIN DigitOf /\ c # "_" /\ ~IsUnit(c)
  <2>1. Read(r, c) = Bad(r)
    BY <1>1, <1>9, ReadIs
  <2>2. q.at = "bad" /\ q.read = m + 1
    BY <1>1, <2>1 DEF Bad, Reading
  <2>3. m > 0 /\ NumeralTo(t, m)
    BY <1>9 DEF ReadSoFar, IsNumeral
  <2>4. m \in 1..Len(t) /\ m # Len(t)
    BY <1>1, <1>2, <2>3
  <2>5. Scale(t, m) = {}
    <3>1. Scale(t, m) # {} => IsUnit(t[m + 1])
      BY <2>4, ScaleBeforeEnd
    <3>2. QED
      BY <1>9, <3>1
  <2>6. ~OfNumeral(t[m + 1])
    BY <1>9 DEF OfNumeral
  <2>7. Written(t) = {}
    BY <1>2, <2>3, <2>4, <2>5, <2>6, NoSuffix
  <2>8. QED
    BY <1>2, <2>2, <2>7 DEF ReadSoFar
<1>10. r.at \in {"first", "digits", "unit"}
  BY <1>1 DEF Reading
<1>11. QED
  BY <1>3, <1>4, <1>5, <1>6, <1>7, <1>8, <1>9, <1>10, Zenon

(* Reading the number keeps what is known of it.                           *)
LEMMA NumeralNext ==
  ASSUME LoadInv, NumeralInv, [Next]_vars
  PROVE  NumeralInv'
<1>1. CASE ReadCharacter
  <2> DEFINE c == text[num.read + 1]
  <2>1. /\ pc = "typed" /\ ~IsRead /\ text' = text /\ pc' = pc
        /\ num' = [Read(num, c) EXCEPT !.read = @ + 1]
    BY <1>1 DEF ReadCharacter
  <2>2. InRange(num)
    BY DEF LoadInv, TypeOK, InRange, Reading
  <2>3. text \in Text /\ ReadSoFar(text, num)
    BY <2>1 DEF NumeralInv
  <2>4. num.at \notin {"over", "bad"} /\ num.read # Len(text)
    BY <2>1 DEF IsRead
  <2> HIDE DEF c
  <2>5. ReadSoFar(text, num')
    BY <2>1, <2>2, <2>3, <2>4, ReadSoFarNext DEF c
  <2>6. QED
    BY <2>1, <2>3, <2>5 DEF NumeralInv
<1>2. CASE ParseArgs
  <2>1. pc' # "typed"
    BY <1>2 DEF ParseArgs
  <2>2. QED
    BY <2>1 DEF NumeralInv
<1>3. CASE pc # "typed"
  <2>1. pc' # "typed"
    <3>1. ~ReadCharacter /\ ~ParseArgs
      BY <1>3 DEF ReadCharacter, ParseArgs
    <3>2. QED
      BY <1>3, <3>1 DEF Next, Step, AskExists, DeleteCollection, CreateCollection,
         BeginUpsert, UpsertBatch, LogUpserts, BeginQueries, RetrievePoint,
         LogQueries, OtherClient, Fails, Goto, LogLatencies, vars
  <2>2. QED
    BY <2>1 DEF NumeralInv
<1>4. CASE pc = "typed" /\ ~ReadCharacter /\ ~ParseArgs
  <2>1. text' = text /\ num' = num /\ pc' = pc
    BY <1>4 DEF Next, Step, AskExists, DeleteCollection, CreateCollection,
       BeginUpsert, UpsertBatch, LogUpserts, BeginQueries, RetrievePoint,
       LogQueries, OtherClient, Fails, vars
  <2>2. QED
    BY <2>1 DEF NumeralInv
<1>5. QED
  BY <1>1, <1>2, <1>3, <1>4

(* At the end of the text, or of what is looked at, the number is read.    *)
LEMMA NumeralRead ==
  ASSUME NEW t \in Text, InRange(num), ReadSoFar(t, num),
         num.read = Len(t) \/ num.at \in {"over", "bad"}
  PROVE  {Number} \ {None} = Written(t)
<1>1. /\ num \in Reading /\ num.n \in Nat /\ num.read \in Nat /\ num.power \in 0..4
      /\ MaxNumber \in Nat /\ Len(t) \in Nat /\ None \notin Nat
      /\ num.at # "bad" => num.n \in 0..MaxNumber
  <2>1. MaxNumber \in Nat /\ Len(t) \in Nat /\ None \notin Nat
    <3>1. MaxNumber \in Nat
      BY NumberAssumption
    <3>2. QED
      BY <3>1, TextIs, NoneIs
  <2>2. num \in Reading /\ (num.at # "bad" => num.n <= MaxNumber)
    BY DEF InRange
  <2>3. QED
    BY <2>1, <2>2 DEF Reading
<1>2. CASE num.at = "first"
  <2>1. Number = None
    BY <1>2 DEF Number
  <2>2. ~(0 < Len(t))
    BY <1>2 DEF ReadSoFar
  <2>3. Written(t) = {}
    BY <2>2, NoDigitFirst
  <2>4. QED
    BY <2>1, <2>3
<1>3. CASE num.at = "digits"
  <2>1. Number = num.n
    BY <1>3 DEF Number
  <2>2. num.read > 0 /\ num.read = Len(t) /\ IsNumeral(t, num.read, num.n)
    BY <1>3 DEF ReadSoFar
  <2>3. num.read \in 1..Len(t)
    BY <1>1, <2>2
  <2>4. Scale(t, num.read) = {1}
    BY <2>2 DEF Scale
  <2>5. Written(t) = {num.n * 1} \cap (0..MaxNumber)
    BY <1>1, <1>3, <2>2, <2>3, <2>4, WrittenOne
  <2>6. num.n * 1 = num.n
    BY <1>1
  <2>7. QED
    BY <1>1, <1>3, <2>1, <2>5, <2>6
<1>4. CASE num.at = "unit"
  <2> DEFINE w == Kilo ^ num.power
             n == num.n * w
             u == [num EXCEPT !.n = n]
             s == num.read - 1
  <2>1. /\ num.read > 1 /\ num.read = Len(t) /\ IsNumeral(t, s, num.n)
        /\ IsUnit(t[num.read]) /\ num.power = Power(t[num.read])
    BY <1>4 DEF ReadSoFar
  <2>2. s \in 1..Len(t) /\ s \in Nat /\ s < Len(t) /\ s + 1 = num.read /\ s + 1 = Len(t)
    BY <1>1, <2>1
  <2>3. Scale(t, s) = {w}
    <3>1. IsUnit(t[s + 1]) /\ num.power = Power(t[s + 1])
      BY <2>1, <2>2
    <3>2. QED
      BY <2>2, <3>1, ScaleAtUnit
  <2>4. w \in Nat /\ n \in Nat
    <3>1. w \in Nat
      BY <1>1, PowerAssumption
    <3>2. QED
      BY <1>1, <3>1, TimesIs
  <2>5. Written(t) = {n} \cap (0..MaxNumber)
    BY <1>1, <1>4, <2>1, <2>2, <2>3, WrittenOne
  <2>6. Number = IF Checked(u).at \in {"first", "bad"} THEN None ELSE Checked(u).n
    BY <1>4 DEF Number
  <2> HIDE DEF n
  <2>7. u \in Reading /\ u.at = "unit" /\ u.n = n
    BY <1>1, <1>4, <2>4 DEF Reading
  <2> HIDE DEF u, w, s
  <2>8. CASE n > MaxNumber
    <3>1. Checked(u) = Bad(u)
      BY <2>7, <2>8, CheckedIs
    <3>2. Checked(u).at = "bad"
      BY <2>7, <3>1 DEF Bad, Reading
    <3>3. Number = None
      BY <2>6, <3>2
    <3>4. Written(t) = {}
      BY <1>1, <2>4, <2>5, <2>8
    <3>5. QED
      BY <3>3, <3>4
  <2>9. CASE ~(n > MaxNumber)
    <3>1. Checked(u) = u
      BY <2>7, <2>9, CheckedIs
    <3>2. Number = n
      BY <2>6, <2>7, <3>1
    <3>3. Written(t) = {n}
      BY <1>1, <2>4, <2>5, <2>9
    <3>4. QED
      BY <1>1, <2>4, <3>2, <3>3
  <2>10. QED
    BY <2>8, <2>9
<1>5. CASE num.at = "over"
  <2>1. Number = num.n
    BY <1>5 DEF Number
  <2>2. Written(t) = {num.n}
    BY <1>5 DEF ReadSoFar
  <2>3. QED
    BY <1>1, <2>1, <2>2
<1>6. CASE num.at = "bad"
  <2>1. Number = None
    BY <1>6 DEF Number
  <2>2. Written(t) = {}
    BY <1>6 DEF ReadSoFar
  <2>3. QED
    BY <2>1, <2>2
<1>7. QED
  BY <1>1, <1>2, <1>3, <1>4, <1>5, <1>6 DEF Reading

(* The parser returns the number that was written: for every text, every   *)
(* size of a u64 and all powers, it neither wraps nor reads another one.   *)
THEOREM NumberAsWrittenHolds == Spec => []NumberAsWritten
<1>1. Init => NumeralInv
  <2> SUFFICES ASSUME Init
               PROVE  text \in Text /\ ReadSoFar(text, num)
    BY DEF NumeralInv
  <2>1. text \in Text /\ num = Begun
    BY DEF Init
  <2>2. 0 \in 0..Len(text)
    BY <2>1, TextIs
  <2>3. QED
    BY <2>1, <2>2 DEF ReadSoFar, Begun
<1>2. LoadInv /\ NumeralInv /\ [Next]_vars => NumeralInv'
  BY NumeralNext
<1>3. LoadInv /\ NumeralInv => NumberAsWritten
  <2> SUFFICES ASSUME LoadInv, NumeralInv, pc = "typed", IsRead
               PROVE  {Number} \ {None} = Written(text)
    BY DEF NumberAsWritten
  <2>1. InRange(num)
    BY DEF LoadInv, TypeOK, InRange, Reading
  <2>2. text \in Text /\ ReadSoFar(text, num)
    BY DEF NumeralInv
  <2>3. num.read = Len(text) \/ num.at \in {"over", "bad"}
    BY DEF IsRead
  <2>4. QED
    BY <2>1, <2>2, <2>3, NumeralRead
<1>4. QED
  BY <1>1, <1>2, <1>3, LoadInvHolds, PTL DEF Spec

=============================================================================
