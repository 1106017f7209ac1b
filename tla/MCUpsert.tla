------------------------------ MODULE MCUpsert ------------------------------
(* Instances of Upsert for TLC: two or three peers, shards 0 and 1, ids     *)
(* that the hash ring puts in different shards.                            *)
EXTENDS UpsertRefinement

CONSTANTS n1, n2, n3, i1, i2, u1, a, b, o1, o2

(* A ring of two shards puts i1 in shard 1, and the other ids in shard 0;  *)
(* a ring of one shard puts everything in it.                              *)
MCRing ==
  [S \in SUBSET Shard |->
     [id \in PointId |-> IF 1 \in S /\ (id = i1 \/ 0 \notin S) THEN 1 ELSE 0]]

BothShards == [n \in Node |-> {0, 1}]

(* n2 was killed while it created the collection, and lacks shard 1.       *)
ShardMissing == [n \in Node |-> IF n = n2 THEN {0} ELSE {0, 1}]

(* So was n3, between the directory of shard 1 and its segment.            *)
SegmentMissing == [n \in Node |-> IF n = n1 THEN {0, 1} ELSE {0}]

(* n2 joined through n1, and created its collection after that: n1 has     *)
(* remote shards, n2 has none.                                             *)
JoinedOnce == [n \in Node |-> IF n = n1 THEN <<n2>> ELSE <<>>]

(* All three know each other.                                              *)
Three == [n \in Node |-> CASE n = n1 -> <<n3, n2>>
                           [] n = n2 -> <<n1, n3>>
                           [] OTHER -> <<n1, n2>>]

Pt(i, v) == [id |-> i, payload |-> v]

(* One batch over both shards and one over a shard.                        *)
TwoBatches ==
  [o \in Op |-> IF o = o1 THEN {Pt(i1, a), Pt(u1, a)} ELSE {Pt(i1, b)}]

Serially == [o \in Op |-> IF o = o1 THEN {} ELSE {o1}]

Freely == [o \in Op |-> {}]
=============================================================================
