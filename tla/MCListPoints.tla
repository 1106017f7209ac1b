---------------------------- MODULE MCListPoints ----------------------------
(* Instances of ListPoints for TLC: two peers, of which n2 lacks a shard,  *)
(* and a hash ring that puts i1 into the highest shard there is and the    *)
(* other ids into the lowest.                                              *)
EXTENDS ListPoints

CONSTANTS n1, n2, i1, i2, a, b, o1, o2

Highest(S) == CHOOSE x \in S : \A y \in S : y <= x

Lowest(S) == CHOOSE x \in S : \A y \in S : x <= y

MCRing ==
  [S \in SUBSET Shard |->
     [id \in PointId |->
        IF S = {} THEN 0 ELSE IF id = i1 THEN Highest(S) ELSE Lowest(S)]]

(* At n1, which has one shard more, i1 is in that one.                     *)
OneMissing == [n \in Node |-> IF n = n1 THEN {0, 1, 2} ELSE {0, 1}]

(* At n2, which has a shard less, i1 is in the same one as at n1.          *)
LowestMissing == [n \in Node |-> IF n = n1 THEN {0, 1} ELSE {1}]

JoinedOnce == [n \in Node |-> IF n = n1 THEN <<n2>> ELSE <<>>]

Mutual == [n \in Node |-> IF n = n1 THEN <<n2>> ELSE <<n1>>]

(* One request writes an id of either shard.                               *)
OneBatch == [o \in Op |-> [id : {i1, i2}, payload : {a}]]

Rewrites == [o \in Op |-> {[id |-> i1, payload |-> IF o = o1 THEN a ELSE b]}]

Serially == [o \in Op |-> IF o = o1 THEN {} ELSE {o1}]

Freely == [o \in Op |-> {}]
=============================================================================
