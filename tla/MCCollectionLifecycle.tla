----------------------- MODULE MCCollectionLifecycle -----------------------
(* Instances of CollectionLifecycle for TLC.                               *)
EXTENDS CollectionLifecycle

CONSTANTS c1, c2, c3, c4, d1, d2, d3

(* The creates do not overlap; two deletes run whenever they like. A third  *)
(* delete and a last create come after everything before them is over.     *)
CreatesInOrder ==
  [q \in Request |-> CASE q = c2 -> {c1}
                       [] q = c3 -> {c1, c2}
                       [] q = d3 -> {c1, c2, c3, d1, d2}
                       [] q = c4 -> {c1, c2, c3, d1, d2, d3}
                       [] OTHER -> {}]

Freely == [q \in Request |-> {}]
=============================================================================
