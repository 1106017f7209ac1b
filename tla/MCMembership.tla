---------------------------- MODULE MCMembership ----------------------------
(* Instances of Membership for TLC: a member, and peers that join it.      *)
EXTENDS Membership

CONSTANTS s, j1, j2, c1

(* The others bootstrap from s.                                            *)
Star == [n \in Node |-> IF n = s THEN None ELSE s]

(* A collection that s and j1 have from the start.                         *)
OneHeld == [n \in Node |-> IF n = j2 THEN {} ELSE {c1}]
=============================================================================
