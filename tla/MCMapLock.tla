----------------------------- MODULE MCMapLock -----------------------------
(* Two peers for TLC: a request for points at each, and on the way of each *)
(* those that write to its map or to its replica holders.                  *)
EXTENDS MapLock

CONSTANTS n1, n2, coll1, p1, p2, make1, add1, link1

MCPeerOf == [t \in Request |-> IF t \in {p2, add1} THEN n2 ELSE n1]

MCCollOf == [t \in Request |-> coll1]

MCNewPeer == [t \in Linker |-> IF t = add1 THEN n1 ELSE n2]

MCLoaded == [n \in Node |-> {coll1}]

(* n1 has heard of n2; n2 has not heard of n1.                             *)
MCInitRemotes == [n \in Node |-> IF n = n1 THEN {n2} ELSE {}]
=============================================================================
