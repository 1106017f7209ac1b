-------------------------- MODULE UpsertRefinement --------------------------
(* The write path implements AckedWrites: the mapping of its state.        *)
EXTENDS Upsert

Outcome(t) ==
  CASE task[t].st = "idle" -> "new"
    [] task[t].st = "ok" -> "acked"
    [] task[t].st \in {"err", "gone"} -> "failed"
    [] OTHER -> "running"

Acked == INSTANCE AckedWrites WITH
  Shared <- [id : NumericId, payload : Payload],
  durable <- [n \in Node |-> {p \in Point : HoldsDurably(n, p)}],
  linked <- [n \in Node |-> remotes[n] # <<>>],
  status <- [o \in Op |-> Outcome(o)],
  home <- [o \in Op |-> task[o].node]

(* Every step of the write path, an insert, an RPC, a flush that also      *)
(* covers what others inserted, a crash, is a step of AckedWrites or one   *)
(* that it does not see. So a point on a disk is one that was sent there,  *)
(* a disk loses nothing, and a request's outcome is decided once, after    *)
(* its points are where the answer says they are.                          *)
ImplementsAckedWrites == Acked!Spec
=============================================================================
