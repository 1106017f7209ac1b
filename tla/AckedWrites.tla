---------------------------- MODULE AckedWrites ----------------------------
(***************************************************************************)
(* What a PUT of points promises, without shards, logs, batches in flight  *)
(* or remote calls: peers write points of the requests that were taken up  *)
(* to their disks, at any time and in any order, and a request is          *)
(* acknowledged only when enough disks have it.                            *)
(***************************************************************************)
CONSTANTS Node, Op, Point, Batch,
          Shared,   \* the points that are sent to other replicas
          None      \* no peer

VARIABLES
  durable,   \* durable[n]: points that n wrote to disk
  linked,    \* linked[n]: n knows another replica
  status,    \* status[o]: "new", "running", "acked" or "failed"
  home       \* home[o]: the peer that took o up

vars == <<durable, linked, status, home>>

Init ==
  /\ durable = [n \in Node |-> {}]
  /\ linked \in [Node -> BOOLEAN]
  /\ status = [o \in Op |-> "new"]
  /\ home = [o \in Op |-> None]

(* A request is taken up by a peer, which may refuse it at once.           *)
Start(o, n) ==
  /\ status[o] = "new"
  /\ \E st \in {"running", "failed"} : status' = [status EXCEPT ![o] = st]
  /\ home' = [home EXCEPT ![o] = n]
  /\ UNCHANGED <<durable, linked>>

(* The points that may reach n's disk: those it was sent by a client, and  *)
(* the shared ones of any request a peer took up.                          *)
Arrived(n) ==
  UNION {IF home[o] = n THEN Batch[o] ELSE Batch[o] \cap Shared :
           o \in {q \in Op : status[q] # "new"}}

Persist(n) ==
  /\ \E P \in SUBSET Arrived(n) : durable' = [durable EXCEPT ![n] = @ \cup P]
  /\ UNCHANGED <<linked, status, home>>

(* The points of o are on its home's disk, and the shared ones on another. *)
Replicated(o) ==
  /\ Batch[o] \subseteq durable[home[o]]
  /\ linked[home[o]] =>
       \A p \in Batch[o] \cap Shared :
         \E m \in Node \ {home[o]} : p \in durable[m]

Ack(o) ==
  /\ status[o] = "running"
  /\ Replicated(o)
  /\ status' = [status EXCEPT ![o] = "acked"]
  /\ UNCHANGED <<durable, linked, home>>

Fail(o) ==
  /\ status[o] = "running"
  /\ status' = [status EXCEPT ![o] = "failed"]
  /\ UNCHANGED <<durable, linked, home>>

(* A peer dies: it fails what it runs, and loses nothing that is on disk.  *)
Halt(n) ==
  /\ \E P \in SUBSET Arrived(n) : durable' = [durable EXCEPT ![n] = @ \cup P]
  /\ status' = [o \in Op |-> IF status[o] = "running" /\ home[o] = n
                             THEN "failed" ELSE status[o]]
  /\ UNCHANGED <<linked, home>>

(* A peer learns of replicas, or forgets them, while it runs no request.   *)
Relearn(n) ==
  /\ \A o \in Op : status[o] = "running" => home[o] # n
  /\ \E k \in BOOLEAN : linked' = [linked EXCEPT ![n] = k]
  /\ UNCHANGED <<durable, status, home>>

Next ==
  \/ \E o \in Op : Ack(o) \/ Fail(o)
  \/ \E o \in Op, n \in Node : Start(o, n)
  \/ \E n \in Node : Persist(n) \/ Halt(n) \/ Relearn(n)

Spec == Init /\ [][Next]_vars
=============================================================================
