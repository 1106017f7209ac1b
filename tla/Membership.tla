----------------------------- MODULE Membership -----------------------------
(***************************************************************************)
(* How peers learn of each other. A peer that is started with --bootstrap  *)
(* calls add_peer_to_known at a member from its consensus thread. The      *)
(* member adds the caller to its peers and, as a remote shard, to its      *)
(* collections, and answers with all the peers it knows; the caller adds   *)
(* those in the same way, and its thread goes on to serve a queue of       *)
(* messages. Both tables are in memory only: a restart begins with none.   *)
(***************************************************************************)
EXTENDS Naturals, Sequences

CONSTANTS
  Node,
  Named,         \* peers started with --peer-id: the others draw an id
  Bootstrap,     \* Bootstrap[n]: the peer at n's --bootstrap, or None
  Collection,    \* names of collections
  InitHeld,      \* InitHeld[n]: collections on n's disk at first
  MaxCrash,      \* bound on the crashes of a behaviour
  MaxEvents,     \* bound on the messages sent to threads, and the
                 \* collections created and deleted, of a behaviour
  None           \* no peer

(* <<n, k>> is the process of n's start after k restarts.                  *)
Process == Node \X (0..MaxCrash)

(* An id that is drawn at start names one process, an id that is given     *)
(* names all processes of a peer.                                          *)
PeerId == Process
IdOf(p) == IF p[1] \in Named THEN <<p[1], 0>> ELSE p

ASSUME MembershipAssumption ==
  /\ Named \subseteq Node
  /\ None \notin Node \cup PeerId
  /\ Bootstrap \in [Node -> Node \cup {None}]
  /\ \A n \in Node : Bootstrap[n] # n
  /\ InitHeld \in [Node -> SUBSET Collection]
  /\ MaxCrash \in Nat
  /\ MaxEvents \in Nat

VARIABLES
  up,        \* up[n]: n's process runs
  life,      \* life[n]: number of n's restarts
  peers,     \* peers[n]: ids in Persistent::peers
  remotes,   \* remotes[n][c]: peers of the remote shards of n's collection c
  fresh,     \* fresh[n]: collections created since n's process started
  thread,    \* thread[n]: where the consensus thread is
  call,      \* call[p]: the add_peer_to_known that process p sent
  inbox,     \* inbox[n]: messages in the thread's channel, oldest first
  events,    \* number of messages, creates and deletes so far
  crashes    \* number of crashes so far

process == <<up, life>>
tables == <<peers, remotes, fresh>>
counts == <<events, crashes>>

vars == <<process, tables, thread, call, inbox, counts>>

-----------------------------------------------------------------------------

Me(n) == <<n, life[n]>>
MyId(n) == IdOf(Me(n))

(* The loop only tells messages that it accepts from those it refuses.     *)
Message == {"accepted", "refused"}

(* A thread: todo are the peers of the answer that it has yet to add, and  *)
(* of these it has added cur to its peers, but not to its collections.     *)
At(st) == [st |-> st, todo |-> {}, cur |-> None]

StartThread(n) == At(IF Bootstrap[n] = None THEN "loop" ELSE "boot")

(* A call: the process that was called, and its answer until it is taken.  *)
NotCalled == [st |-> "none", at |-> None, answer |-> {}]
Lost == [NotCalled EXCEPT !.st = "lost"]

AddTo(held, id) == [c \in DOMAIN held |-> held[c] \cup {id}]

Init ==
  /\ up = [n \in Node |-> TRUE]
  /\ life = [n \in Node |-> 0]
  /\ peers = [n \in Node |-> {<<n, 0>>}]
  /\ remotes = [n \in Node |-> [c \in InitHeld[n] |-> {}]]
  /\ fresh = [n \in Node |-> {}]
  /\ thread = [n \in Node |-> StartThread(n)]
  /\ call = [p \in Process |-> NotCalled]
  /\ inbox = [n \in Node |-> <<>>]
  /\ events = 0
  /\ crashes = 0

-----------------------------------------------------------------------------
(* The caller: Consensus::bootstrap.                                       *)

Ask(n) ==
  /\ up[n] /\ thread[n].st = "boot"
  /\ up[Bootstrap[n]]
  /\ call' = [call EXCEPT ![Me(n)] =
       [st |-> "sent", at |-> Me(Bootstrap[n]), answer |-> {}]]
  /\ thread' = [thread EXCEPT ![n] = At("waiting")]
  /\ UNCHANGED <<process, tables, inbox, counts>>

(* The thread ends, and the receiver with what is in its channel goes.     *)
Ends(n) ==
  /\ thread' = [thread EXCEPT ![n] = At("dead")]
  /\ inbox' = [inbox EXCEPT ![n] = <<>>]

(* A fault: the connection has no timeout.                                 *)
FailsIfRefused(n) ==
  /\ up[n] /\ thread[n].st = "boot" /\ ~up[Bootstrap[n]]
  /\ Ends(n)
  /\ UNCHANGED <<process, tables, call, counts>>

(* No connection, an error, or no answer in time: the thread panics.       *)
BootstrapFails(n) ==
  /\ up[n] /\ thread[n].st \in {"boot", "waiting"}
  /\ Ends(n)
  /\ UNCHANGED <<process, tables, call, counts>>

(* A fault: the caller adds itself as well.                                *)
ReceivesAll(n) ==
  /\ up[n] /\ thread[n].st = "waiting" /\ call[Me(n)].st = "answered"
  /\ thread' = [thread EXCEPT ![n] =
       [st |-> "adding", todo |-> call[Me(n)].answer, cur |-> None]]
  /\ call' = [call EXCEPT ![Me(n)].st = "taken", ![Me(n)].answer = {}]
  /\ UNCHANGED <<process, tables, inbox, counts>>

Receive(n) ==
  /\ up[n] /\ thread[n].st = "waiting" /\ call[Me(n)].st = "answered"
  /\ thread' = [thread EXCEPT ![n] =
       [st |-> "adding", todo |-> call[Me(n)].answer \ {MyId(n)},
        cur |-> None]]
  /\ call' = [call EXCEPT ![Me(n)].st = "taken", ![Me(n)].answer = {}]
  /\ UNCHANGED <<process, tables, inbox, counts>>

(* The answer is sorted by ids, whose order may be any.                    *)
Add(n) ==
  /\ up[n] /\ thread[n].st = "adding" /\ thread[n].cur = None
  /\ \E id \in thread[n].todo :
       /\ peers' = [peers EXCEPT ![n] = @ \cup {id}]
       /\ thread' = [thread EXCEPT ![n] =
            [st |-> "adding", todo |-> @.todo \ {id}, cur |-> id]]
  /\ UNCHANGED <<process, remotes, fresh, call, inbox, counts>>

(* Under the read lock of the map nobody creates or deletes a collection.  *)
Link(n) ==
  /\ up[n] /\ thread[n].st = "adding" /\ thread[n].cur # None
  /\ remotes' = [remotes EXCEPT ![n] = AddTo(@, thread[n].cur)]
  /\ thread' = [thread EXCEPT ![n].cur = None]
  /\ UNCHANGED <<process, peers, fresh, call, inbox, counts>>

StartLoop(n) ==
  /\ up[n] /\ thread[n].st = "adding"
  /\ thread[n].cur = None /\ thread[n].todo = {}
  /\ thread' = [thread EXCEPT ![n] = At("loop")]
  /\ UNCHANGED <<process, tables, call, inbox, counts>>

-----------------------------------------------------------------------------
(* The member: RaftService::add_peer_to_known.                             *)

Member(p) == call[p].at[1]

(* The handler of p's call runs, in the process that was called.           *)
Handles(p, st) ==
  /\ call[p].st = st
  /\ up[Member(p)] /\ call[p].at = Me(Member(p))

AddPeer(p) ==
  /\ Handles(p, "sent")
  /\ peers' = [peers EXCEPT ![Member(p)] = @ \cup {IdOf(p)}]
  /\ call' = [call EXCEPT ![p].st = "added"]
  /\ UNCHANGED <<process, remotes, fresh, thread, inbox, counts>>

(* Under the write lock of the map.                                        *)
AddRemoteShards(p) ==
  /\ Handles(p, "added")
  /\ remotes' = [remotes EXCEPT ![Member(p)] = AddTo(@, IdOf(p))]
  /\ call' = [call EXCEPT ![p].st = "linked"]
  /\ UNCHANGED <<process, peers, fresh, thread, inbox, counts>>

(* A fault: the member answers when it has added the caller to its peers.  *)
AnswersAtOnce(p) ==
  /\ Handles(p, "added")
  /\ call' = [call EXCEPT ![p].st = "answered", ![p].answer = peers[Member(p)]]
  /\ UNCHANGED <<process, tables, thread, inbox, counts>>

(* A fault: the member tells of itself only.                               *)
AnswersItself(p) ==
  /\ Handles(p, "linked")
  /\ call' = [call EXCEPT ![p].st = "answered",
                          ![p].answer = {IdOf(call[p].at), IdOf(p)}]
  /\ UNCHANGED <<process, tables, thread, inbox, counts>>

Answer(p) ==
  /\ Handles(p, "linked")
  /\ call' = [call EXCEPT ![p].st = "answered", ![p].answer = peers[Member(p)]]
  /\ UNCHANGED <<process, tables, thread, inbox, counts>>

(* The request is lost, the handler is dropped between two awaits, or the  *)
(* answer is lost. What the handler did before stays.                      *)
Lose(p) ==
  /\ call[p].st \in {"sent", "added", "linked", "answered"}
  /\ call' = [call EXCEPT ![p] = Lost]
  /\ UNCHANGED <<process, tables, thread, inbox, counts>>

-----------------------------------------------------------------------------
(* The message queue of the thread. With a dead thread each send fails:    *)
(* peer/add panics in its handler, an RPC answers with an error.           *)

Send(n, m) ==
  /\ up[n] /\ thread[n].st # "dead" /\ events < MaxEvents
  /\ inbox' = [inbox EXCEPT ![n] = Append(@, m)]
  /\ events' = events + 1
  /\ UNCHANGED <<process, tables, thread, call, crashes>>

SubmitConsensusOp(n) == Send(n, "accepted")

(* RaftService::send. RawNode::step refuses some messages, such as answers *)
(* from peers it does not know.                                            *)
SendRaft(n) == \E m \in Message : Send(n, m)

(* One round of run_loop with a message. A round without one ticks the     *)
(* Raft node, which nothing else looks at.                                 *)
Handle(n) ==
  /\ up[n] /\ thread[n].st = "loop" /\ inbox[n] # <<>>
  /\ \/ /\ Head(inbox[n]) # "refused"
        /\ inbox' = [inbox EXCEPT ![n] = Tail(@)]
        /\ UNCHANGED thread
     \/ /\ Head(inbox[n]) = "refused"
        /\ Ends(n)
  /\ UNCHANGED <<process, tables, call, counts>>

-----------------------------------------------------------------------------
(* Collections and processes.                                              *)

(* The last step of a create: a new collection has no remote shards.       *)
Create(n, c) ==
  /\ up[n] /\ c \notin DOMAIN remotes[n] /\ events < MaxEvents
  /\ remotes' = [remotes EXCEPT ![n] =
       [d \in DOMAIN @ \cup {c} |-> IF d = c THEN {} ELSE @[d]]]
  /\ fresh' = [fresh EXCEPT ![n] = @ \cup {c}]
  /\ events' = events + 1
  /\ UNCHANGED <<process, peers, thread, call, inbox, crashes>>

Delete(n, c) ==
  /\ up[n] /\ c \in DOMAIN remotes[n] /\ events < MaxEvents
  /\ remotes' = [remotes EXCEPT ![n] = [d \in DOMAIN @ \ {c} |-> @[d]]]
  /\ fresh' = [fresh EXCEPT ![n] = @ \ {c}]
  /\ events' = events + 1
  /\ UNCHANGED <<process, peers, thread, call, inbox, crashes>>

(* The tables are in memory. Connections break: a call that the process    *)
(* serves fails.                                                           *)
Crash(n) ==
  /\ up[n] /\ crashes < MaxCrash
  /\ up' = [up EXCEPT ![n] = FALSE]
  /\ peers' = [peers EXCEPT ![n] = {}]
  /\ remotes' = [remotes EXCEPT ![n] = [c \in DOMAIN @ |-> {}]]
  /\ fresh' = [fresh EXCEPT ![n] = {}]
  /\ Ends(n)
  /\ call' = [p \in Process |->
       IF call[p].at = Me(n) /\ call[p].st \in {"sent", "added", "linked"}
       THEN Lost ELSE call[p]]
  /\ crashes' = crashes + 1
  /\ UNCHANGED <<life, events>>

(* A fault: the table has the id of the first start.                       *)
KeepsFirstId(n) ==
  /\ ~up[n]
  /\ up' = [up EXCEPT ![n] = TRUE]
  /\ life' = [life EXCEPT ![n] = @ + 1]
  /\ peers' = [peers EXCEPT ![n] = {<<n, 0>>}]
  /\ thread' = [thread EXCEPT ![n] = StartThread(n)]
  /\ UNCHANGED <<remotes, fresh, call, inbox, counts>>

(* main: a table of its own id, the collections as they are on disk, and a *)
(* thread.                                                                 *)
Restart(n) ==
  /\ ~up[n]
  /\ up' = [up EXCEPT ![n] = TRUE]
  /\ life' = [life EXCEPT ![n] = @ + 1]
  /\ peers' = [peers EXCEPT ![n] = {IdOf(<<n, life[n] + 1>>)}]
  /\ thread' = [thread EXCEPT ![n] = StartThread(n)]
  /\ UNCHANGED <<remotes, fresh, call, inbox, counts>>

-----------------------------------------------------------------------------

ThreadStep(n) ==
  Ask(n) \/ BootstrapFails(n) \/ Receive(n) \/ Add(n) \/ Link(n)
    \/ StartLoop(n) \/ Handle(n)

HandlerStep(p) == AddPeer(p) \/ AddRemoteShards(p) \/ Answer(p) \/ Lose(p)

Next ==
  \/ \E n \in Node : ThreadStep(n) \/ SubmitConsensusOp(n) \/ SendRaft(n)
  \/ \E p \in Process : HandlerStep(p)
  \/ \E n \in Node, c \in Collection : Create(n, c) \/ Delete(n, c)
  \/ \E n \in Node : Crash(n) \/ Restart(n)

Spec == Init /\ [][Next]_vars

(* The thread runs on, and its connection has a timeout of ten seconds. A  *)
(* member need not answer.                                                 *)
FairSpec == Spec /\ \A n \in Node : WF_vars(ThreadStep(n))
-----------------------------------------------------------------------------
(* Properties.                                                             *)

(* Remote shards of some of the collections.                               *)
Held == UNION {[C -> SUBSET PeerId] : C \in SUBSET Collection}

Thread ==
  [st : {"boot", "waiting", "adding", "loop", "dead"},
   todo : SUBSET PeerId, cur : PeerId \cup {None}]

Call ==
  [st : {"none", "sent", "added", "linked", "answered", "taken", "lost"},
   at : Process \cup {None}, answer : SUBSET PeerId]

(* Types; a process has its own id in its table, a stopped one has nothing *)
(* in memory, and a thread only adds peers in its bootstrap.               *)
TypeOK ==
  /\ up \in [Node -> BOOLEAN]
  /\ life \in [Node -> 0..MaxCrash]
  /\ peers \in [Node -> SUBSET PeerId]
  /\ remotes \in [Node -> Held]
  /\ fresh \in [Node -> SUBSET Collection]
  /\ thread \in [Node -> Thread]
  /\ call \in [Process -> Call]
  /\ inbox \in [Node -> Seq(Message)]
  /\ events \in 0..MaxEvents
  /\ crashes \in 0..MaxCrash
  /\ \A n \in Node :
       /\ IF up[n] THEN MyId(n) \in peers[n] ELSE peers[n] = {}
       /\ fresh[n] \subseteq DOMAIN remotes[n]
       /\ thread[n].st # "adding" => thread[n] = At(thread[n].st)

(* The remote shards of a peer are on peers of its table, and not on the   *)
(* process itself: a write counts one copy for itself and one for each.    *)
(* Bootstrap and add_peer_to_known fill the two tables one after the other *)
(* and beside each other. A peer that draws its ids may still find itself  *)
(* among the remotes, under the id of an earlier start; one that was given *)
(* its id never does.                                                      *)
RemotesAreKnownPeers ==
  \A n \in Node : \A c \in DOMAIN remotes[n] : \A id \in remotes[n][c] :
    /\ id \in peers[n]
    /\ id[1] = n => n \notin Named /\ id[2] < life[n]

(* The collections that a process has had since its start.                 *)
Old(n) == DOMAIN remotes[n] \ fresh[n]

(* n knows the peer id, and has it as a remote in its old collections.     *)
Knows(n, id) == id \in peers[n] /\ \A c \in Old(n) : id \in remotes[n][c]

Joined(n) == up[n] /\ thread[n].st = "loop" /\ call[Me(n)].st = "taken"

(* When a bootstrap is over and the member's process still runs, the two   *)
(* know each other, and writes of either to an old collection go to the    *)
(* other: add_peer_to_known and bootstrap have covered all collections,    *)
(* also with others that join, create and delete in between.               *)
JoinedIsLinked ==
  \A n \in Node :
    LET m == Bootstrap[n] IN
    Joined(n) /\ up[m] /\ call[Me(n)].at = Me(m) =>
      Knows(m, MyId(n)) /\ Knows(n, MyId(m))

(* Of two peers that joined through the same process of a member, at least *)
(* one knows the other: the one that was answered later. It holds after    *)
(* the member's end, as add_peer_to_known adds the caller before it reads  *)
(* the peers of its answer.                                                *)
JoinersMeet ==
  \A n, q \in Node :
    n # q /\ Joined(n) /\ Joined(q) /\ call[Me(n)].at = call[Me(q)].at =>
      Knows(n, MyId(q)) \/ Knows(q, MyId(n))

(* A consensus thread does not hang in its bootstrap, whatever is lost and *)
(* whoever crashes: it ends up in its loop, or panics at the timeout.      *)
BootstrapEnds ==
  \A n \in {m \in Node : Bootstrap[m] # None} :
    thread[n].st \in {"boot", "waiting", "adding"} ~>
      thread[n].st \in {"loop", "dead"} \/ ~up[n]

(* consensus.rs:160 says that the consensus thread runs until the program  *)
(* exits.                                                                  *)
ThreadRuns == \A n \in Node : up[n] => thread[n].st # "dead"
=============================================================================
