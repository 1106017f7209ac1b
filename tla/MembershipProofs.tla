-------------------------- MODULE MembershipProofs --------------------------
(* Proofs about Membership: types, and who knows whom when bootstraps are  *)
(* over.                                                                   *)
EXTENDS Membership, TLAPS

(* A table of remote shards is a function from some of the collections.    *)
LEMMA HeldElim ==
  ASSUME NEW h \in Held
  PROVE  /\ DOMAIN h \subseteq Collection
         /\ h = [c \in DOMAIN h |-> h[c]]
         /\ \A c \in DOMAIN h : h[c] \subseteq PeerId
<1>1. PICK C \in SUBSET Collection : h \in [C -> SUBSET PeerId]
  BY DEF Held
<1>. QED
  BY <1>1

LEMMA HeldIntro ==
  ASSUME NEW C \in SUBSET Collection, NEW h \in [C -> SUBSET PeerId]
  PROVE  h \in Held
BY DEF Held

LEMMA AddToHeld ==
  ASSUME NEW h \in Held, NEW id \in PeerId
  PROVE  AddTo(h, id) \in Held
<1>1. AddTo(h, id) \in [DOMAIN h -> SUBSET PeerId]
  BY HeldElim DEF AddTo
<1>. QED
  BY <1>1, HeldElim, HeldIntro

LEMMA EmptyHeld ==
  ASSUME NEW C \in SUBSET Collection
  PROVE  [c \in C |-> {}] \in Held
<1>1. [c \in C |-> {}] \in [C -> SUBSET PeerId]
  OBVIOUS
<1>. QED
  BY <1>1, HeldIntro

LEMMA IdType ==
  ASSUME NEW p \in Process
  PROVE  IdOf(p) \in PeerId /\ IdOf(p)[1] = p[1]
BY MembershipAssumption DEF IdOf, PeerId, Process

-----------------------------------------------------------------------------
(* Types.                                                                  *)

(* Processes run one after the other, no more of them than crashes allow;  *)
(* one that bootstraps has a peer to bootstrap from, and calls it.         *)
StartsOK ==
  /\ \A n \in Node :
       /\ life[n] + (IF up[n] THEN 0 ELSE 1) <= crashes
       /\ thread[n].st \in {"boot", "waiting"} => Bootstrap[n] \in Node
  /\ \A p \in Process :
       call[p].st \notin {"none", "lost"} =>
         call[p].at \in Process /\ Member(p) = Bootstrap[p[1]]

LEMMA MeType ==
  ASSUME TypeOK, NEW n \in Node
  PROVE  Me(n) \in Process /\ Me(n)[1] = n /\ Me(n)[2] = life[n]
BY DEF TypeOK, Me, Process

LEMMA AtType ==
  ASSUME NEW st \in {"boot", "waiting", "adding", "loop", "dead"}
  PROVE  At(st) \in Thread /\ At(st).st = st
BY DEF At, Thread

LEMMA StartThreadType ==
  ASSUME NEW n \in Node
  PROVE  /\ StartThread(n) \in Thread
         /\ StartThread(n) = At(StartThread(n).st)
         /\ StartThread(n).st = "loop" \/ Bootstrap[n] \in Node
         /\ StartThread(n).st \in {"boot", "loop"}
<1>1. Bootstrap[n] \in Node \cup {None}
  BY MembershipAssumption DEF MembershipAssumption
<1>2. At("loop") \in Thread /\ At("loop").st = "loop"
  BY AtType
<1>3. At("boot") \in Thread /\ At("boot").st = "boot"
  BY AtType
<1>. QED
  BY <1>1, <1>2, <1>3 DEF StartThread

LEMMA InitType == Init => TypeOK /\ StartsOK
<1>. SUFFICES ASSUME Init PROVE TypeOK /\ StartsOK
  OBVIOUS
<1>. USE MembershipAssumption DEF MembershipAssumption
<1>2. /\ thread \in [Node -> Thread]
      /\ \A n \in Node : thread[n] = At(thread[n].st)
  BY StartThreadType DEF Init
<1>3. remotes \in [Node -> Held]
  BY EmptyHeld DEF Init
<1>4. call \in [Process -> Call]
  BY DEF Init, NotCalled, Call
<1>5. \A n \in Node : <<n, 0>> \in Process /\ IdOf(<<n, 0>>) = <<n, 0>>
  <2>1. 0 \in 0..MaxCrash
    OBVIOUS
  <2>2. \A n \in Node : <<n, 0>> \in Process
    BY <2>1 DEF Process
  <2>3. \A n \in Node : <<n, 0>>[1] = n
    OBVIOUS
  <2>. QED
    BY <2>2, <2>3 DEF IdOf
<1>6. \A n \in Node : up[n] /\ MyId(n) \in peers[n] /\ fresh[n] = {}
  BY <1>5 DEF Init, MyId, Me
<1>7. peers \in [Node -> SUBSET PeerId] /\ inbox \in [Node -> Seq(Message)]
  BY <1>5 DEF Init, PeerId
<1>8. StartsOK /\ life \in [Node -> 0..MaxCrash]
  BY StartThreadType DEF Init, StartsOK, NotCalled
<1>. QED
  BY <1>2, <1>3, <1>4, <1>6, <1>7, <1>8 DEF Init, TypeOK

(* The steps of a bootstrap.                                               *)
LEMMA AskType ==
  ASSUME TypeOK, StartsOK, NEW n \in Node, Ask(n)
  PROVE  TypeOK' /\ StartsOK'
<1>. USE DEF Ask, process, tables, counts
<1>1. At("waiting") \in Thread /\ At("waiting").st = "waiting"
  BY AtType
<1>2. thread' \in [Node -> Thread]
  BY <1>1 DEF TypeOK
<1>3. Bootstrap[n] \in Node
  BY DEF StartsOK
<1>4. call' \in [Process -> Call]
  <2>1. [st |-> "sent", at |-> Me(Bootstrap[n]), answer |-> {}] \in Call
    BY <1>3, MeType DEF Call
  <2>. QED
    BY <2>1 DEF TypeOK
<1>5. \A m \in Node :
        /\ (life[m] + (IF up[m] THEN 0 ELSE 1) <= crashes)'
        /\ thread'[m].st \in {"boot", "waiting"} => Bootstrap[m] \in Node
  BY <1>1, <1>3 DEF StartsOK, TypeOK
<1>6. \A p \in Process :
        call'[p].st \notin {"none", "lost"} =>
          call'[p].at \in Process /\ Member(p)' = Bootstrap[p[1]]
  BY <1>3, MeType DEF StartsOK, TypeOK, Member
<1>. QED
  BY <1>1, <1>2, <1>4, <1>5, <1>6 DEF TypeOK, StartsOK, MyId, Me

LEMMA EndsType ==
  ASSUME TypeOK, StartsOK, NEW n \in Node, Ends(n),
         UNCHANGED <<process, tables, call, counts>>
  PROVE  TypeOK' /\ StartsOK'
<1>. USE DEF Ends, process, tables, counts
<1>1. At("dead") \in Thread /\ At("dead").st = "dead"
  BY AtType
<1>2. thread' \in [Node -> Thread] /\ inbox' \in [Node -> Seq(Message)]
  BY <1>1 DEF TypeOK
<1>3. StartsOK'
  BY <1>1 DEF StartsOK, TypeOK, Member
<1>. QED
  BY <1>1, <1>2, <1>3 DEF TypeOK, MyId, Me

LEMMA ReceiveType ==
  ASSUME TypeOK, StartsOK, NEW n \in Node, Receive(n)
  PROVE  TypeOK' /\ StartsOK'
<1>. USE DEF Receive, process, tables, counts
<1>1. Me(n) \in Process /\ call[Me(n)] \in Call
  BY MeType DEF TypeOK
<1>2. thread' \in [Node -> Thread]
  BY <1>1 DEF TypeOK, Thread, Call
<1>3. call' \in [Process -> Call]
  BY <1>1 DEF TypeOK, Call
<1>4. StartsOK'
  BY <1>1 DEF StartsOK, TypeOK, Call, Member
<1>. QED
  BY <1>2, <1>3, <1>4 DEF TypeOK, MyId, Me

LEMMA AddType ==
  ASSUME TypeOK, StartsOK, NEW n \in Node, Add(n)
  PROVE  TypeOK' /\ StartsOK'
<1>. USE DEF Add, process, tables, counts
<1>1. PICK id \in thread[n].todo :
        /\ peers' = [peers EXCEPT ![n] = @ \cup {id}]
        /\ thread' = [thread EXCEPT ![n] =
             [st |-> "adding", todo |-> @.todo \ {id}, cur |-> id]]
  OBVIOUS
<1>2. thread[n] \in Thread /\ id \in PeerId
  BY DEF TypeOK, Thread
<1>3. thread' \in [Node -> Thread] /\ peers' \in [Node -> SUBSET PeerId]
  BY <1>1, <1>2 DEF TypeOK, Thread
<1>4. StartsOK'
  BY <1>1 DEF StartsOK, TypeOK, Member
<1>. QED
  BY <1>1, <1>3, <1>4 DEF TypeOK, MyId, Me

LEMMA LinkType ==
  ASSUME TypeOK, StartsOK, NEW n \in Node, Link(n)
  PROVE  TypeOK' /\ StartsOK'
<1>. USE DEF Link, process, tables, counts
<1>1. thread[n] \in Thread /\ thread[n].cur \in PeerId /\ remotes[n] \in Held
  BY DEF TypeOK, Thread
<1>2. thread' \in [Node -> Thread]
  BY <1>1 DEF TypeOK, Thread
<1>3. remotes' \in [Node -> Held]
  BY <1>1, AddToHeld DEF TypeOK
<1>4. DOMAIN remotes'[n] = DOMAIN remotes[n]
  BY DEF TypeOK, AddTo
<1>5. StartsOK'
  BY <1>1 DEF StartsOK, TypeOK, Thread, Member
<1>. QED
  BY <1>1, <1>2, <1>3, <1>4, <1>5 DEF TypeOK, MyId, Me, Thread

LEMMA StartLoopType ==
  ASSUME TypeOK, StartsOK, NEW n \in Node, StartLoop(n)
  PROVE  TypeOK' /\ StartsOK'
<1>. USE DEF StartLoop, process, tables, counts
<1>1. At("loop") \in Thread /\ At("loop").st = "loop"
  BY AtType
<1>2. thread' \in [Node -> Thread]
  BY <1>1 DEF TypeOK
<1>3. StartsOK'
  BY <1>1 DEF StartsOK, TypeOK, Member
<1>. QED
  BY <1>1, <1>2, <1>3 DEF TypeOK, MyId, Me

LEMMA HandleType ==
  ASSUME TypeOK, StartsOK, NEW n \in Node, Handle(n)
  PROVE  TypeOK' /\ StartsOK'
<1>1. CASE Ends(n)
  BY <1>1, EndsType DEF Handle
<1>2. CASE inbox' = [inbox EXCEPT ![n] = Tail(@)] /\ UNCHANGED thread
  <2>. USE <1>2 DEF Handle, process, tables, counts
  <2>1. inbox' \in [Node -> Seq(Message)]
    BY DEF TypeOK
  <2>2. StartsOK'
    BY DEF StartsOK, Member
  <2>. QED
    BY <2>1, <2>2 DEF TypeOK, MyId, Me
<1>. QED
  BY <1>1, <1>2 DEF Handle

(* The steps of a handler.                                                 *)
LEMMA MemberType ==
  ASSUME TypeOK, StartsOK, NEW p \in Process,
         call[p].st \notin {"none", "lost"}
  PROVE  /\ Member(p) \in Node /\ call[p].at \in Process
         /\ Member(p) = Bootstrap[p[1]] /\ Member(p) # p[1]
         /\ p[1] \in Node
<1>1. call[p].at \in Process /\ Member(p) = Bootstrap[p[1]] /\ p[1] \in Node
  BY DEF StartsOK, Process
<1>2. call[p].at[1] \in Node
  BY <1>1 DEF Process
<1>. QED
  BY <1>1, <1>2, MembershipAssumption DEF Member, MembershipAssumption

(* A call that goes from one stage to another.                             *)
LEMMA StageType ==
  ASSUME TypeOK, StartsOK, NEW p \in Process, NEW a \in SUBSET PeerId,
         NEW st \in {"added", "linked", "answered"},
         call[p].st \notin {"none", "lost"},
         call' = [call EXCEPT ![p] = [call[p] EXCEPT !.st = st, !.answer = a]],
         UNCHANGED <<process, thread, counts>>
  PROVE  call' \in [Process -> Call] /\ StartsOK'
<1>1. call[p] \in Call
  BY DEF TypeOK
<1>2. call' \in [Process -> Call]
  BY <1>1 DEF TypeOK, Call
<1>3. call'[p].at = call[p].at
  BY <1>1 DEF TypeOK, Call
<1>. QED
  BY <1>2, <1>3 DEF StartsOK, TypeOK, Member, process, counts

LEMMA AddPeerType ==
  ASSUME TypeOK, StartsOK, NEW p \in Process, AddPeer(p)
  PROVE  TypeOK' /\ StartsOK'
<1>. USE DEF AddPeer, Handles, process, tables, counts
<1>1. Member(p) \in Node /\ IdOf(p) \in PeerId /\ call[p] \in Call
  BY MemberType, IdType DEF TypeOK
<1>2. call' = [call EXCEPT ![p] =
        [call[p] EXCEPT !.st = "added", !.answer = call[p].answer]]
  BY <1>1 DEF TypeOK, Call
<1>3. call' \in [Process -> Call] /\ StartsOK'
  BY <1>1, <1>2, StageType DEF Call
<1>. QED
  BY <1>1, <1>3 DEF TypeOK, MyId, Me

LEMMA AddRemoteShardsType ==
  ASSUME TypeOK, StartsOK, NEW p \in Process, AddRemoteShards(p)
  PROVE  TypeOK' /\ StartsOK'
<1>. USE DEF AddRemoteShards, Handles, process, tables, counts
<1>1. Member(p) \in Node /\ IdOf(p) \in PeerId /\ call[p] \in Call
  BY MemberType, IdType DEF TypeOK
<1>2. call' = [call EXCEPT ![p] =
        [call[p] EXCEPT !.st = "linked", !.answer = call[p].answer]]
  BY <1>1 DEF TypeOK, Call
<1>3. call' \in [Process -> Call] /\ StartsOK'
  BY <1>1, <1>2, StageType DEF Call
<1>4. remotes' \in [Node -> Held]
  BY <1>1, AddToHeld DEF TypeOK
<1>5. DOMAIN remotes'[Member(p)] = DOMAIN remotes[Member(p)]
  BY <1>1 DEF TypeOK, AddTo
<1>. QED
  BY <1>1, <1>3, <1>4, <1>5 DEF TypeOK, MyId, Me

LEMMA AnswerType ==
  ASSUME TypeOK, StartsOK, NEW p \in Process, Answer(p)
  PROVE  TypeOK' /\ StartsOK'
<1>. USE DEF Answer, Handles, process, tables, counts
<1>1. Member(p) \in Node /\ call[p] \in Call
  BY MemberType DEF TypeOK
<1>2. call' = [call EXCEPT ![p] =
        [call[p] EXCEPT !.st = "answered", !.answer = peers[Member(p)]]]
  BY <1>1 DEF TypeOK, Call
<1>3. peers[Member(p)] \in SUBSET PeerId
  BY <1>1 DEF TypeOK
<1>4. call' \in [Process -> Call] /\ StartsOK'
  BY <1>1, <1>2, <1>3, StageType
<1>. QED
  BY <1>4 DEF TypeOK, MyId, Me

LEMMA LostType == Lost \in Call /\ Lost.st = "lost"
BY DEF Lost, NotCalled, Call

LEMMA LoseType ==
  ASSUME TypeOK, StartsOK, NEW p \in Process, Lose(p)
  PROVE  TypeOK' /\ StartsOK'
<1>. USE DEF Lose, process, tables, counts
<1>1. call' \in [Process -> Call]
  BY LostType DEF TypeOK
<1>2. StartsOK'
  BY LostType DEF StartsOK, TypeOK, Member
<1>. QED
  BY <1>1, <1>2 DEF TypeOK, MyId, Me

(* Messages, collections, crashes and starts.                              *)
LEMMA SendType ==
  ASSUME TypeOK, StartsOK, NEW n \in Node, NEW m \in Message, Send(n, m)
  PROVE  TypeOK' /\ StartsOK'
<1>. USE DEF Send, process, tables, counts
<1>1. inbox' \in [Node -> Seq(Message)] /\ events' \in 0..MaxEvents
  BY MembershipAssumption DEF TypeOK, MembershipAssumption
<1>2. StartsOK'
  BY DEF StartsOK, Member
<1>. QED
  BY <1>1, <1>2 DEF TypeOK, MyId, Me

LEMMA CreateType ==
  ASSUME TypeOK, StartsOK, NEW n \in Node, NEW c \in Collection, Create(n, c)
  PROVE  TypeOK' /\ StartsOK'
<1>. USE DEF Create, process, tables, counts
<1>. DEFINE h == [d \in DOMAIN remotes[n] \cup {c} |->
                    IF d = c THEN {} ELSE remotes[n][d]]
<1>1. remotes[n] \in Held
  BY DEF TypeOK
<1>2. h \in [DOMAIN remotes[n] \cup {c} -> SUBSET PeerId]
  BY <1>1, HeldElim
<1>3. h \in Held /\ DOMAIN h = DOMAIN remotes[n] \cup {c}
  BY <1>1, <1>2, HeldElim, HeldIntro
<1>4. remotes' = [remotes EXCEPT ![n] = h]
  OBVIOUS
<1>. HIDE DEF h
<1>5. remotes' \in [Node -> Held]
  <2>1. remotes \in [Node -> Held]
    BY DEF TypeOK
  <2>. QED
    BY <1>3, <1>4, <2>1
<1>6. events' \in 0..MaxEvents
  BY MembershipAssumption DEF TypeOK, MembershipAssumption
<1>7. StartsOK'
  BY DEF StartsOK, Member
<1>8. \A m \in Node : fresh'[m] \subseteq DOMAIN remotes'[m]
  BY <1>3, <1>4 DEF TypeOK
<1>. QED
  BY <1>5, <1>6, <1>7, <1>8 DEF TypeOK, MyId, Me

LEMMA DeleteType ==
  ASSUME TypeOK, StartsOK, NEW n \in Node, NEW c \in Collection, Delete(n, c)
  PROVE  TypeOK' /\ StartsOK'
<1>. USE DEF Delete, process, tables, counts
<1>. DEFINE h == [d \in DOMAIN remotes[n] \ {c} |-> remotes[n][d]]
<1>1. remotes[n] \in Held
  BY DEF TypeOK
<1>2. h \in [DOMAIN remotes[n] \ {c} -> SUBSET PeerId]
  BY <1>1, HeldElim
<1>3. h \in Held /\ DOMAIN h = DOMAIN remotes[n] \ {c}
  BY <1>1, <1>2, HeldElim, HeldIntro
<1>4. remotes' = [remotes EXCEPT ![n] = h]
  OBVIOUS
<1>. HIDE DEF h
<1>5. remotes' \in [Node -> Held]
  <2>1. remotes \in [Node -> Held]
    BY DEF TypeOK
  <2>. QED
    BY <1>3, <1>4, <2>1
<1>6. events' \in 0..MaxEvents
  BY MembershipAssumption DEF TypeOK, MembershipAssumption
<1>7. StartsOK'
  BY DEF StartsOK, Member
<1>8. \A m \in Node : fresh'[m] \subseteq DOMAIN remotes'[m]
  BY <1>3, <1>4 DEF TypeOK
<1>. QED
  BY <1>5, <1>6, <1>7, <1>8 DEF TypeOK, MyId, Me

LEMMA CrashType ==
  ASSUME TypeOK, StartsOK, NEW n \in Node, Crash(n)
  PROVE  TypeOK' /\ StartsOK'
<1>. USE DEF Crash, Ends
<1>1. At("dead") \in Thread /\ At("dead").st = "dead"
  BY AtType
<1>2. /\ thread' \in [Node -> Thread] /\ inbox' \in [Node -> Seq(Message)]
      /\ up' \in [Node -> BOOLEAN] /\ peers' \in [Node -> SUBSET PeerId]
      /\ fresh' \in [Node -> SUBSET Collection]
  BY <1>1 DEF TypeOK
<1>3. call' \in [Process -> Call]
  BY LostType DEF TypeOK
<1>4. remotes[n] \in Held
  BY DEF TypeOK
<1>5. [c \in DOMAIN remotes[n] |-> {}] \in Held
  BY <1>4, HeldElim, EmptyHeld
<1>6. remotes' \in [Node -> Held]
  BY <1>5 DEF TypeOK
<1>7. crashes' \in 0..MaxCrash
  BY MembershipAssumption DEF TypeOK, MembershipAssumption
<1>8. \A m \in Node :
        /\ (life[m] + (IF up[m] THEN 0 ELSE 1) <= crashes)'
        /\ thread'[m].st \in {"boot", "waiting"} => Bootstrap[m] \in Node
  BY <1>1, MembershipAssumption DEF StartsOK, TypeOK, MembershipAssumption
<1>9. \A p \in Process : call'[p] = call[p] \/ call'[p].st = "lost"
  BY LostType
<1>10. \A p \in Process :
         call'[p].st \notin {"none", "lost"} =>
           call'[p].at \in Process /\ Member(p)' = Bootstrap[p[1]]
  BY <1>9 DEF StartsOK, Member
<1>11. \A m \in Node :
         /\ IF up'[m] THEN MyId(m)' \in peers'[m] ELSE peers'[m] = {}
         /\ fresh'[m] \subseteq DOMAIN remotes'[m]
         /\ thread'[m].st # "adding" => thread'[m] = At(thread'[m].st)
  BY <1>1 DEF TypeOK, MyId, Me
<1>. QED
  BY <1>2, <1>3, <1>6, <1>7, <1>8, <1>10, <1>11 DEF TypeOK, StartsOK

LEMMA RestartType ==
  ASSUME TypeOK, StartsOK, NEW n \in Node, Restart(n)
  PROVE  TypeOK' /\ StartsOK'
<1>. USE DEF Restart, counts
<1>1. life[n] + 1 \in 0..MaxCrash
  BY MembershipAssumption DEF StartsOK, TypeOK, MembershipAssumption
<1>2. life' \in [Node -> 0..MaxCrash] /\ up' \in [Node -> BOOLEAN]
  BY <1>1 DEF TypeOK
<1>3. <<n, life[n] + 1>> \in Process
  BY <1>1 DEF Process
<1>4. IdOf(<<n, life[n] + 1>>) \in PeerId
  BY <1>3, IdType
<1>5. peers' \in [Node -> SUBSET PeerId]
  BY <1>4 DEF TypeOK
<1>6. thread' \in [Node -> Thread]
  BY StartThreadType DEF TypeOK
<1>7. \A m \in Node :
        /\ (life[m] + (IF up[m] THEN 0 ELSE 1) <= crashes)'
        /\ thread'[m].st \in {"boot", "waiting"} => Bootstrap[m] \in Node
  BY StartThreadType DEF StartsOK, TypeOK
<1>8. StartsOK'
  BY <1>7 DEF StartsOK, Member
<1>9. \A m \in Node :
        /\ IF up'[m] THEN MyId(m)' \in peers'[m] ELSE peers'[m] = {}
        /\ fresh'[m] \subseteq DOMAIN remotes'[m]
        /\ thread'[m].st # "adding" => thread'[m] = At(thread'[m].st)
  BY StartThreadType DEF TypeOK, MyId, Me
<1>. QED
  BY <1>2, <1>5, <1>6, <1>8, <1>9 DEF TypeOK

LEMMA NextType ==
  ASSUME TypeOK, StartsOK, [Next]_vars
  PROVE  TypeOK' /\ StartsOK'
<1>1. CASE \E n \in Node : ThreadStep(n)
  <2>1. PICK n \in Node : ThreadStep(n)
    BY <1>1
  <2>2. ASSUME BootstrapFails(n) PROVE TypeOK' /\ StartsOK'
    BY <2>2, EndsType DEF BootstrapFails, process, tables, counts
  <2>. QED
    BY <2>1, <2>2, AskType, ReceiveType, AddType, LinkType, StartLoopType,
       HandleType DEF ThreadStep
<1>2. CASE \E n \in Node : SubmitConsensusOp(n) \/ SendRaft(n)
  BY <1>2, SendType DEF SubmitConsensusOp, SendRaft, Message
<1>3. CASE \E p \in Process : HandlerStep(p)
  BY <1>3, AddPeerType, AddRemoteShardsType, AnswerType, LoseType
  DEF HandlerStep
<1>4. CASE \E n \in Node, c \in Collection : Create(n, c) \/ Delete(n, c)
  BY <1>4, CreateType, DeleteType
<1>5. CASE \E n \in Node : Crash(n) \/ Restart(n)
  BY <1>5, CrashType, RestartType
<1>6. CASE UNCHANGED vars
  BY <1>6 DEF TypeOK, StartsOK, MyId, Me, Member, vars, process, tables, counts
<1>. QED
  BY <1>1, <1>2, <1>3, <1>4, <1>5, <1>6 DEF Next

(* Every variable keeps its type, a process its own id in its table, and a *)
(* stopped process nothing in memory.                                      *)
THEOREM TypeOKHolds == Spec => []TypeOK
<1>1. Init => TypeOK /\ StartsOK
  BY InitType
<1>2. TypeOK /\ StartsOK /\ [Next]_vars => (TypeOK /\ StartsOK)'
  BY NextType
<1>. QED
  BY <1>1, <1>2, PTL DEF Spec

-----------------------------------------------------------------------------
(* Who knows whom.                                                         *)

(* While a process runs, its tables grow: it forgets no peer, and an old   *)
(* collection no remote shard.                                             *)
Grows(n) ==
  /\ up[n] /\ Me(n)' = Me(n)
  /\ peers[n] \subseteq peers'[n]
  /\ Old(n)' \subseteq Old(n)
  /\ \A c \in Old(n)' : remotes[n][c] \subseteq remotes'[n][c]

LEMMA GrowsWhenLinked ==
  ASSUME TypeOK, NEW n \in Node, NEW m \in Node, up[m], NEW id,
         remotes' = [remotes EXCEPT ![n] = AddTo(@, id)],
         UNCHANGED <<process, peers, fresh>>
  PROVE  Grows(m) /\ (m = n => \A c \in Old(n)' : id \in remotes'[n][c])
<1>1. remotes' = [remotes EXCEPT ![n] = AddTo(remotes[n], id)]
  OBVIOUS
<1>2. /\ DOMAIN AddTo(remotes[n], id) = DOMAIN remotes[n]
      /\ \A c \in DOMAIN remotes[n] :
           AddTo(remotes[n], id)[c] = remotes[n][c] \cup {id}
  BY DEF AddTo
<1>3. remotes'[n] = AddTo(remotes[n], id)
  BY <1>1 DEF TypeOK
<1>4. m # n => remotes'[m] = remotes[m]
  BY <1>1 DEF TypeOK
<1>5. DOMAIN remotes'[m] = DOMAIN remotes[m]
  BY <1>2, <1>3, <1>4
<1>. QED
  BY <1>2, <1>3, <1>4, <1>5 DEF Grows, Old, process, Me

LEMMA Growth ==
  ASSUME TypeOK, StartsOK, [Next]_vars, NEW n \in Node, up'[n], ~Restart(n)
  PROVE  Grows(n)
<1>. USE DEF process, tables, counts
<1>1. ASSUME UNCHANGED <<process, remotes, fresh>>,
             peers[n] \subseteq peers'[n]
      PROVE  Grows(n)
  BY <1>1 DEF Grows, Old, Me
<1>2. ASSUME NEW m \in Node, ThreadStep(m) PROVE Grows(n)
  <2>1. CASE Add(m)
    <3>1. PICK id : peers' = [peers EXCEPT ![m] = @ \cup {id}]
      BY <2>1 DEF Add
    <3>. QED
      BY <1>1, <2>1, <3>1 DEF Add, TypeOK
  <2>2. CASE Link(m)
    BY <2>2, GrowsWhenLinked DEF Link
  <2>. QED
    BY <1>1, <1>2, <2>1, <2>2 DEF ThreadStep, Ask, BootstrapFails, Receive,
       StartLoop, Handle
<1>3. ASSUME NEW p \in Process, HandlerStep(p) PROVE Grows(n)
  <2>1. CASE AddPeer(p)
    BY <1>1, <2>1 DEF AddPeer, TypeOK
  <2>2. CASE AddRemoteShards(p)
    <3>1. Member(p) \in Node
      BY <2>2, MemberType DEF AddRemoteShards, Handles
    <3>. QED
      BY <2>2, <3>1, GrowsWhenLinked DEF AddRemoteShards
  <2>. QED
    BY <1>1, <1>3, <2>1, <2>2 DEF HandlerStep, Answer, Lose
<1>4. ASSUME NEW m \in Node, NEW c \in Collection, Create(m, c) \/ Delete(m, c)
      PROVE  Grows(n)
  <2>1. CASE Create(m, c)
    <3>. DEFINE h == [d \in DOMAIN remotes[m] \cup {c} |->
                        IF d = c THEN {} ELSE remotes[m][d]]
    <3>1. remotes' = [remotes EXCEPT ![m] = h] /\ c \notin DOMAIN remotes[m]
      BY <2>1 DEF Create
    <3>2. /\ DOMAIN h = DOMAIN remotes[m] \cup {c}
          /\ \A d \in DOMAIN h \ {c} : h[d] = remotes[m][d]
      OBVIOUS
    <3>. HIDE DEF h
    <3>3. /\ fresh' = [fresh EXCEPT ![m] = fresh[m] \cup {c}]
          /\ UNCHANGED <<process, peers>>
      BY <2>1 DEF Create
    <3>. QED
      BY <3>1, <3>2, <3>3 DEF Grows, Old, TypeOK, Me
  <2>2. CASE Delete(m, c)
    <3>. DEFINE h == [d \in DOMAIN remotes[m] \ {c} |-> remotes[m][d]]
    <3>1. remotes' = [remotes EXCEPT ![m] = h]
      BY <2>2 DEF Delete
    <3>2. /\ DOMAIN h = DOMAIN remotes[m] \ {c}
          /\ \A d \in DOMAIN h : h[d] = remotes[m][d]
      OBVIOUS
    <3>. HIDE DEF h
    <3>3. /\ fresh' = [fresh EXCEPT ![m] = fresh[m] \ {c}]
          /\ UNCHANGED <<process, peers>>
      BY <2>2 DEF Delete
    <3>. QED
      BY <3>1, <3>2, <3>3 DEF Grows, Old, TypeOK, Me
  <2>. QED
    BY <1>4, <2>1, <2>2
<1>5. ASSUME NEW m \in Node, Crash(m) \/ Restart(m) PROVE Grows(n)
  <2>1. CASE Crash(m)
    <3>1. m # n
      BY <2>1 DEF Crash, TypeOK
    <3>. QED
      BY <2>1, <3>1 DEF Crash, Grows, Old, TypeOK, Me
  <2>2. CASE Restart(m)
    BY <2>2 DEF Restart, Grows, Old, TypeOK, Me
  <2>. QED
    BY <1>5, <2>1, <2>2
<1>6. CASE UNCHANGED vars
  BY <1>1, <1>6 DEF vars
<1>. QED
  BY <1>1, <1>2, <1>3, <1>4, <1>5, <1>6
  DEF Next, SubmitConsensusOp, SendRaft, Send

LEMMA KnowsStays ==
  ASSUME NEW n \in Node, Grows(n), NEW id, Knows(n, id)
  PROVE  Knows(n, id)'
BY DEF Grows, Knows

(* A stopped process has no remote shards. A thread adds peers other than  *)
(* its own, and has added cur to the peers.                                *)
TablesOK ==
  \A n \in Node :
    /\ ~up[n] => \A c \in DOMAIN remotes[n] : remotes[n][c] = {}
    /\ MyId(n) \notin thread[n].todo
    /\ thread[n].cur # None => thread[n].cur \in peers[n] \ {MyId(n)}

(* Remote shards are on peers of the table, without the process itself.    *)
RemotesAreOthers ==
  \A n \in Node : \A c \in DOMAIN remotes[n] :
    remotes[n][c] \subseteq peers[n] \ {MyId(n)}

(* The called process runs.                                                *)
Reachable(p) == up[Member(p)] /\ call[p].at = Me(Member(p))

(* Only a process that has run calls, or is called; while a handler runs,  *)
(* its process does.                                                       *)
CallsOK ==
  \A p \in Process :
    /\ call[p].st # "none" => p[2] <= life[p[1]]
    /\ call[p].st \notin {"none", "lost"} =>
         call[p].at[2] <= life[Member(p)]
    /\ call[p].st \in {"sent", "added", "linked"} => Reachable(p)

(* What the member has done for a call.                                    *)
MemberOK ==
  \A p \in Process :
    /\ call[p].st = "added" => IdOf(p) \in peers[Member(p)]
    /\ call[p].st \in {"linked", "answered", "taken"} /\ Reachable(p) =>
         Knows(Member(p), IdOf(p))

(* n knows the peer id, or will before its bootstrap is over.              *)
WillKnow(n, id) ==
  \/ Knows(n, id)
  \/ /\ thread[n].st = "adding"
     /\ id \in thread[n].todo \/ (id = thread[n].cur /\ id \in peers[n])

(* The process of a caller that has taken its answer, and its thread, run. *)
Bound(p, n) == p = Me(n) /\ up[n] /\ thread[n].st \in {"adding", "loop"}

(* Caller p has been told of id, and has not forgotten it.                 *)
Told(p, id) ==
  \/ call[p].st = "answered" /\ id \in call[p].answer
  \/ call[p].st = "taken" /\ \A n \in Node : Bound(p, n) => WillKnow(n, id)

CallerOK ==
  /\ \A n \in Node :
       up[n] /\ thread[n].st = "boot" => call[Me(n)].st = "none"
  /\ \A p \in Process :
       call[p].st \in {"answered", "taken"} => Told(p, IdOf(call[p].at))

(* Of two callers of one process, one has been told of the other.          *)
CallersOK ==
  \A p, q \in Process :
    /\ p[1] # q[1]
    /\ call[p].st \in {"answered", "taken"}
    /\ call[q].st \in {"answered", "taken"}
    /\ call[p].at = call[q].at
    => Told(p, IdOf(q)) \/ Told(q, IdOf(p))

Inv ==
  /\ TypeOK
  /\ StartsOK
  /\ RemotesAreOthers
  /\ TablesOK
  /\ CallsOK
  /\ MemberOK
  /\ CallerOK
  /\ CallersOK

LEMMA InitInv == Init => Inv
<1>. SUFFICES ASSUME Init PROVE Inv
  OBVIOUS
<1>1. TypeOK /\ StartsOK
  BY InitType
<1>2. \A p \in Process : call[p].st = "none"
  BY DEF Init, NotCalled
<1>3. CallsOK /\ MemberOK /\ CallerOK /\ CallersOK
  BY <1>2, MeType, <1>1 DEF CallsOK, MemberOK, CallerOK, CallersOK
<1>4. \A n \in Node : thread[n].todo = {} /\ thread[n].cur = None
  BY DEF Init, StartThread, At
<1>5. TablesOK /\ RemotesAreOthers
  BY <1>4 DEF Init, TablesOK, RemotesAreOthers
<1>. QED
  BY <1>1, <1>3, <1>5 DEF Inv

(* The tables: they get what a thread or a handler adds.                   *)
LEMMA LinkTables ==
  ASSUME TypeOK, TablesOK, RemotesAreOthers, NEW n \in Node, up[n],
         NEW id \in peers[n] \ {MyId(n)},
         remotes' = [remotes EXCEPT ![n] = AddTo(@, id)],
         UNCHANGED <<process, peers>>
  PROVE  /\ RemotesAreOthers'
         /\ \A m \in Node :
              ~up'[m] => \A c \in DOMAIN remotes'[m] : remotes'[m][c] = {}
<1>1. /\ DOMAIN AddTo(remotes[n], id) = DOMAIN remotes[n]
      /\ \A c \in DOMAIN remotes[n] :
           AddTo(remotes[n], id)[c] = remotes[n][c] \cup {id}
  BY DEF AddTo
<1>2. /\ remotes'[n] = AddTo(remotes[n], id)
      /\ \A m \in Node \ {n} : remotes'[m] = remotes[m]
  BY DEF TypeOK
<1>3. UNCHANGED <<up, life, peers>> /\ \A m \in Node : MyId(m)' = MyId(m)
  BY DEF process, MyId, Me
<1>4. /\ DOMAIN remotes'[n] = DOMAIN remotes[n]
      /\ \A c \in DOMAIN remotes[n] : remotes'[n][c] = remotes[n][c] \cup {id}
  BY <1>1, <1>2
<1>5. \A c \in DOMAIN remotes'[n] :
        remotes'[n][c] \subseteq peers[n] \ {MyId(n)}
  BY <1>4 DEF RemotesAreOthers
<1>6. RemotesAreOthers'
  BY <1>2, <1>3, <1>5 DEF RemotesAreOthers
<1>7. ASSUME NEW m \in Node, ~up[m]
      PROVE  \A c \in DOMAIN remotes'[m] : remotes'[m][c] = {}
  BY <1>2, <1>7 DEF TablesOK
<1>. QED
  BY <1>3, <1>6, <1>7

LEMMA NextTables ==
  ASSUME Inv, TypeOK', [Next]_vars
  PROVE  TablesOK' /\ RemotesAreOthers'
<1>. USE DEF Inv, process, tables, counts
<1>1. ASSUME UNCHANGED <<process, tables>>,
             \A n \in Node : /\ thread'[n].todo \subseteq thread[n].todo
                             /\ thread'[n].cur \in {None, thread[n].cur}
      PROVE  TablesOK' /\ RemotesAreOthers'
  BY <1>1 DEF TablesOK, RemotesAreOthers, MyId, Me
<1>2. ASSUME NEW n \in Node, ThreadStep(n)
      PROVE  TablesOK' /\ RemotesAreOthers'
  <2>1. CASE Ask(n) \/ BootstrapFails(n) \/ StartLoop(n) \/ Handle(n)
    <3>1. \A st : At(st).todo = {} /\ At(st).cur = None
      BY DEF At
    <3>2. \/ UNCHANGED thread
          \/ \E st : thread' = [thread EXCEPT ![n] = At(st)]
      BY <2>1 DEF Ask, BootstrapFails, StartLoop, Handle, Ends
    <3>3. \A m \in Node : /\ thread'[m].todo \subseteq thread[m].todo
                          /\ thread'[m].cur \in {None, thread[m].cur}
      <4>1. CASE UNCHANGED thread
        BY <4>1
      <4>2. CASE \E st : thread' = [thread EXCEPT ![n] = At(st)]
        <5>1. PICK st : thread' = [thread EXCEPT ![n] = At(st)]
          BY <4>2
        <5>2. /\ thread'[n] = At(st)
              /\ \A m \in Node \ {n} : thread'[m] = thread[m]
          BY <5>1 DEF TypeOK
        <5>. QED
          BY <3>1, <5>2
      <4>. QED
        BY <3>2, <4>1, <4>2
    <3>. QED
      BY <1>1, <2>1, <3>3 DEF Ask, BootstrapFails, StartLoop, Handle
  <2>2. CASE Receive(n)
    <3>1. /\ thread'[n].todo = call[Me(n)].answer \ {MyId(n)}
          /\ thread'[n].cur = None
      BY <2>2 DEF Receive, TypeOK
    <3>2. \A m \in Node \ {n} : thread'[m] = thread[m]
      BY <2>2 DEF Receive, TypeOK
    <3>. QED
      BY <2>2, <3>1, <3>2 DEF Receive, TablesOK, RemotesAreOthers, MyId, Me
  <2>3. CASE Add(n)
    <3>1. PICK id \in thread[n].todo :
            /\ peers' = [peers EXCEPT ![n] = @ \cup {id}]
            /\ thread' = [thread EXCEPT ![n] =
                 [st |-> "adding", todo |-> @.todo \ {id}, cur |-> id]]
      BY <2>3 DEF Add
    <3>2. id # MyId(n) /\ UNCHANGED <<process, remotes>>
      BY <2>3 DEF TablesOK, Add
    <3>3. RemotesAreOthers'
      BY <3>1, <3>2 DEF TypeOK, RemotesAreOthers, MyId, Me
    <3>4. TablesOK'
      BY <3>1, <3>2 DEF TypeOK, TablesOK, MyId, Me
    <3>. QED
      BY <3>3, <3>4
  <2>4. CASE Link(n)
    <3>1. thread[n].cur \in peers[n] \ {MyId(n)}
      BY <2>4 DEF Link, TablesOK
    <3>2. \A m \in Node : /\ thread'[m].todo = thread[m].todo
                          /\ thread'[m].cur \in {None, thread[m].cur}
      BY <2>4 DEF Link, TypeOK, Thread
    <3>3. UNCHANGED <<process, peers>>
      BY <2>4 DEF Link
    <3>4. /\ RemotesAreOthers'
          /\ \A m \in Node :
               ~up'[m] => \A c \in DOMAIN remotes'[m] : remotes'[m][c] = {}
      <4>1. remotes' = [remotes EXCEPT ![n] = AddTo(@, thread[n].cur)] /\ up[n]
        BY <2>4 DEF Link
      <4>. QED
        BY <3>1, <3>3, <4>1, LinkTables
    <3>5. TablesOK'
      BY <3>2, <3>3, <3>4 DEF TablesOK, MyId, Me
    <3>. QED
      BY <3>4, <3>5
  <2>. QED
    BY <1>2, <2>1, <2>2, <2>3, <2>4 DEF ThreadStep
<1>3. ASSUME NEW p \in Process, HandlerStep(p)
      PROVE  TablesOK' /\ RemotesAreOthers'
  <2>1. CASE AddPeer(p)
    <3>1. /\ UNCHANGED <<process, remotes, thread>>
          /\ \A n \in Node : peers[n] \subseteq peers'[n]
      BY <2>1 DEF AddPeer, TypeOK
    <3>. QED
      BY <3>1 DEF TablesOK, RemotesAreOthers, MyId, Me
  <2>2. CASE AddRemoteShards(p)
    <3>1. call[p].st = "added" /\ up[Member(p)] /\ call[p].at = Me(Member(p))
      BY <2>2 DEF AddRemoteShards, Handles
    <3>2. Member(p) \in Node /\ Member(p) # p[1]
      BY <3>1, MemberType
    <3>3. IdOf(p) # MyId(Member(p))
      BY <3>2, IdType, MeType DEF MyId
    <3>4. IdOf(p) \in peers[Member(p)]
      BY <3>1 DEF MemberOK
    <3>5. UNCHANGED <<process, peers, thread>>
      BY <2>2 DEF AddRemoteShards
    <3>. QED
      BY <2>2, <3>1, <3>2, <3>3, <3>4, <3>5, LinkTables
      DEF AddRemoteShards, TablesOK, MyId, Me
  <2>3. CASE Answer(p) \/ Lose(p)
    BY <1>1, <2>3 DEF Answer, Lose
  <2>. QED
    BY <1>3, <2>1, <2>2, <2>3 DEF HandlerStep
<1>4. ASSUME NEW n \in Node, NEW c \in Collection, Create(n, c) \/ Delete(n, c)
      PROVE  TablesOK' /\ RemotesAreOthers'
  <2>1. \A m \in Node : \A d \in DOMAIN remotes'[m] :
          \/ remotes'[m][d] = {}
          \/ d \in DOMAIN remotes[m] /\ remotes'[m][d] = remotes[m][d]
    <3>1. CASE Create(n, c)
      <4>. DEFINE h == [d \in DOMAIN remotes[n] \cup {c} |->
                          IF d = c THEN {} ELSE remotes[n][d]]
      <4>1. remotes' = [remotes EXCEPT ![n] = h]
        BY <3>1 DEF Create
      <4>2. \A d \in DOMAIN h :
              h[d] = {} \/ (d \in DOMAIN remotes[n] /\ h[d] = remotes[n][d])
        OBVIOUS
      <4>. HIDE DEF h
      <4>. QED
        BY <4>1, <4>2 DEF TypeOK
    <3>2. CASE Delete(n, c)
      <4>. DEFINE h == [d \in DOMAIN remotes[n] \ {c} |-> remotes[n][d]]
      <4>1. remotes' = [remotes EXCEPT ![n] = h]
        BY <3>2 DEF Delete
      <4>2. \A d \in DOMAIN h : d \in DOMAIN remotes[n] /\ h[d] = remotes[n][d]
        OBVIOUS
      <4>. HIDE DEF h
      <4>. QED
        BY <4>1, <4>2 DEF TypeOK
    <3>. QED
      BY <1>4, <3>1, <3>2
  <2>2. UNCHANGED <<process, peers, thread>>
    BY <1>4 DEF Create, Delete
  <2>. QED
    BY <2>1, <2>2 DEF TablesOK, RemotesAreOthers, MyId, Me
<1>5. ASSUME NEW n \in Node, Crash(n) \/ Restart(n)
      PROVE  TablesOK' /\ RemotesAreOthers'
  <2>1. \A c \in DOMAIN remotes'[n] : remotes'[n][c] = {}
    BY <1>5 DEF Crash, Restart, TypeOK, TablesOK
  <2>2. \A m \in Node \ {n} :
          /\ remotes'[m] = remotes[m] /\ peers'[m] = peers[m] /\ up'[m] = up[m]
          /\ thread'[m] = thread[m] /\ Me(m)' = Me(m)
    BY <1>5 DEF Crash, Restart, Ends, TypeOK, Me
  <2>3. thread'[n].todo = {} /\ thread'[n].cur = None
    BY <1>5 DEF Crash, Restart, Ends, TypeOK, At, StartThread
  <2>. QED
    BY <2>1, <2>2, <2>3 DEF TablesOK, RemotesAreOthers, MyId
<1>6. CASE \E n \in Node : SubmitConsensusOp(n) \/ SendRaft(n)
  BY <1>1, <1>6 DEF SubmitConsensusOp, SendRaft, Send
<1>7. CASE UNCHANGED vars
  BY <1>1, <1>7 DEF vars
<1>. QED
  BY <1>2, <1>3, <1>4, <1>5, <1>6, <1>7 DEF Next

(* What a step does to a call, and to a thread.                            *)
CallMoves(p) ==
  \/ call'[p] = call[p]
  \/ call'[p] = Lost /\ call[p].st \notin {"none", "lost"}
  \/ \E n \in Node :
       /\ p = Me(n) /\ Ask(n)
       /\ call'[p] = [st |-> "sent", at |-> Me(Bootstrap[n]), answer |-> {}]
  \/ \E n \in Node :
       /\ p = Me(n) /\ Receive(n)
       /\ call'[p].st = "taken" /\ call'[p].at = call[p].at
  \/ AddPeer(p) /\ call'[p].st = "added" /\ call'[p].at = call[p].at
  \/ AddRemoteShards(p) /\ call'[p].st = "linked" /\ call'[p].at = call[p].at
  \/ /\ Answer(p) /\ call'[p].st = "answered" /\ call'[p].at = call[p].at
     /\ call'[p].answer = peers[Member(p)]

LEMMA CallsMove ==
  ASSUME TypeOK, [Next]_vars, NEW p \in Process
  PROVE  CallMoves(p)
<1>. USE DEF process, tables, counts
<1>1. ASSUME NEW n \in Node, ThreadStep(n) PROVE CallMoves(p)
  <2>1. Me(n) \in Process /\ call[Me(n)] \in Call
    BY MeType DEF TypeOK
  <2>2. CASE Ask(n)
    <3>1. p # Me(n) => call'[p] = call[p]
      BY <2>1, <2>2 DEF Ask, TypeOK
    <3>2. p = Me(n) =>
            call'[p] = [st |-> "sent", at |-> Me(Bootstrap[n]), answer |-> {}]
      BY <2>1, <2>2 DEF Ask, TypeOK
    <3>. QED
      BY <2>2, <3>1, <3>2 DEF CallMoves
  <2>3. CASE Receive(n)
    <3>1. p # Me(n) => call'[p] = call[p]
      BY <2>1, <2>3 DEF Receive, TypeOK
    <3>2. p = Me(n) => call'[p].st = "taken" /\ call'[p].at = call[p].at
      BY <2>1, <2>3 DEF Receive, TypeOK, Call
    <3>. QED
      BY <2>3, <3>1, <3>2 DEF CallMoves
  <2>4. CASE UNCHANGED call
    BY <2>4 DEF CallMoves
  <2>. QED
    BY <1>1, <2>2, <2>3, <2>4
    DEF ThreadStep, BootstrapFails, Add, Link, StartLoop, Handle
<1>2. ASSUME NEW q \in Process, HandlerStep(q) PROVE CallMoves(p)
  <2>1. call[q] \in Call
    BY DEF TypeOK
  <2>2. p # q => call'[p] = call[p]
    BY <1>2 DEF HandlerStep, AddPeer, AddRemoteShards, Answer, Lose, TypeOK
  <2>3. CASE AddPeer(q)
    <3>1. call'[q].st = "added" /\ call'[q].at = call[q].at
      BY <2>1, <2>3 DEF AddPeer, TypeOK, Call
    <3>. QED
      BY <2>2, <2>3, <3>1 DEF CallMoves
  <2>4. CASE AddRemoteShards(q)
    <3>1. call'[q].st = "linked" /\ call'[q].at = call[q].at
      BY <2>1, <2>4 DEF AddRemoteShards, TypeOK, Call
    <3>. QED
      BY <2>2, <2>4, <3>1 DEF CallMoves
  <2>5. CASE Answer(q)
    <3>1. /\ call'[q].st = "answered" /\ call'[q].at = call[q].at
          /\ call'[q].answer = peers[Member(q)]
      BY <2>1, <2>5 DEF Answer, TypeOK, Call
    <3>. QED
      BY <2>2, <2>5, <3>1 DEF CallMoves
  <2>6. CASE Lose(q)
    <3>1. call'[q] = Lost /\ call[q].st \notin {"none", "lost"}
      BY <2>6 DEF Lose, TypeOK
    <3>. QED
      BY <2>2, <3>1 DEF CallMoves
  <2>. QED
    BY <1>2, <2>3, <2>4, <2>5, <2>6 DEF HandlerStep
<1>3. ASSUME NEW n \in Node, Crash(n) PROVE CallMoves(p)
  <2>1. \/ call'[p] = call[p]
        \/ call'[p] = Lost /\ call[p].st \in {"sent", "added", "linked"}
    BY <1>3 DEF Crash
  <2>. QED
    BY <2>1 DEF CallMoves
<1>4. CASE UNCHANGED call
  BY <1>4 DEF CallMoves
<1>. QED
  BY <1>1, <1>2, <1>3, <1>4
  DEF Next, SubmitConsensusOp, SendRaft, Send, Create, Delete, Restart, vars

ThreadMoves(n) ==
  \/ thread'[n] = thread[n]
  \/ thread'[n].st = "dead"
  \/ Ask(n) /\ thread'[n].st = "waiting"
  \/ Receive(n) \/ Add(n) \/ Link(n) \/ StartLoop(n) \/ Restart(n)

LEMMA ThreadsMove ==
  ASSUME TypeOK, [Next]_vars, NEW n \in Node
  PROVE  ThreadMoves(n)
<1>. USE DEF process, tables, counts
<1>1. At("dead").st = "dead" /\ At("waiting").st = "waiting"
  BY AtType
<1>2. ASSUME NEW m \in Node, ThreadStep(m) \/ Crash(m) \/ Restart(m)
      PROVE  ThreadMoves(n)
  <2>1. CASE m # n
    <3>1. thread'[n] = thread[n]
      BY <1>2, <2>1 DEF ThreadStep, Ask, BootstrapFails, Receive, Add, Link,
         StartLoop, Handle, Crash, Restart, Ends, TypeOK
    <3>. QED
      BY <3>1 DEF ThreadMoves
  <2>2. CASE m = n
    <3>1. CASE Ask(n)
      <4>1. thread'[n].st = "waiting"
        BY <1>1, <3>1 DEF Ask, TypeOK
      <4>. QED
        BY <3>1, <4>1 DEF ThreadMoves
    <3>2. CASE Ends(n)
      <4>1. thread'[n].st = "dead"
        BY <1>1, <3>2 DEF Ends, TypeOK
      <4>. QED
        BY <4>1 DEF ThreadMoves
    <3>3. CASE UNCHANGED thread
      BY <3>3 DEF ThreadMoves
    <3>. QED
      BY <1>2, <2>2, <3>1, <3>2, <3>3
      DEF ThreadStep, BootstrapFails, Handle, Crash, ThreadMoves
  <2>. QED
    BY <2>1, <2>2
<1>3. CASE UNCHANGED thread
  BY <1>3 DEF ThreadMoves
<1>. QED
  BY <1>2, <1>3 DEF Next, HandlerStep, AddPeer, AddRemoteShards, Answer, Lose,
     SubmitConsensusOp, SendRaft, Send, Create, Delete, vars

(* What a step does to a process, and that processes run one after the     *)
(* other.                                                                  *)
LEMMA ProcessesMove ==
  ASSUME TypeOK, [Next]_vars, NEW n \in Node
  PROVE  /\ life[n] <= life'[n]
         /\ Restart(n) => life'[n] = life[n] + 1
         /\ ~Restart(n) => life'[n] = life[n] /\ Me(n)' = Me(n)
         /\ up'[n] = up[n] \/ Crash(n) \/ Restart(n)
<1>. USE DEF process
<1>1. CASE UNCHANGED process
  BY <1>1 DEF TypeOK, Me, Restart
<1>2. ASSUME NEW m \in Node, Crash(m)
      PROVE  /\ UNCHANGED life
             /\ m # n => up'[n] = up[n]
             /\ ~Restart(n)
  BY <1>2 DEF Crash, Restart, TypeOK
<1>3. ASSUME NEW m \in Node, Restart(m)
      PROVE  /\ m = n => life'[n] = life[n] + 1
             /\ m # n => up'[n] = up[n] /\ life'[n] = life[n]
  BY <1>3 DEF Restart, TypeOK
<1>4. life[n] \in Nat
  BY DEF TypeOK
<1>5. CASE \E m \in Node : Crash(m)
  BY <1>2, <1>4, <1>5 DEF Me
<1>6. CASE \E m \in Node : Restart(m)
  <2>1. Restart(n) => life'[n] = life[n] + 1
    BY <1>3
  <2>. QED
    BY <1>3, <1>4, <1>6, <2>1 DEF Me
<1>. QED
  BY <1>1, <1>5, <1>6 DEF Next, ThreadStep, HandlerStep, Ask, BootstrapFails,
     Receive, Add, Link, StartLoop, Handle, AddPeer, AddRemoteShards, Answer,
     Lose, SubmitConsensusOp, SendRaft, Send, Create, Delete, vars

LEMMA NextCalls ==
  ASSUME Inv, [Next]_vars
  PROVE  CallsOK'
<1>. USE DEF Inv, process
<1>. SUFFICES ASSUME NEW p \in Process
              PROVE  /\ call'[p].st # "none" => p[2] <= life'[p[1]]
                     /\ call'[p].st \notin {"none", "lost"} =>
                          call'[p].at[2] <= life'[Member(p)']
                     /\ call'[p].st \in {"sent", "added", "linked"} =>
                          Reachable(p)'
  BY DEF CallsOK, Member
<1>1. p[1] \in Node /\ p[2] \in Nat /\ p = <<p[1], p[2]>>
  BY DEF Process
<1>2. \A n \in Node : life[n] \in Nat /\ life'[n] \in Nat
                      /\ life[n] <= life'[n]
  BY ProcessesMove, NextType DEF TypeOK
<1>3. call[p].st \notin {"none", "lost"} =>
        /\ Member(p) \in Node /\ call[p].at[2] \in Nat
        /\ call[p].at[2] <= life[Member(p)]
  BY MemberType DEF CallsOK, Process
<1>4. CallMoves(p)
  BY CallsMove
<1>5. CASE call'[p] = call[p]
  <2>1. Member(p)' = Member(p)
    BY <1>5 DEF Member
  <2>2. ASSUME call[p].st \in {"sent", "added", "linked"}
        PROVE  Reachable(p)'
    <3>1. up[Member(p)] /\ call[p].at = Me(Member(p)) /\ Member(p) \in Node
      BY <1>3, <2>2 DEF CallsOK, Reachable
    <3>2. ~Restart(Member(p))
      BY <3>1 DEF Restart
    <3>3. ~Crash(Member(p))
      BY <1>5, <2>2, <3>1, LostType DEF Crash
    <3>. QED
      BY <1>5, <2>1, <3>1, <3>2, <3>3, ProcessesMove DEF Reachable
  <2>3. call[p].st # "none" => p[2] <= life'[p[1]]
    BY <1>1, <1>2 DEF CallsOK
  <2>4. call[p].st \notin {"none", "lost"} =>
          call[p].at[2] <= life'[Member(p)]
    BY <1>2, <1>3
  <2>. QED
    BY <1>5, <2>1, <2>2, <2>3, <2>4
<1>6. CASE call'[p] = Lost /\ call[p].st \notin {"none", "lost"}
  BY <1>1, <1>2, <1>6, LostType DEF CallsOK
<1>7. ASSUME NEW n \in Node, p = Me(n), Ask(n),
             call'[p] = [st |-> "sent", at |-> Me(Bootstrap[n]),
                         answer |-> {}]
      PROVE  /\ p[2] <= life'[p[1]]
             /\ call'[p].at[2] <= life'[Member(p)']
             /\ Reachable(p)'
  <2>1. Bootstrap[n] \in Node /\ up[Bootstrap[n]] /\ UNCHANGED <<up, life>>
    BY <1>7 DEF StartsOK, Ask
  <2>2. Member(p)' = Bootstrap[n] /\ call'[p].at = Me(Bootstrap[n])
    BY <1>7 DEF Member, Me
  <2>. QED
    BY <1>2, <1>7, <2>1, <2>2 DEF Reachable, Me
<1>8. ASSUME call'[p].at = call[p].at, UNCHANGED process,
             call[p].st \notin {"none", "lost"},
             call'[p].st \in {"sent", "added", "linked"} => Reachable(p)
      PROVE  /\ p[2] <= life'[p[1]]
             /\ call'[p].at[2] <= life'[Member(p)']
             /\ call'[p].st \in {"sent", "added", "linked"} => Reachable(p)'
  BY <1>3, <1>8 DEF CallsOK, Reachable, Member, Me
<1>. QED
  BY <1>4, <1>5, <1>6, <1>7, <1>8 DEF CallMoves, Receive, AddPeer,
     AddRemoteShards, Answer, Handles, Reachable

LEMMA NextMember ==
  ASSUME Inv, [Next]_vars
  PROVE  MemberOK'
<1>. USE DEF Inv, process, tables, counts
<1>. SUFFICES ASSUME NEW p \in Process
              PROVE  /\ call'[p].st = "added" => IdOf(p) \in peers'[Member(p)']
                     /\ /\ call'[p].st \in {"linked", "answered", "taken"}
                        /\ Reachable(p)'
                        => Knows(Member(p), IdOf(p))'
  BY DEF MemberOK
<1>1. CallMoves(p)
  BY CallsMove
<1>2. call[p].st \notin {"none", "lost"} => Member(p) \in Node
  BY MemberType
<1>3. CASE call'[p] = call[p]
  <2>1. Member(p)' = Member(p)
    BY <1>3 DEF Member
  <2>2. ASSUME call[p].st = "added" PROVE IdOf(p) \in peers'[Member(p)]
    <3>1. /\ Member(p) \in Node /\ up[Member(p)] /\ up'[Member(p)]
          /\ IdOf(p) \in peers[Member(p)]
      BY <1>2, <1>3, <2>1, <2>2, NextCalls DEF CallsOK, Reachable, MemberOK
    <3>2. ~Restart(Member(p))
      BY <3>1 DEF Restart
    <3>. QED
      BY <3>1, <3>2, Growth DEF Grows
  <2>3. ASSUME call[p].st \in {"linked", "answered", "taken"}, Reachable(p)'
        PROVE  Knows(Member(p), IdOf(p))'
    <3>1. Member(p) \in Node /\ up'[Member(p)] /\ call[p].at = Me(Member(p))'
      BY <1>2, <1>3, <2>1, <2>3 DEF Reachable
    <3>2. call[p].at[2] <= life[Member(p)]
      BY <2>3 DEF CallsOK
    <3>3. call[p].at[2] = life'[Member(p)] /\ life[Member(p)] \in Nat
      BY <2>1, <3>1 DEF Me, TypeOK
    <3>4. ~Restart(Member(p))
      BY <3>1, <3>2, <3>3, ProcessesMove
    <3>5. Grows(Member(p))
      BY <3>1, <3>4, Growth
    <3>6. Reachable(p)
      BY <3>1, <3>5 DEF Grows, Reachable
    <3>7. Knows(Member(p), IdOf(p))
      BY <2>3, <3>6 DEF MemberOK
    <3>. QED
      BY <2>1, <3>1, <3>5, <3>7, KnowsStays
  <2>. QED
    BY <1>3, <2>1, <2>2, <2>3
<1>4. CASE call'[p].st \in {"lost", "sent"}
  BY <1>4
<1>5. ASSUME UNCHANGED <<process, tables>>, call'[p].at = call[p].at,
             call[p].st \in {"linked", "answered"},
             call'[p].st \in {"answered", "taken"}
      PROVE  Reachable(p)' => Knows(Member(p), IdOf(p))'
  BY <1>5 DEF MemberOK, Reachable, Knows, Old, Member, Me
<1>6. ASSUME AddPeer(p), call'[p].at = call[p].at
      PROVE  IdOf(p) \in peers'[Member(p)']
  <2>1. Member(p) \in Node /\ Member(p)' = Member(p)
    BY <1>2, <1>6 DEF AddPeer, Handles, Member
  <2>. QED
    BY <1>6, <2>1 DEF AddPeer, TypeOK, Member
<1>7. ASSUME AddRemoteShards(p), call'[p].at = call[p].at
      PROVE  Knows(Member(p), IdOf(p))'
  <2>1. Member(p) \in Node /\ up[Member(p)] /\ Member(p)' = Member(p)
    BY <1>2, <1>7 DEF AddRemoteShards, Handles, Member
  <2>2. IdOf(p) \in peers[Member(p)] /\ UNCHANGED <<process, peers, fresh>>
    BY <1>7 DEF AddRemoteShards, Handles, MemberOK
  <2>3. \A c \in Old(Member(p))' : IdOf(p) \in remotes'[Member(p)][c]
    BY <1>7, <2>1, <2>2, GrowsWhenLinked DEF AddRemoteShards
  <2>. QED
    BY <2>1, <2>2, <2>3 DEF Knows
<1>8. CASE call'[p] = Lost
  BY <1>4, <1>8, LostType
<1>9. ASSUME NEW n \in Node,
              call'[p] = [st |-> "sent", at |-> Me(Bootstrap[n]),
                          answer |-> {}]
       PROVE  call'[p].st = "sent"
  BY <1>9
<1>10. ASSUME NEW n \in Node, p = Me(n), Receive(n)
       PROVE  UNCHANGED <<process, tables>> /\ call[p].st = "answered"
  BY <1>10 DEF Receive
<1>11. ASSUME Answer(p)
       PROVE  UNCHANGED <<process, tables>> /\ call[p].st = "linked"
  BY <1>11 DEF Answer, Handles
<1>. QED
  BY <1>1, <1>3, <1>4, <1>5, <1>6, <1>7, <1>8, <1>9, <1>10,
     <1>11 DEF CallMoves

LEMMA CallerRuns ==
  ASSUME TypeOK, NEW p \in Process, NEW n \in Node, Bound(p, n)
  PROVE  p[1] = n /\ up[n] /\ Me(n) = p /\ MyId(n) = IdOf(p)
BY MeType DEF Bound, MyId

(* A thread on its way from an answer to its loop gets to know all peers   *)
(* of the answer.                                                          *)
LEMMA WillKnowStays ==
  ASSUME Inv, [Next]_vars, NEW n \in Node, NEW id \in PeerId, WillKnow(n, id),
         up'[n], ~Restart(n), ~Receive(n),
         thread'[n].st \in {"adding", "loop"}
  PROVE  WillKnow(n, id)'
<1>. USE DEF Inv
<1>1. Grows(n)
  BY Growth
<1>2. CASE Knows(n, id)
  BY <1>1, <1>2, KnowsStays DEF WillKnow
<1>3. ASSUME thread[n].st = "adding",
             id \in thread[n].todo \/ (id = thread[n].cur /\ id \in peers[n])
      PROVE  WillKnow(n, id)'
  <2>1. id # None
    BY MembershipAssumption DEF MembershipAssumption
  <2>2. CASE thread'[n] = thread[n]
    BY <1>1, <1>3, <2>2 DEF Grows, WillKnow
  <2>3. CASE Add(n)
    <3>1. PICK i \in thread[n].todo :
            /\ peers' = [peers EXCEPT ![n] = @ \cup {i}]
            /\ thread' = [thread EXCEPT ![n] =
                 [st |-> "adding", todo |-> @.todo \ {i}, cur |-> i]]
      BY <2>3 DEF Add
    <3>2. thread[n].cur = None
      BY <2>3 DEF Add
    <3>3. /\ thread'[n].st = "adding" /\ thread'[n].cur = i
          /\ thread'[n].todo = thread[n].todo \ {i} /\ i \in peers'[n]
      BY <3>1 DEF TypeOK
    <3>. QED
      BY <1>3, <2>1, <3>2, <3>3 DEF WillKnow
  <2>4. CASE Link(n)
    <3>1. /\ thread'[n].st = "adding" /\ thread'[n].todo = thread[n].todo
          /\ UNCHANGED <<process, peers, fresh>>
      BY <1>3, <2>4 DEF Link, TypeOK, Thread
    <3>2. ASSUME id = thread[n].cur, id \in peers[n] PROVE Knows(n, id)'
      <4>1. remotes' = [remotes EXCEPT ![n] = AddTo(@, id)] /\ up[n]
        BY <2>4, <3>2 DEF Link
      <4>2. \A c \in Old(n)' : id \in remotes'[n][c]
        BY <3>1, <4>1, GrowsWhenLinked
      <4>. QED
        BY <3>1, <3>2, <4>2 DEF Knows
    <3>. QED
      BY <1>3, <3>1, <3>2 DEF WillKnow
  <2>5. ~StartLoop(n)
    BY <1>3, <2>1 DEF StartLoop
  <2>6. ~Ask(n)
    BY <1>3 DEF Ask
  <2>. QED
    BY <2>2, <2>3, <2>4, <2>5, <2>6, ThreadsMove DEF ThreadMoves
<1>. QED
  BY <1>2, <1>3 DEF WillKnow

LEMMA ToldStays ==
  ASSUME Inv, [Next]_vars, NEW p \in Process, NEW id \in PeerId,
         id # IdOf(p), Told(p, id),
         call'[p].st \in {"answered", "taken"}
  PROVE  Told(p, id)'
<1>. USE DEF Inv
<1>1. TypeOK' /\ call[p].st \in {"answered", "taken"}
  BY NextType DEF Told
<1>2. CASE call'[p] = call[p] /\ call[p].st = "answered"
  BY <1>2 DEF Told
<1>3. CASE call'[p] = call[p] /\ call[p].st = "taken"
  <2>1. ASSUME NEW n \in Node, Bound(p, n)' PROVE WillKnow(n, id)'
    <3>1. p[1] = n /\ up'[n] /\ Me(n)' = p
      BY <1>1, <2>1, MeType DEF Bound, Me
    <3>2. p[2] <= life[n]
      BY <1>3, <3>1 DEF CallsOK
    <3>3. ~Restart(n)
      <4>1. p[2] = life'[n] /\ life[n] \in Nat
        BY <3>1 DEF Me, TypeOK
      <4>. QED
        BY <3>2, <4>1, ProcessesMove
    <3>4. Me(n) = p
      BY <3>1, <3>3, ProcessesMove
    <3>5. ~Receive(n)
      BY <1>3, <3>4 DEF Receive
    <3>6. thread'[n].st \in {"adding", "loop"} /\ up[n]
      BY <2>1, <3>1, <3>3, Growth DEF Bound, Grows
    <3>7. thread[n].st \in {"adding", "loop"}
      <4>1. thread[n].st # "boot"
        BY <1>3, <3>4, <3>6 DEF CallerOK
      <4>2. ThreadMoves(n)
        BY ThreadsMove
      <4>. QED
        BY <3>3, <3>5, <3>6, <4>1, <4>2 DEF ThreadMoves, Add, Link, StartLoop
    <3>8. WillKnow(n, id)
      BY <1>3, <3>4, <3>6, <3>7 DEF Told, Bound
    <3>. QED
      BY <3>1, <3>3, <3>5, <3>6, <3>8, WillKnowStays
  <2>. QED
    BY <1>3, <2>1 DEF Told
<1>4. ASSUME NEW m \in Node, p = Me(m), Receive(m),
             call'[p].st = "taken"
      PROVE  Told(p, id)'
  <2>1. id \in call[p].answer
    BY <1>4 DEF Receive, Told
  <2>2. thread'[m].st = "adding" /\ id \in thread'[m].todo
    BY <1>4, <2>1 DEF Receive, TypeOK, MyId
  <2>3. ASSUME NEW n \in Node, Bound(p, n)' PROVE WillKnow(n, id)'
    <3>1. n = m
      BY <1>4, <2>3 DEF Bound, Me
    <3>. QED
      BY <2>2, <3>1 DEF WillKnow
  <2>. QED
    BY <1>4, <2>3 DEF Told
<1>5. CallMoves(p)
  BY CallsMove
<1>6. ~AddPeer(p) /\ ~AddRemoteShards(p) /\ ~Answer(p)
  BY <1>1 DEF AddPeer, AddRemoteShards, Answer, Handles
<1>7. call'[p] # Lost
  BY LostType
<1>8. \A n \in Node : call'[p] # [st |-> "sent", at |-> Me(Bootstrap[n]),
                                  answer |-> {}]
  OBVIOUS
<1>. QED
  BY <1>1, <1>2, <1>3, <1>4, <1>5, <1>6, <1>7, <1>8 DEF CallMoves

LEMMA NextCaller ==
  ASSUME Inv, [Next]_vars
  PROVE  CallerOK'
<1>. USE DEF Inv
<1>1. TypeOK' /\ StartsOK'
  BY NextType
<1>2. ASSUME NEW n \in Node, up'[n], thread'[n].st = "boot"
      PROVE  call'[Me(n)'].st = "none"
  <2>1. Me(n)' \in Process /\ Me(n)'[1] = n /\ Me(n)'[2] = life'[n]
    BY <1>1 DEF TypeOK, Me, Process
  <2>2. CallMoves(Me(n)')
    BY <2>1, CallsMove
  <2>3. CASE Restart(n)
    <3>1. ~(Me(n)'[2] <= life[n])
      BY <2>1, <2>3, ProcessesMove DEF TypeOK
    <3>2. call[Me(n)'].st = "none"
      BY <2>1, <3>1 DEF CallsOK
    <3>3. UNCHANGED call
      BY <2>3 DEF Restart
    <3>. QED
      BY <3>2, <3>3
  <2>4. CASE ~Restart(n)
    <3>1. Me(n)' = Me(n) /\ up[n]
      BY <1>2, <2>4, ProcessesMove, Growth DEF Grows
    <3>2. thread[n].st = "boot" /\ ~Ask(n)
      <4>1. ThreadMoves(n)
        BY ThreadsMove
      <4>2. ~Ask(n)
        BY <1>2, AtType DEF Ask, TypeOK
      <4>3. ~Receive(n) /\ ~Add(n) /\ ~Link(n) /\ ~StartLoop(n)
        BY <1>2, AtType DEF Receive, Add, Link, StartLoop, TypeOK, Thread
      <4>. QED
        BY <1>2, <2>4, <4>1, <4>2, <4>3 DEF ThreadMoves
    <3>3. call[Me(n)].st = "none"
      BY <3>1, <3>2 DEF CallerOK
    <3>4. ~Receive(n) /\ \A m \in Node : Me(n) = Me(m) => m = n
      BY <3>2 DEF Receive, Me
    <3>. QED
      BY <2>2, <3>1, <3>2, <3>3, <3>4
      DEF CallMoves, AddPeer, AddRemoteShards, Answer, Handles
  <2>. QED
    BY <2>3, <2>4
<1>3. ASSUME NEW p \in Process, call'[p].st \in {"answered", "taken"}
      PROVE  Told(p, IdOf(call[p].at))' /\ call'[p].at = call[p].at
  <2>1. CallMoves(p)
    BY CallsMove
  <2>2. CASE Answer(p) /\ call'[p].at = call[p].at
             /\ call'[p].answer = peers[Member(p)]
    <3>1. up[Member(p)] /\ call[p].at = Me(Member(p)) /\ Member(p) \in Node
      BY <2>2, MemberType DEF Answer, Handles
    <3>2. IdOf(call[p].at) \in peers[Member(p)]
      BY <3>1 DEF TypeOK, MyId
    <3>3. call'[p].st = "answered"
      BY <2>2 DEF Answer, TypeOK, Call
    <3>. QED
      BY <2>2, <3>2, <3>3 DEF Told
  <2>3. ASSUME call[p].st \in {"answered", "taken"}, call'[p].at = call[p].at
        PROVE  Told(p, IdOf(call[p].at))'
    <3>1. Told(p, IdOf(call[p].at))
      BY <2>3 DEF CallerOK
    <3>2. call[p].at \in Process /\ call[p].at[1] # p[1]
      BY <2>3, MemberType DEF Member
    <3>3. IdOf(call[p].at) \in PeerId /\ IdOf(call[p].at) # IdOf(p)
      BY <3>2, IdType
    <3>4. PICK id \in PeerId : id = IdOf(call[p].at)
      BY <3>3
    <3>5. Told(p, id)'
      BY <1>3, <3>1, <3>3, <3>4, ToldStays
    <3>6. id = IdOf(call'[p].at)
      BY <2>3, <3>4
    <3>. QED
      BY <3>5, <3>6 DEF Told
  <2>4. CASE call'[p] = call[p]
    BY <1>3, <2>3, <2>4
  <2>5. ASSUME NEW n \in Node, p = Me(n), Receive(n)
        PROVE  call[p].st = "answered"
    BY <2>5 DEF Receive
  <2>6. call'[p] # Lost
    BY <1>3, LostType
  <2>7. \A n \in Node : call'[p] # [st |-> "sent", at |-> Me(Bootstrap[n]),
                                    answer |-> {}]
    BY <1>3
  <2>. QED
    BY <1>3, <2>1, <2>2, <2>3, <2>4, <2>5, <2>6, <2>7 DEF CallMoves
<1>. QED
  BY <1>2, <1>3 DEF CallerOK

LEMMA NextCallers ==
  ASSUME Inv, [Next]_vars
  PROVE  CallersOK'
<1>. USE DEF Inv
<1>1. ASSUME NEW p \in Process, call'[p].st \in {"answered", "taken"},
             ~Answer(p)
      PROVE  /\ call[p].st \in {"answered", "taken"}
             /\ call'[p].at = call[p].at
  <2>1. CallMoves(p)
    BY CallsMove
  <2>2. call'[p] # Lost
    BY <1>1, LostType
  <2>3. \A n \in Node : call'[p] # [st |-> "sent", at |-> Me(Bootstrap[n]),
                                    answer |-> {}]
    BY <1>1
  <2>4. ASSUME NEW n \in Node, p = Me(n), Receive(n)
        PROVE  call[p].st = "answered"
    BY <2>4 DEF Receive
  <2>. QED
    BY <1>1, <2>1, <2>2, <2>3, <2>4 DEF CallMoves
(* The one that is answered later is told of the other.                    *)
<1>2. ASSUME NEW p \in Process, NEW q \in Process, p # q, Answer(q),
             call'[p].st \in {"answered", "taken"}, call'[p].at = call'[q].at
      PROVE  Told(q, IdOf(p))'
  <2>1. Member(q) \in Node /\ up[Member(q)] /\ call[q].st = "linked"
        /\ call[q].at = Me(Member(q))
    BY <1>2, MemberType DEF Answer, Handles
  <2>2. call'[p] = call[p]
    BY <1>2 DEF Answer, TypeOK
  <2>3. call'[q].at = call[q].at /\ call'[q].st = "answered"
        /\ call'[q].answer = peers[Member(q)]
    BY <1>2 DEF Answer, TypeOK, Call
  <2>4. Member(p) = Member(q) /\ Reachable(p)
    BY <1>2, <2>1, <2>2, <2>3 DEF Member, Reachable
  <2>5. IdOf(p) \in peers[Member(q)]
    BY <1>2, <2>2, <2>4 DEF MemberOK, Knows
  <2>. QED
    BY <2>3, <2>5 DEF Told
<1>3. ASSUME NEW p \in Process, NEW q \in Process, p[1] # q[1],
             Told(p, IdOf(q)), call'[p].st \in {"answered", "taken"}
      PROVE  Told(p, IdOf(q))'
  BY <1>3, IdType, ToldStays
<1>4. ASSUME NEW p \in Process, NEW q \in Process, p[1] # q[1],
             call'[p].st \in {"answered", "taken"},
             call'[q].st \in {"answered", "taken"},
             call'[p].at = call'[q].at
      PROVE  Told(p, IdOf(q))' \/ Told(q, IdOf(p))'
  <2>1. CASE Answer(p)
    BY <1>2, <1>4, <2>1
  <2>2. CASE Answer(q)
    BY <1>2, <1>4, <2>2
  <2>3. CASE ~Answer(p) /\ ~Answer(q)
    <3>1. Told(p, IdOf(q)) \/ Told(q, IdOf(p))
      BY <1>1, <1>4, <2>3 DEF CallersOK
    <3>. QED
      BY <1>3, <1>4, <3>1
  <2>. QED
    BY <2>1, <2>2, <2>3
<1>. QED
  BY <1>4 DEF CallersOK

LEMMA NextInv == Inv /\ [Next]_vars => Inv'
<1>. SUFFICES ASSUME Inv, [Next]_vars PROVE Inv'
  OBVIOUS
<1>1. TypeOK' /\ StartsOK'
  BY NextType DEF Inv
<1>. QED
  BY <1>1, NextTables, NextCalls, NextMember, NextCaller, NextCallers DEF Inv

LEMMA InvHolds == Spec => []Inv
BY InitInv, NextInv, PTL DEF Spec

(* A start of its peer has had this id.                                    *)
Started(id) == id[2] <= life[id[1]] /\ (id[1] \in Named => id[2] = 0)

(* All ids in the tables, and in the answers on their way, are such ids.   *)
IdsStarted ==
  /\ \A n \in Node : \A id \in peers[n] \cup thread[n].todo : Started(id)
  /\ \A p \in Process : \A id \in call[p].answer : Started(id)

LEMMA IdStarted ==
  ASSUME TypeOK, NEW p \in Process, p[2] <= life[p[1]]
  PROVE  Started(IdOf(p))
<1>1. p[1] \in Node /\ life[p[1]] \in Nat
  BY DEF TypeOK, Process
<1>2. CASE p[1] \in Named
  <2>1. IdOf(p)[1] = p[1] /\ IdOf(p)[2] = 0
    BY <1>2 DEF IdOf
  <2>. QED
    BY <1>1, <2>1 DEF Started
<1>3. CASE p[1] \notin Named
  BY <1>3 DEF IdOf, Started
<1>. QED
  BY <1>2, <1>3

(* Lives only grow.                                                        *)
LEMMA StartedStays ==
  ASSUME Inv, [Next]_vars, NEW id \in PeerId, Started(id)
  PROVE  Started(id)'
<1>1. id[1] \in Node /\ id[2] \in Nat
  BY DEF PeerId, Process
<1>2. life[id[1]] \in Nat /\ life'[id[1]] \in Nat /\ life[id[1]] <= life'[id[1]]
  BY <1>1, NextType, ProcessesMove DEF Inv, TypeOK
<1>. QED
  BY <1>1, <1>2 DEF Started

(* Where the ids of a step come from.                                      *)
LEMMA IdsMove ==
  ASSUME Inv, [Next]_vars
  PROVE  /\ \A n \in Node : \A id \in peers'[n] :
              \/ id \in peers[n] \cup thread[n].todo
              \/ \E p \in Process : id = IdOf(p) /\ call[p].st # "none"
              \/ id = MyId(n)'
         /\ \A n \in Node :
              thread'[n].todo \subseteq thread[n].todo \cup call[Me(n)].answer
         /\ \A p \in Process :
              \/ call'[p].answer \subseteq call[p].answer
              \/ /\ Member(p) \in Node
                 /\ call'[p].answer \subseteq peers[Member(p)]
<1>. USE DEF process, tables, counts
<1>1. TypeOK /\ \A st : At(st).todo = {}
  BY DEF Inv, At
<1>2. \A n \in Node : Me(n) \in Process
  BY <1>1, MeType
<1>3. ASSUME NEW n \in Node, NEW id \in peers'[n]
      PROVE  \/ id \in peers[n] \cup thread[n].todo
             \/ \E p \in Process : id = IdOf(p) /\ call[p].st # "none"
             \/ id = MyId(n)'
  <2>1. CASE \E m \in Node : Add(m)
    BY <1>1, <1>3, <2>1 DEF Add, TypeOK
  <2>2. CASE \E p \in Process : AddPeer(p)
    BY <1>1, <1>3, <2>2 DEF AddPeer, Handles, TypeOK
  <2>3. CASE \E m \in Node : Crash(m)
    BY <1>1, <1>3, <2>3 DEF Crash, TypeOK
  <2>4. CASE \E m \in Node : Restart(m)
    <3>1. PICK m \in Node : Restart(m)
      BY <2>4
    <3>2. CASE m = n
      <4>1. life'[n] = life[n] + 1 /\ peers'[n] = {IdOf(<<n, life[n] + 1>>)}
        BY <1>1, <3>1, <3>2 DEF Restart, TypeOK
      <4>. QED
        BY <1>3, <4>1 DEF MyId, Me
    <3>3. CASE m # n
      BY <1>1, <1>3, <3>1, <3>3 DEF Restart, TypeOK
    <3>. QED
      BY <3>2, <3>3
  <2>5. CASE UNCHANGED peers
    BY <1>3, <2>5
  <2>. QED
    BY <2>1, <2>2, <2>3, <2>4, <2>5 DEF Next, ThreadStep, HandlerStep, Ask,
       BootstrapFails, Receive, Link, StartLoop, Handle, AddRemoteShards,
       Answer, Lose, SubmitConsensusOp, SendRaft, Send, Create, Delete, vars
<1>4. ASSUME NEW n \in Node
      PROVE  thread'[n].todo \subseteq thread[n].todo \cup call[Me(n)].answer
  <2>1. CASE \E m \in Node : Receive(m)
    <3>1. PICK m \in Node : Receive(m)
      BY <2>1
    <3>2. CASE m = n
      BY <1>1, <3>1, <3>2 DEF Receive, TypeOK
    <3>3. CASE m # n
      BY <1>1, <3>1, <3>3 DEF Receive, TypeOK
    <3>. QED
      BY <3>2, <3>3
  <2>2. CASE \E m \in Node : Add(m)
    BY <1>1, <2>2 DEF Add, TypeOK
  <2>3. CASE \E m \in Node : Link(m)
    BY <1>1, <2>3 DEF Link, TypeOK, Thread
  <2>4. ASSUME NEW m \in Node, NEW t, t.todo = {}, thread' = [thread EXCEPT ![m] = t]
        PROVE  thread'[n].todo \subseteq thread[n].todo
    BY <1>1, <2>4 DEF TypeOK
  <2>5. CASE UNCHANGED thread
    BY <2>5
  <2>6. CASE \E m \in Node : Ask(m) \/ StartLoop(m)
    BY <1>1, <2>4, <2>6 DEF Ask, StartLoop
  <2>7. CASE \E m \in Node : Ends(m)
    BY <1>1, <2>4, <2>7 DEF Ends
  <2>8. CASE \E m \in Node : Restart(m)
    <3>1. \A m \in Node : StartThread(m).todo = {}
      BY <1>1 DEF StartThread
    <3>. QED
      BY <2>4, <2>8, <3>1 DEF Restart
  <2>9. CASE \E m \in Node : Crash(m)
    BY <2>7, <2>9 DEF Crash
  <2>. QED
    BY <2>1, <2>2, <2>3, <2>5, <2>6, <2>7, <2>8, <2>9 DEF Next, ThreadStep,
       HandlerStep, BootstrapFails, Handle, AddPeer, AddRemoteShards, Answer,
       Lose, SubmitConsensusOp, SendRaft, Send, Create, Delete, vars
<1>5. ASSUME NEW p \in Process
      PROVE  \/ call'[p].answer \subseteq call[p].answer
             \/ /\ Member(p) \in Node
                /\ call'[p].answer \subseteq peers[Member(p)]
  <2>1. CASE \E n \in Node : Ask(n) \/ Receive(n)
    <3>1. PICK n \in Node : Ask(n) \/ Receive(n)
      BY <2>1
    <3>2. call'[Me(n)].answer = {} /\ (p # Me(n) => call'[p] = call[p])
      BY <1>1, <1>2, <3>1 DEF Ask, Receive, TypeOK, Call
    <3>. QED
      BY <3>2
  <2>2. CASE \E q \in Process : Answer(q)
    <3>1. PICK q \in Process : Answer(q)
      BY <2>2
    <3>2. CASE q = p
      <4>1. call'[p].answer = peers[Member(p)] /\ call[p].st = "linked"
        BY <1>1, <3>1, <3>2 DEF Answer, Handles, TypeOK, Call
      <4>2. Member(p) \in Node
        BY <4>1, MemberType DEF Inv
      <4>. QED
        BY <4>1, <4>2
    <3>3. CASE q # p
      BY <1>1, <3>1, <3>3 DEF Answer, TypeOK
    <3>. QED
      BY <3>2, <3>3
  <2>3. CASE \E q \in Process : AddPeer(q) \/ AddRemoteShards(q)
    <3>1. PICK q \in Process : AddPeer(q) \/ AddRemoteShards(q)
      BY <2>3
    <3>2. call[q] \in Call
      BY <1>1 DEF TypeOK
    <3>3. call'[q].answer = call[q].answer /\ (p # q => call'[p] = call[p])
      BY <1>1, <3>1, <3>2 DEF AddPeer, AddRemoteShards, TypeOK, Call
    <3>. QED
      BY <3>3
  <2>4. CASE call'[p] \in {Lost, call[p]}
    BY <2>4 DEF Lost, NotCalled
  <2>5. CASE \E q \in Process : Lose(q)
    BY <1>1, <2>4, <2>5 DEF Lose, TypeOK
  <2>6. CASE \E n \in Node : Crash(n)
    BY <1>1, <2>4, <2>6 DEF Crash
  <2>. QED
    BY <2>1, <2>2, <2>3, <2>4, <2>5, <2>6 DEF Next, ThreadStep, HandlerStep,
       BootstrapFails, Add, Link, StartLoop, Handle, SubmitConsensusOp,
       SendRaft, Send, Create, Delete, Restart, vars
<1>. QED
  BY <1>3, <1>4, <1>5

LEMMA NextIds ==
  ASSUME Inv, [Next]_vars, IdsStarted
  PROVE  IdsStarted'
<1>1. TypeOK /\ TypeOK' /\ CallsOK
  BY NextType DEF Inv
<1>2. /\ \A n \in Node : peers[n] \subseteq PeerId /\ thread[n].todo \subseteq PeerId
      /\ \A p \in Process : call[p].answer \subseteq PeerId
  BY <1>1 DEF TypeOK, Thread, Call
<1>3. /\ \A n \in Node : \A id \in peers[n] \cup thread[n].todo : Started(id)'
      /\ \A p \in Process : \A id \in call[p].answer : Started(id)'
  BY <1>2, StartedStays DEF IdsStarted
<1>4. ASSUME NEW p \in Process, call[p].st # "none"
      PROVE  Started(IdOf(p))'
  <2>1. Started(IdOf(p)) /\ IdOf(p) \in PeerId
    BY <1>1, <1>4, IdStarted, IdType DEF CallsOK
  <2>. QED
    BY <2>1, StartedStays
<1>5. ASSUME NEW n \in Node
      PROVE  Started(MyId(n))'
  <2>1. /\ life'[n] \in Nat /\ MyId(n)' = IdOf(<<n, life'[n]>>)
    BY <1>1 DEF TypeOK, MyId, Me
  <2>2. CASE n \in Named
    <3>1. MyId(n)' = <<n, 0>>
      BY <2>1, <2>2 DEF IdOf
    <3>. QED
      BY <2>1, <3>1 DEF Started
  <2>3. CASE n \notin Named
    <3>1. MyId(n)' = <<n, life'[n]>>
      BY <2>1, <2>3 DEF IdOf
    <3>. QED
      BY <2>1, <2>3, <3>1 DEF Started
  <2>. QED
    BY <2>2, <2>3
<1>6. \A n \in Node : \A id \in peers'[n] \cup thread'[n].todo : Started(id)'
  <2>1. \A n \in Node : Me(n) \in Process
    BY <1>1, MeType
  <2>. QED
    BY <1>3, <1>4, <1>5, <2>1, IdsMove
<1>7. \A p \in Process : \A id \in call'[p].answer : Started(id)'
  BY <1>3, IdsMove
<1>. QED
  BY <1>6, <1>7 DEF IdsStarted

LEMMA IdsHold == Spec => [](Inv /\ IdsStarted)
<1>1. Init => IdsStarted
  <2>. SUFFICES ASSUME Init PROVE IdsStarted
    OBVIOUS
  <2>1. \A n \in Node : peers[n] = {<<n, 0>>} /\ thread[n].todo = {} /\ life[n] = 0
    BY DEF Init, StartThread, At
  <2>2. \A p \in Process : call[p].answer = {}
    BY DEF Init, NotCalled
  <2>. QED
    BY <2>1, <2>2 DEF IdsStarted, Started
<1>. QED
  BY <1>1, InitInv, NextInv, NextIds, PTL DEF Spec

(* A peer has its remote shards on peers of its table; itself it only has  *)
(* among them when it draws its ids, and then under an earlier one.        *)
THEOREM RemotesAreKnownPeersHolds == Spec => []RemotesAreKnownPeers
<1>1. ASSUME Inv, IdsStarted PROVE RemotesAreKnownPeers
  <2>. SUFFICES ASSUME NEW n \in Node, NEW c \in DOMAIN remotes[n],
                       NEW id \in remotes[n][c]
                PROVE  id \in peers[n] /\ (id[1] = n => n \notin Named /\ id[2] < life[n])
    BY DEF RemotesAreKnownPeers
  <2>1. id \in peers[n] /\ id # MyId(n)
    BY <1>1 DEF Inv, RemotesAreOthers
  <2>2. id \in Process /\ life[n] \in Nat
    BY <1>1, <2>1 DEF Inv, TypeOK, PeerId
  <2>3. id[2] \in Nat /\ id = <<id[1], id[2]>>
    BY <2>2 DEF Process
  <2>4. Started(id)
    BY <1>1, <2>1 DEF IdsStarted
  <2>5. ASSUME id[1] = n PROVE n \notin Named /\ id[2] # life[n]
    <3>1. n \in Named => MyId(n) = <<n, 0>>
      BY DEF MyId, Me, IdOf
    <3>2. n \notin Named => MyId(n) = <<n, life[n]>>
      BY DEF MyId, Me, IdOf
    <3>. QED
      BY <2>1, <2>3, <2>4, <2>5, <3>1, <3>2 DEF Started
  <2>. QED
    BY <2>1, <2>2, <2>3, <2>4, <2>5 DEF Started
<1>. QED
  BY <1>1, IdsHold, PTL

(* What a thread in its loop was told, its peer knows.                     *)
LEMMA JoinedKnows ==
  ASSUME Inv, NEW n \in Node, Joined(n), NEW id, Told(Me(n), id)
  PROVE  Knows(n, id)
<1>1. Bound(Me(n), n) /\ thread[n].st = "loop" /\ call[Me(n)].st = "taken"
  BY DEF Joined, Bound
<1>. QED
  BY <1>1 DEF Told, WillKnow

(* When a peer has joined, it and the running process of its member know   *)
(* each other, and have each other as remotes in their old collections.    *)
THEOREM JoinedIsLinkedHolds == Spec => []JoinedIsLinked
<1>1. ASSUME Inv, NEW n \in Node, Joined(n), up[Bootstrap[n]],
             call[Me(n)].at = Me(Bootstrap[n])
      PROVE  Knows(Bootstrap[n], MyId(n)) /\ Knows(n, MyId(Bootstrap[n]))
  <2>1. Me(n) \in Process /\ call[Me(n)].st = "taken"
    BY <1>1, MeType DEF Inv, Joined
  <2>2. Member(Me(n)) = Bootstrap[n]
    BY <1>1 DEF Member, Me
  <2>3. Knows(Bootstrap[n], MyId(n))
    BY <1>1, <2>1, <2>2 DEF Inv, MemberOK, Reachable, MyId
  <2>4. Told(Me(n), MyId(Bootstrap[n]))
    BY <1>1, <2>1 DEF Inv, CallerOK, MyId
  <2>. QED
    BY <1>1, <2>3, <2>4, JoinedKnows
<1>2. Inv => JoinedIsLinked
  BY <1>1 DEF JoinedIsLinked
<1>. QED
  BY <1>2, InvHolds, PTL

(* Of two peers that joined through one process of a member, one knows the *)
(* other, also when that process has ended.                                *)
THEOREM JoinersMeetHolds == Spec => []JoinersMeet
<1>1. ASSUME Inv, NEW n \in Node, NEW q \in Node, n # q, Joined(n), Joined(q),
             call[Me(n)].at = call[Me(q)].at
      PROVE  Knows(n, MyId(q)) \/ Knows(q, MyId(n))
  <2>1. /\ Me(n) \in Process /\ Me(q) \in Process /\ Me(n)[1] # Me(q)[1]
        /\ call[Me(n)].st = "taken" /\ call[Me(q)].st = "taken"
    BY <1>1, MeType DEF Inv, Joined
  <2>2. Told(Me(n), MyId(q)) \/ Told(Me(q), MyId(n))
    BY <1>1, <2>1 DEF Inv, CallersOK, MyId
  <2>. QED
    BY <1>1, <2>2, JoinedKnows
<1>2. Inv => JoinersMeet
  BY <1>1 DEF JoinersMeet
<1>. QED
  BY <1>2, InvHolds, PTL
=============================================================================
