---------------------------- MODULE EPaxosProofs ----------------------------
(***************************************************************************)
(* Theorems about EPaxos, for any set of replicas, any commands, any       *)
(* number of instances and restarts, and any order of messages.            *)
(***************************************************************************)
EXTENDS EPaxos, FiniteSetTheorems, WellFoundedInduction, TLAPS

-----------------------------------------------------------------------------
(* A set of natural numbers with finitely many elements has a maximum.     *)
(* It is the step from the finite instance spaces to the sequence numbers  *)
(* of seqAndDepsForCommand.  The proof takes a smallest counterexample.    *)
LEMMA FiniteNatMax ==
  ASSUME NEW S \in SUBSET Nat, IsFiniteSet(S), S # {}
  PROVE  \E x \in S : \A y \in S : x >= y
<1> DEFINE Bad == {n \in Nat : \E T \in SUBSET Nat :
                     /\ IsFiniteSet(T) /\ Cardinality(T) = n /\ T # {}
                     /\ ~ \E x \in T : \A y \in T : x >= y}
<1>1. SUFFICES ASSUME Bad # {} PROVE FALSE
  <2>1. Cardinality(S) \in Nat BY FS_CardinalityType
  <2> QED BY <2>1
<1>2. PICK n \in Bad : \A k \in Bad : ~ (<<k, n>> \in OpToRel(<, Nat))
  BY ZenonT(30), <1>1, WFMin, NatLessThanWellFounded
<1>3. \A k \in Bad : ~ (k < n)
  BY ZenonT(30), <1>2 DEF OpToRel
<1>4. PICK T \in SUBSET Nat : /\ IsFiniteSet(T) /\ Cardinality(T) = n /\ T # {}
                              /\ ~ \E x \in T : \A y \in T : x >= y
  BY ZenonT(30), <1>2
<1>5. PICK t \in T : TRUE BY ZenonT(30), <1>4
<1> DEFINE U == T \ {t}
<1>6. IsFiniteSet(U) /\ Cardinality(U) = n - 1 /\ n - 1 \in Nat
  <2>1. n \in Nat /\ n # 0 BY <1>4, FS_EmptySet
  <2>2. IsFiniteSet(U) /\ Cardinality(U) = n - 1 BY <1>4, <1>5, FS_RemoveElement
  <2> QED BY <2>1, <2>2
<1>7. CASE U = {}
  BY <1>4, <1>5, <1>7
<1>8. CASE U # {}
  <2>1. n - 1 \notin Bad BY <1>3, <1>6
  <2>2. PICK x \in U : \A y \in U : x >= y BY <2>1, <1>6, <1>8
  <2>3. CASE x >= t BY <2>2, <2>3, <1>4, <1>5
  <2>4. CASE t > x
    <3>1. \A y \in T : t >= y BY <2>2, <2>4, <1>5
    <3> QED BY <3>1, <1>4, <1>5
  <2> QED BY <2>2, <2>3, <2>4, <1>5
<1> QED BY <1>7, <1>8

(* The maximum of the empty set is taken to be 0.                          *)
LEMMA MaxSeqNumType ==
  ASSUME NEW S \in SUBSET Nat, IsFiniteSet(S)
  PROVE  MaxSeqNum(S) \in Nat
BY ZenonT(30), FiniteNatMax DEF MaxSeqNum, Max

(* pb.MaxSeqNum of two sequence numbers is one of them.                    *)
LEMMA MaxOfTwo ==
  ASSUME NEW a \in Nat, NEW b \in Nat
  PROVE  Max({a, b}) \in Nat
<1>1. \E x \in {a, b} : \A y \in {a, b} : x >= y
  BY SMT
<1>2. Max({a, b}) \in {a, b} BY <1>1 DEF Max
<1> QED BY <1>2

(* The instance identifiers are finitely many.                             *)
LEMMA InstanceIDFinite == IsFiniteSet(InstanceID)
<1>1. IsFiniteSet(1..MaxInstanceNum)
  BY ConstantsAssumption, FS_Interval
<1> QED BY <1>1, ConstantsAssumption, FS_Product DEF InstanceID

(* The sequence numbers of a set of instances are finitely many.           *)
LEMMA SeqsFinite ==
  ASSUME NEW l \in [InstanceID -> InstanceState], NEW X \in SUBSET InstanceID
  PROVE  {l[x].seq : x \in X} \in SUBSET Nat /\ IsFiniteSet({l[x].seq : x \in X})
<1> DEFINE T == {l[x].seq : x \in X}
           f == [x \in X |-> l[x].seq]
<1>1. IsFiniteSet(X) BY InstanceIDFinite, FS_Subset
<1>2. f \in Surjection(X, T) BY DEF Surjection
<1>3. IsFiniteSet(T) BY <1>1, <1>2, FS_Surjection
<1>4. T \subseteq Nat BY DEF InstanceState
<1> QED BY <1>3, <1>4

(* What a replica computes for a command from a well-typed log is          *)
(* well-typed (seqAndDepsForCommand).                                      *)
LEMMA SeqAndDepsType ==
  ASSUME NEW l \in [InstanceID -> InstanceState], NEW c, NEW ignored
  PROVE  /\ seqAndDepsForCommand(l, c, ignored).maxSeq \in Nat
         /\ seqAndDepsForCommand(l, c, ignored).deps \in SUBSET InstanceID
<1>1. \A X \in SUBSET InstanceID : MaxSeqNum({l[x].seq : x \in X}) \in Nat
  BY ZenonT(30), SeqsFinite, MaxSeqNumType
<1>2. DOMAIN l = InstanceID OBVIOUS
<1> HIDE DEF MaxSeqNum
<1> QED BY ZenonT(30), <1>1, <1>2 DEF seqAndDepsForCommand

(* The executor delivers a sequence of committed instances.                *)
LEMMA ExecutionOrdersType ==
  ASSUME NEW l \in [InstanceID -> InstanceState], NEW order \in ExecutionOrders(l)
  PROVE  /\ order \in Seq(InstanceID)
         /\ \A id \in Range(order) : id \in InstanceID /\ l[id].status = "Committed"
<1>1. Executable(l) \subseteq {id \in InstanceID : l[id].status = "Committed"}
  BY DEF Executable, Vertices
<1>2. IsFiniteSet(Executable(l)) BY <1>1, InstanceIDFinite, FS_Subset
<1>3. Cardinality(Executable(l)) \in Nat BY <1>2, FS_CardinalityType
<1>4. order \in [1..Cardinality(Executable(l)) -> Executable(l)]
  BY DEF ExecutionOrders, Injection
<1>5. Range(order) \subseteq Executable(l) BY <1>4 DEF Range
<1>6. order \in Seq(InstanceID) BY <1>1, <1>3, <1>4
<1> QED BY <1>1, <1>5, <1>6

(* What prepareToExecute does to a replica whose log became l: instances   *)
(* go from Committed to Executed, their data and the other replicas stay   *)
(* as they are, and what changed status or was to be persisted is stored.  *)
LEMMA PrepareToExecute ==
  ASSUME TypeOK, NEW p \in Nodes, NEW l \in [InstanceID -> InstanceState],
         NEW persisted \in SUBSET InstanceID,
         prepareToExecute(p, l, persisted)
  PROVE  /\ log' \in [Nodes -> [InstanceID -> InstanceState]]
         /\ stored' \in [Nodes -> [InstanceID -> InstanceState]]
         /\ executed' \in [Nodes -> Seq(InstanceID)]
         /\ \A q \in Nodes : q # p => log'[q] = log[q] /\ stored'[q] = stored[q]
         /\ \A id \in InstanceID :
              /\ SameData(log'[p][id], l[id])
              /\ \/ log'[p][id] = l[id]
                 \/ /\ l[id].status = "Committed" /\ log'[p][id].status = "Executed"
                    /\ stored'[p][id] = log'[p][id]
              /\ \/ stored'[p][id] = log'[p][id]
                 \/ id \notin persisted /\ stored'[p][id] = stored[p][id]
<1>1. PICK order \in ExecutionOrders(l) : Execute(p, l, order, persisted)
  BY DEF prepareToExecute
<1> DEFINE done == Range(order)
           l2 == [id \in InstanceID |->
                    IF id \in done THEN [l[id] EXCEPT !.status = "Executed"] ELSE l[id]]
           s2 == [id \in InstanceID |->
                    IF id \in done \cup persisted THEN l2[id] ELSE stored[p][id]]
<1>2. /\ log' = [log EXCEPT ![p] = l2]
      /\ stored' = [stored EXCEPT ![p] = s2]
      /\ executed' = [executed EXCEPT ![p] = executed[p] \o order]
  BY <1>1 DEF Execute
<1>3. /\ order \in Seq(InstanceID)
      /\ \A id \in done : id \in InstanceID /\ l[id].status = "Committed"
  BY <1>1, ExecutionOrdersType
<1>4. \A id \in InstanceID :
        /\ l2[id] \in InstanceState /\ SameData(l2[id], l[id])
        /\ l2[id] = l[id] \/ (id \in done /\ l2[id].status = "Executed")
  BY DEF InstanceState, Status, SameData
<1> HIDE DEF done
<1>5. l2 \in [InstanceID -> InstanceState] BY <1>4
<1>6. s2 \in [InstanceID -> InstanceState] BY <1>4 DEF TypeOK
<1>7. executed[p] \o order \in Seq(InstanceID) BY <1>3 DEF TypeOK
<1>8. /\ \A id \in InstanceID : log'[p][id] = l2[id] /\ stored'[p][id] = s2[id]
      /\ \A q \in Nodes : q # p => log'[q] = log[q] /\ stored'[q] = stored[q]
  BY <1>2 DEF TypeOK
<1>9. \A id \in InstanceID :
        /\ id \in done => s2[id] = l2[id]
        /\ id \notin persisted => s2[id] = l2[id] \/ s2[id] = stored[p][id]
        /\ id \in persisted => s2[id] = l2[id]
  OBVIOUS
<1>10. /\ log' \in [Nodes -> [InstanceID -> InstanceState]]
       /\ stored' \in [Nodes -> [InstanceID -> InstanceState]]
       /\ executed' \in [Nodes -> Seq(InstanceID)]
  BY <1>2, <1>5, <1>6, <1>7 DEF TypeOK
<1> HIDE DEF l2, s2
<1> QED BY ZenonT(30), <1>3, <1>4, <1>8, <1>9, <1>10

-----------------------------------------------------------------------------
(* Type correctness.                                                       *)

(* Broadcasts of an instance state are messages.                           *)
LEMMA BroadcastType ==
  ASSUME NEW type \in Requests, NEW id \in InstanceID, NEW is \in InstanceState,
         NEW e \in Nat
  PROVE  Broadcast(type, id, is, e) \subseteq Message
<1>1. id[1] \in Nodes BY DEF InstanceID
<1> QED BY <1>1 DEF Broadcast, Message, InstanceState

(* Replies to a message are messages.                                      *)
LEMMA ReplyType ==
  ASSUME NEW m \in Message, NEW type \in Replies, NEW seq \in Nat,
         NEW deps \in SUBSET InstanceID
  PROVE  Reply(m, type, seq, deps) \in Message
<1>1. m.id[1] \in Nodes BY DEF Message, InstanceID
<1> QED BY <1>1 DEF Reply, Message

(* The messages a restart sends are messages.                              *)
LEMMA RestartTransitionType ==
  ASSUME NEW id \in InstanceID, NEW is \in InstanceState, NEW e \in Nat
  PROVE  restartTransition(id, is, e) \subseteq Message
<1> DEFINE type == CASE is.status = "PreAccepted" -> "PreAccept"
                     [] is.status = "Accepted" -> "Accept"
                     [] OTHER -> "Commit"
<1>1. type \in Requests BY DEF Requests
<1> HIDE DEF type
<1>2. Broadcast(type, id, is, e) \subseteq Message BY <1>1, BroadcastType
<1> QED BY <1>2 DEF restartTransition, type

(* The transitions of a leader's instance keep the types.                  *)
LEMMA AcceptType ==
  ASSUME TypeOK, NEW p \in Nodes, NEW id \in InstanceID, NEW is \in InstanceState,
         NEW rest \in SUBSET Message, Accept(p, id, is, rest)
  PROVE  /\ log' \in [Nodes -> [InstanceID -> InstanceState]]
         /\ stored' \in [Nodes -> [InstanceID -> InstanceState]]
         /\ executed' \in [Nodes -> Seq(InstanceID)]
         /\ msgs' \subseteq Message
<1>1. [is EXCEPT !.status = "Accepted"] \in InstanceState
  BY DEF InstanceState, Status
<1>2. Broadcast("Accept", id, is, epoch[p]) \subseteq Message
  BY BroadcastType DEF TypeOK, Requests
<1> QED BY <1>1, <1>2 DEF Accept, persist, TypeOK

(* transitionTo(Committed) keeps the types: the execution step and the     *)
(* Commit broadcast.                                                       *)
LEMMA CommitType ==
  ASSUME TypeOK, NEW p \in Nodes, NEW id \in InstanceID, NEW is \in InstanceState,
         NEW rest \in SUBSET Message, Commit(p, id, is, rest)
  PROVE  /\ log' \in [Nodes -> [InstanceID -> InstanceState]]
         /\ stored' \in [Nodes -> [InstanceID -> InstanceState]]
         /\ executed' \in [Nodes -> Seq(InstanceID)]
         /\ msgs' \subseteq Message
<1> DEFINE l == [log[p] EXCEPT ![id] = [is EXCEPT !.status = "Committed"]]
<1>1. l \in [InstanceID -> InstanceState] BY ZenonT(30) DEF TypeOK, InstanceState, Status
<1>2. Broadcast("Commit", id, is, epoch[p]) \subseteq Message
  BY BroadcastType DEF TypeOK, Requests
<1>3. prepareToExecute(p, l, {id}) /\ msgs' = rest \cup Broadcast("Commit", id, is, epoch[p])
  BY DEF Commit
<1> HIDE DEF l
<1> QED BY <1>1, <1>2, <1>3, PrepareToExecute

(* Counting a reply to a PreAccept keeps the types on the fast path, on    *)
(* the slow path and while the leader waits.                               *)
LEMMA EitherReplyType ==
  ASSUME TypeOK, NEW m \in msgs, NEW is \in InstanceState, NEW ld \in LeaderState,
         onEitherPreAcceptReply(m, is, ld)
  PROVE  /\ log' \in [Nodes -> [InstanceID -> InstanceState]]
         /\ stored' \in [Nodes -> [InstanceID -> InstanceState]]
         /\ executed' \in [Nodes -> Seq(InstanceID)]
         /\ msgs' \subseteq Message
         /\ lead' \in [InstanceID -> LeaderState]
<1>1. m.to \in Nodes /\ m.id \in InstanceID /\ msgs \ {m} \in SUBSET Message
  BY DEF TypeOK, Message
<1>2. unregisterTimer(ld) \in LeaderState
  BY DEF unregisterTimer, LeaderState, Paused, slowPathTimout
<1>3. CASE Commit(m.to, m.id, is, msgs \ {m})
           /\ lead' = [lead EXCEPT ![m.id] = unregisterTimer(ld)]
  BY <1>1, <1>2, <1>3, CommitType DEF TypeOK
<1>4. CASE Accept(m.to, m.id, is, msgs \ {m})
           /\ lead' = [lead EXCEPT ![m.id] = unregisterTimer(ld)]
  BY <1>1, <1>2, <1>4, AcceptType DEF TypeOK
<1> DEFINE replies == ld.preAcceptReplies + 1
           fast == ~ ld.differentReplies /\ fastQuorum(replies)
           arm == ~ fast /\ quorum(replies) /\ ~ ld.differentReplies /\ ld.slowPathTimer = Paused
<1>5. CASE /\ log' = [log EXCEPT ![m.to][m.id] = is]
           /\ lead' = [lead EXCEPT ![m.id] =
                         [ld EXCEPT !.slowPathTimer = IF arm THEN 0 ELSE @]]
           /\ msgs' = msgs \ {m}
           /\ UNCHANGED <<stored, executed>>
  <2>1. [ld EXCEPT !.slowPathTimer = IF arm THEN 0 ELSE @] \in LeaderState
    <3> HIDE DEF arm
    <3> QED BY DEF LeaderState, Paused, slowPathTimout
  <2> HIDE DEF arm
  <2> QED BY <1>1, <1>5, <2>1 DEF TypeOK
<1> QED BY <1>3, <1>4, <1>5 DEF onEitherPreAcceptReply

(* The updates of an instance state and of a leader state keep the types.  *)
LEMMA StatusUpdate ==
  ASSUME NEW is \in InstanceState, NEW s \in Status, NEW n \in Nat,
         NEW d \in SUBSET InstanceID
  PROVE  /\ [is EXCEPT !.status = s] \in InstanceState
         /\ [is EXCEPT !.status = s, !.seq = n, !.deps = d] \in InstanceState
BY ZenonT(30) DEF InstanceState

(* Counting a reply and setting the slow path timer keep the type of the   *)
(* leader state.                                                           *)
LEMMA LeaderUpdate ==
  ASSUME NEW ld \in LeaderState
  PROVE  /\ \A n \in Nat : [ld EXCEPT !.preAcceptReplies = n] \in LeaderState
         /\ \A n \in Nat, b \in BOOLEAN :
              [ld EXCEPT !.preAcceptReplies = n, !.differentReplies = b] \in LeaderState
         /\ \A t \in Paused..(slowPathTimout - 1) :
              [ld EXCEPT !.slowPathTimer = t] \in LeaderState
BY ZenonT(30) DEF LeaderState

(* onRequest keeps the types.                                              *)
LEMMA RequestType ==
  ASSUME TypeOK, NEW p \in Nodes, NEW c \in Command, Request(p, c)
  PROVE  TypeOK'
<1> DEFINE id == <<p, maxInstanceNum(p) + 1>>
           local == seqAndDepsForCommand(log[p], c, <<0, 0>>)
           is == [status |-> "PreAccepted", cmd |-> c, seq |-> local.maxSeq + 1,
                  deps |-> local.deps]
<1>1. local.maxSeq \in Nat /\ local.deps \in SUBSET InstanceID
  BY ZenonT(30), SeqAndDepsType DEF TypeOK
<1>2. is \in InstanceState
  <2> HIDE DEF local
  <2> QED BY <1>1 DEF InstanceState, Status
<1>3. id \in InstanceID BY DEF Request
<1>4. CASE Panic(p) /\ UNCHANGED msgs BY <1>4 DEF Panic, TypeOK
<1>5. CASE /\ log' = [log EXCEPT ![p][id] = is]
           /\ stored' = [stored EXCEPT ![p][id] = is]
           /\ UNCHANGED <<lead, executed, epoch, crashed>>
           /\ msgs' = msgs \cup Broadcast("PreAccept", id, is, epoch[p])
  <2> HIDE DEF is, id
  <2>1. Broadcast("PreAccept", id, is, epoch[p]) \subseteq Message
    BY <1>2, <1>3, BroadcastType DEF TypeOK, Requests
  <2> QED BY <1>2, <1>3, <1>5, <2>1 DEF TypeOK
<1> QED BY <1>4, <1>5 DEF Request, persist

(* A handler's early return keeps the types.                               *)
LEMMA IgnoreType ==
  ASSUME TypeOK, NEW m \in msgs, Ignore(m)
  PROVE  TypeOK'
BY DEF Ignore, TypeOK

(* onPreAccept keeps the types.                                            *)
LEMMA PreAcceptType ==
  ASSUME TypeOK, NEW m \in msgs, onPreAccept(m)
  PROVE  TypeOK'
<1> DEFINE p == m.to
           local == seqAndDepsForCommand(log[p], m.cmd, m.id)
           seq == Max({m.seq, local.maxSeq + 1})
           deps == local.deps \cup m.deps
           is == [status |-> "PreAccepted", cmd |-> m.cmd, seq |-> seq, deps |-> deps]
           same == seq = m.seq /\ Cardinality(deps) = Cardinality(m.deps)
           reply == IF same THEN Reply(m, "PreAcceptOK", 0, {})
                    ELSE Reply(m, "PreAcceptReply", seq, deps)
<1>1. /\ m \in Message /\ p \in Nodes /\ m.id \in InstanceID /\ m.seq \in Nat
      /\ m.deps \in SUBSET InstanceID /\ m.cmd \in Command \cup {Nil}
  BY DEF TypeOK, Message
<1>2. local.maxSeq \in Nat /\ local.deps \in SUBSET InstanceID
  BY ZenonT(30), <1>1, SeqAndDepsType DEF TypeOK
<1>3. seq \in Nat /\ deps \in SUBSET InstanceID
  <2> HIDE DEF local
  <2>1. local.maxSeq + 1 \in Nat BY <1>2
  <2>2. seq \in Nat BY Zenon, <1>1, <2>1, MaxOfTwo
  <2> QED BY <1>1, <1>2, <2>2
<1>4. is \in InstanceState
  <2> HIDE DEF seq, deps
  <2> QED BY <1>1, <1>3 DEF InstanceState, Status
<1>5. reply \in Message
  <2> HIDE DEF seq, deps
  <2> QED BY <1>1, <1>3, ReplyType DEF Replies
<1>6. CASE Panic(p) /\ msgs' = msgs \ {m} BY <1>1, <1>6 DEF Panic, TypeOK
<1>7. CASE /\ log' = [log EXCEPT ![p][m.id] = is]
           /\ msgs' = (msgs \ {m}) \cup {reply}
           /\ UNCHANGED <<lead, stored, executed, epoch, crashed>>
  <2> HIDE DEF is, reply
  <2> QED BY <1>1, <1>4, <1>5, <1>7 DEF TypeOK
<1> QED BY ZenonT(30), <1>6, <1>7 DEF onPreAccept

(* onPreAcceptOK keeps the types.                                          *)
LEMMA PreAcceptOKType ==
  ASSUME TypeOK, NEW m \in msgs, onPreAcceptOK(m)
  PROVE  TypeOK'
<1> DEFINE ld == [lead[m.id] EXCEPT !.preAcceptReplies = @ + 1]
<1>1. lead[m.id] \in LeaderState /\ log[m.to][m.id] \in InstanceState
  BY DEF TypeOK, Message
<1>3. ld \in LeaderState
  <2>1. lead[m.id].preAcceptReplies + 1 \in Nat BY <1>1 DEF LeaderState
  <2> QED BY ZenonT(30), <1>1, <2>1, LeaderUpdate
<1>2. onEitherPreAcceptReply(m, log[m.to][m.id], ld) /\ UNCHANGED <<epoch, crashed>>
  BY DEF onPreAcceptOK
<1> HIDE DEF ld
<1> QED BY <1>1, <1>2, <1>3, EitherReplyType DEF TypeOK

(* onPreAcceptReply keeps the types.                                       *)
LEMMA PreAcceptReplyType ==
  ASSUME TypeOK, NEW m \in msgs, onPreAcceptReply(m)
  PROVE  TypeOK'
<1> DEFINE is == log[m.to][m.id]
           merged == [is EXCEPT !.seq = Max({@, m.seq}), !.deps = unionDepSlices(@, m.deps)]
           ld == [lead[m.id] EXCEPT !.preAcceptReplies = @ + 1,
                                    !.differentReplies = @ \/ merged # is]
<1>1. /\ is \in InstanceState /\ lead[m.id] \in LeaderState
      /\ m.seq \in Nat /\ m.deps \in SUBSET InstanceID
  BY DEF TypeOK, Message
<1>2. merged \in InstanceState
  <2>1. Max({is.seq, m.seq}) \in Nat BY <1>1, MaxOfTwo DEF InstanceState
  <2> QED BY ZenonT(30), <1>1, <2>1 DEF InstanceState, unionDepSlices
<1>3. ld \in LeaderState
  <2> HIDE DEF merged, is
  <2>1. lead[m.id].preAcceptReplies + 1 \in Nat BY <1>1 DEF LeaderState
  <2>2. (lead[m.id].differentReplies \/ merged # is) \in BOOLEAN OBVIOUS
  <2> QED BY ZenonT(30), <1>1, <2>1, <2>2, LeaderUpdate
<1>4. onEitherPreAcceptReply(m, merged, ld) /\ UNCHANGED <<epoch, crashed>>
  BY DEF onPreAcceptReply
<1> HIDE DEF merged, ld
<1> QED BY <1>2, <1>3, <1>4, EitherReplyType DEF TypeOK

(* onAccept keeps the types.                                               *)
LEMMA AcceptMessageType ==
  ASSUME TypeOK, NEW m \in msgs, onAccept(m)
  PROVE  TypeOK'
<1>1. m \in Message /\ m.to \in Nodes /\ m.id \in InstanceID BY DEF TypeOK, Message
<1>2. [log[m.to][m.id] EXCEPT !.status = "Accepted", !.seq = m.seq, !.deps = m.deps]
        \in InstanceState
  <2>1. log[m.to][m.id] \in InstanceState /\ m.seq \in Nat /\ m.deps \in SUBSET InstanceID
    BY DEF TypeOK, Message
  <2> QED BY ZenonT(30), <2>1, StatusUpdate DEF Status
<1>3. Reply(m, "AcceptOK", 0, {}) \in Message BY <1>1, ReplyType DEF Replies
<1> QED BY <1>1, <1>2, <1>3 DEF onAccept, TypeOK

(* onAcceptOK keeps the types.                                             *)
LEMMA AcceptOKType ==
  ASSUME TypeOK, NEW m \in msgs, onAcceptOK(m)
  PROVE  TypeOK'
<1>1. /\ m.to \in Nodes /\ m.id \in InstanceID /\ msgs \ {m} \in SUBSET Message
      /\ log[m.to][m.id] \in InstanceState
  BY DEF TypeOK, Message
<1>2. lead' \in [InstanceID -> LeaderState] /\ UNCHANGED <<epoch, crashed>>
  <2>1. lead[m.id] \in LeaderState /\ lead[m.id].acceptReplies + 1 \in Nat
    BY <1>1 DEF TypeOK, LeaderState
  <2>2. [lead[m.id] EXCEPT !.acceptReplies = lead[m.id].acceptReplies + 1] \in LeaderState
    BY <2>1 DEF LeaderState
  <2>3. lead' = [lead EXCEPT ![m.id].acceptReplies = lead[m.id].acceptReplies + 1]
    BY DEF onAcceptOK
  <2>4. UNCHANGED <<epoch, crashed>> BY DEF onAcceptOK
  <2> QED BY <1>1, <2>2, <2>3, <2>4 DEF TypeOK
<1>3. CASE Commit(m.to, m.id, log[m.to][m.id], msgs \ {m})
  BY <1>1, <1>2, <1>3, CommitType DEF TypeOK
<1>4. CASE msgs' = msgs \ {m} /\ UNCHANGED <<log, stored, executed>>
  BY <1>1, <1>2, <1>4 DEF TypeOK
<1> QED BY <1>3, <1>4 DEF onAcceptOK

(* onCommit keeps the types.                                               *)
LEMMA CommitMessageType ==
  ASSUME TypeOK, NEW m \in msgs, onCommit(m)
  PROVE  TypeOK'
<1> DEFINE l == [log[m.to] EXCEPT ![m.id] = [status |-> "Committed", cmd |-> m.cmd,
                                             seq |-> m.seq, deps |-> m.deps]]
<1>1. m.to \in Nodes /\ l \in [InstanceID -> InstanceState]
  BY DEF TypeOK, Message, InstanceState, Status
<1>2. prepareToExecute(m.to, l, {}) /\ msgs' = msgs \ {m} /\ UNCHANGED <<lead, epoch, crashed>>
  BY DEF onCommit
<1> HIDE DEF l
<1>3. {} \in SUBSET InstanceID /\ msgs \ {m} \subseteq Message BY DEF TypeOK
<1>4. /\ log' \in [Nodes -> [InstanceID -> InstanceState]]
      /\ stored' \in [Nodes -> [InstanceID -> InstanceState]]
      /\ executed' \in [Nodes -> Seq(InstanceID)]
  BY <1>1, <1>2, <1>3, PrepareToExecute
<1> QED BY <1>2, <1>3, <1>4 DEF TypeOK

(* Tick keeps the types.                                                   *)
LEMMA TickType ==
  ASSUME TypeOK, NEW p \in Nodes, Tick(p)
  PROVE  TypeOK'
<1> DEFINE set == {id \in InstanceID : id[1] = p /\ lead[id].slowPathTimer # Paused}
           fired == {id \in set : Expires(lead[id].slowPathTimer)}
           accepted == [id \in InstanceID |-> [log[p][id] EXCEPT !.status = "Accepted"]]
           sent == UNION {Broadcast("Accept", id, log[p][id], epoch[p]) : id \in fired}
<1>1. \A id \in InstanceID : accepted[id] \in InstanceState
  <2>1. \A id \in InstanceID : log[p][id] \in InstanceState BY DEF TypeOK
  <2> QED BY ZenonT(30), <2>1, StatusUpdate DEF Status
<1>2. \A id \in InstanceID :
        LET t == lead[id].slowPathTimer
            u == IF id \in fired THEN Paused ELSE t + 1
        IN  id \in set => [lead[id] EXCEPT !.slowPathTimer = u] \in LeaderState
  <2> SUFFICES ASSUME NEW id \in set
               PROVE  [lead[id] EXCEPT !.slowPathTimer =
                         IF id \in fired THEN Paused ELSE lead[id].slowPathTimer + 1]
                        \in LeaderState
    OBVIOUS
  <2>1. lead[id] \in LeaderState BY DEF TypeOK
  <2> DEFINE t == lead[id].slowPathTimer
  <2>2. t \in Int /\ t >= -1 BY <2>1 DEF LeaderState, Paused, slowPathTimout
  <2>3. id \notin fired => ~ (t + 1 >= slowPathTimout) BY DEF Expires
  <2>4. (IF id \in fired THEN Paused ELSE t + 1) \in Paused..(slowPathTimout - 1)
    <3> HIDE DEF fired, t
    <3> QED BY <2>2, <2>3 DEF Paused, slowPathTimout
  <2> QED BY ZenonT(30), <2>1, <2>4, LeaderUpdate
<1>3. \A id \in fired : Broadcast("Accept", id, log[p][id], epoch[p]) \subseteq Message
  BY BroadcastType DEF TypeOK, Requests
<1>4. sent \subseteq Message BY <1>3
<1>5. /\ lead' = [id \in InstanceID |->
           IF id \notin set THEN lead[id]
           ELSE [lead[id] EXCEPT !.slowPathTimer = IF id \in fired THEN Paused ELSE @ + 1]]
      /\ log' = [log EXCEPT ![p] =
           [id \in InstanceID |-> IF id \in fired THEN accepted[id] ELSE @[id]]]
      /\ stored' = [stored EXCEPT ![p] =
           [id \in InstanceID |-> IF id \in fired THEN accepted[id] ELSE @[id]]]
      /\ msgs' = msgs \cup sent
      /\ UNCHANGED <<executed, epoch, crashed>>
  BY DEF Tick
<1> HIDE DEF set, fired, accepted, sent
<1>6. lead' \in [InstanceID -> LeaderState]
  BY <1>2, <1>5 DEF TypeOK
<1>7. /\ log' \in [Nodes -> [InstanceID -> InstanceState]]
      /\ stored' \in [Nodes -> [InstanceID -> InstanceState]]
  BY <1>1, <1>5 DEF TypeOK
<1> QED BY <1>4, <1>5, <1>6, <1>7 DEF TypeOK

(* A restart keeps the types.                                              *)
LEMMA RestartType ==
  ASSUME TypeOK, NEW p \in Nodes, Restart(p)
  PROVE  TypeOK'
<1> DEFINE unfinished == {id \in InstanceID :
                            id[1] = p /\ stored[p][id].status \notin {"None", "Executed"}}
           sent == UNION {restartTransition(id, stored[p][id], epoch[p] + 1) : id \in unfinished}
<1>1. \A id \in unfinished : restartTransition(id, stored[p][id], epoch[p] + 1) \subseteq Message
  BY RestartTransitionType DEF TypeOK
<1>2. sent \subseteq Message BY <1>1
<1>3. NewLeader \in LeaderState
  BY DEF NewLeader, LeaderState, Paused, slowPathTimout
<1>4. /\ lead' = [id \in InstanceID |-> IF id[1] = p THEN NewLeader ELSE lead[id]]
      /\ epoch' = [epoch EXCEPT ![p] = @ + 1]
      /\ crashed' = crashed \ {p}
      /\ prepareToExecute(p, stored[p], {})
      /\ msgs' = msgs \cup sent
  BY DEF Restart
<1>5. stored[p] \in [InstanceID -> InstanceState] /\ {} \in SUBSET InstanceID BY DEF TypeOK
<1> HIDE DEF sent
<1>6. lead' \in [InstanceID -> LeaderState] /\ epoch' \in [Nodes -> Nat]
  BY <1>3, <1>4 DEF TypeOK
<1>7. /\ log' \in [Nodes -> [InstanceID -> InstanceState]]
      /\ stored' \in [Nodes -> [InstanceID -> InstanceState]]
      /\ executed' \in [Nodes -> Seq(InstanceID)]
  BY <1>4, <1>5, PrepareToExecute
<1> QED BY <1>2, <1>4, <1>6, <1>7 DEF TypeOK

(* Every step keeps the types.                                             *)
LEMMA TypeStep == TypeOK /\ [Next]_vars => TypeOK'
<1> SUFFICES ASSUME TypeOK, [Next]_vars PROVE TypeOK'
  OBVIOUS
<1>1. ASSUME NEW p \in Nodes, NEW c \in Command, Request(p, c) PROVE TypeOK'
  BY <1>1, RequestType
<1>2. ASSUME NEW m \in msgs, Step(m) PROVE TypeOK'
  BY <1>2, IgnoreType, PreAcceptType, PreAcceptOKType, PreAcceptReplyType,
     AcceptMessageType, AcceptOKType, CommitMessageType DEF Step
<1>3. ASSUME NEW p \in Nodes, Tick(p) \/ Restart(p) PROVE TypeOK'
  BY <1>3, TickType, RestartType
<1>4. CASE UNCHANGED vars BY <1>4 DEF vars, TypeOK
<1> QED BY <1>1, <1>2, <1>3, <1>4 DEF Next

(* The replicas' state has its types in every reachable state.             *)
THEOREM TypeCorrect == Spec => []TypeOK
<1>1. NewInstance \in InstanceState BY DEF NewInstance, InstanceState, Status
<1>2. NewLeader \in LeaderState
  BY DEF NewLeader, LeaderState, Paused, slowPathTimout
<1>3. Init => TypeOK BY <1>1, <1>2 DEF Init, TypeOK
<1> QED BY <1>3, TypeStep, PTL DEF Spec

(* No replica has restarted.                                               *)
NoneRestarted == \A p \in Nodes : epoch[p] = 0

(* Restarts are counted for good.                                          *)
LEMMA RestartsCounted == TypeOK /\ [Next]_vars /\ NoneRestarted' => NoneRestarted
<1> SUFFICES ASSUME TypeOK, [Next]_vars, NoneRestarted' PROVE NoneRestarted
  OBVIOUS
<1>1. ASSUME NEW p \in Nodes, NEW c \in Command, Request(p, c) PROVE UNCHANGED epoch
  BY <1>1 DEF Request, Panic
<1>2. ASSUME NEW m \in msgs, Step(m) PROVE UNCHANGED epoch
  BY Zenon, <1>2 DEF Step, Ignore, onPreAccept, Panic, onPreAcceptOK, onPreAcceptReply, onAccept,
     onAcceptOK, onCommit
<1>3. ASSUME NEW p \in Nodes, Tick(p) PROVE UNCHANGED epoch BY <1>3 DEF Tick
<1>4. ASSUME NEW p \in Nodes, Restart(p) PROVE FALSE
  <2>1. epoch'[p] = epoch[p] + 1 /\ epoch[p] \in Nat BY <1>4 DEF Restart, TypeOK
  <2> QED BY <2>1 DEF NoneRestarted
<1>5. CASE UNCHANGED vars BY <1>5 DEF vars, NoneRestarted
<1>6. CASE UNCHANGED epoch BY <1>6 DEF NoneRestarted
<1> QED BY <1>1, <1>2, <1>3, <1>4, <1>5, <1>6 DEF Next

-----------------------------------------------------------------------------
(* Dependencies cover interference.                                        *)

(* Span.Overlaps, on every kind of span, is that the ranges of the two     *)
(* commands have a point in common.                                        *)
LEMMA OverlapsIffIntersect ==
  ASSUME NEW c, NEW o, IsCommand(c), IsCommand(o)
  PROVE  Overlaps(c, o) <=> \E k \in rangeForCmd(c) : k \in rangeForCmd(o)
<1> DEFINE start(x) == 2 * x.Key
           end(x) == IF x.EndKey = NoKey THEN 2 * x.Key ELSE 2 * x.EndKey - 1
<1>1. /\ c.Key \in Nat /\ c.EndKey \in Nat /\ (c.EndKey = 0 \/ c.Key < c.EndKey)
      /\ o.Key \in Nat /\ o.EndKey \in Nat /\ (o.EndKey = 0 \/ o.Key < o.EndKey)
  BY DEF IsCommand, NoKey
<1>2. \A k : k \in rangeForCmd(c) <=> k \in Int /\ start(c) <= k /\ k <= end(c)
  BY <1>1 DEF rangeForCmd, NoKey
<1>3. \A k : k \in rangeForCmd(o) <=> k \in Int /\ start(o) <= k /\ k <= end(o)
  BY <1>1 DEF rangeForCmd, NoKey
<1>4. Overlaps(c, o) <=> start(c) <= end(o) /\ start(o) <= end(c)
  BY <1>1 DEF Overlaps, NoKey
<1>5. /\ start(c) \in Int /\ start(o) \in Int /\ end(c) \in Int /\ end(o) \in Int
      /\ start(c) <= end(c) /\ start(o) <= end(o)
  BY <1>1 DEF NoKey
<1> HIDE DEF start, end
<1>6. ASSUME start(c) <= end(o), start(o) <= end(c)
      PROVE  \E k \in Int : start(c) <= k /\ k <= end(c) /\ start(o) <= k /\ k <= end(o)
  <2>1. CASE start(c) <= start(o) BY <1>5, <1>6, <2>1
  <2>2. CASE start(o) <= start(c) BY <1>5, <1>6, <2>2
  <2> QED BY <1>5, <2>1, <2>2
<1> QED BY <1>2, <1>3, <1>4, <1>5, <1>6

(* Among the instances of a space there is a last one.                     *)
LEMMA LastInstance ==
  ASSUME NEW W \in SUBSET InstanceID, W # {}
  PROVE  \E w \in W : \A v \in W : v[2] <= w[2]
<1> DEFINE S == {w[2] : w \in W}
<1>1. S \in SUBSET (1..MaxInstanceNum) BY DEF InstanceID
<1>2. IsFiniteSet(1..MaxInstanceNum) BY ConstantsAssumption, FS_Interval
<1>3. IsFiniteSet(S) BY ZenonT(30), <1>1, <1>2, FS_Subset
<1>4. S \in SUBSET Nat BY <1>1, ConstantsAssumption
<1>5. S # {} BY Zenon
<1>6. \E x \in S : \A y \in S : x >= y
  <2> HIDE DEF S
  <2> QED BY <1>3, <1>4, <1>5, FiniteNatMax
<1>7. PICK w \in W : \A y \in S : w[2] >= y BY <1>6
<1>8. \A v \in W : v[2] \in S BY DEF S
<1>9. \A v \in W : v[2] \in Nat BY <1>4, <1>8
<1> QED BY <1>7, <1>8, <1>9

(* What seqAndDepsForCommand leaves out, a dependency stands for: a known  *)
(* interfering instance y is a dependency, or a later interfering instance *)
(* of its space is.  In the visit of the space from its end, take the last *)
(* write over a point that y and the command, or y and the group, share.   *)
LEMMA DepsCover ==
  ASSUME NEW l \in [InstanceID -> InstanceState], NEW c, IsCommand(c), NEW ignored,
         NEW y \in InstanceID, y # ignored, l[y].status # "None", l[y].cmd # Nil,
         Interferes(l[y].cmd, c)
  PROVE  \E d \in seqAndDepsForCommand(l, c, ignored).deps :
           /\ l[d].status # "None" /\ l[d].cmd # Nil
           /\ d = y \/ (d[1] = y[1] /\ d[2] > y[2] /\ Interferes(l[d].cmd, l[y].cmd))
<1> DEFINE known == {x \in DOMAIN l : l[x].status # "None" /\ x # ignored}
           interfering == {x \in known : l[x].cmd # Nil /\ Interferes(l[x].cmd, c)}
           group(r, i) == UNION {rangeForCmd(l[w].cmd) : w \in
                             {x \in interfering : x[1] = r /\ x[2] >= i /\ l[x].cmd.Writing}}
           above(x) == group(x[1], x[2] + 1)
           dep(x) == IF l[x].cmd.Writing
                     THEN ~ (rangeForCmd(l[x].cmd) \subseteq above(x))
                     ELSE rangeForCmd(l[x].cmd) \cap above(x) = {}
           ends(x) == /\ l[x].cmd.Writing
                      /\ dep(x)
                      /\ OneRange(group(x[1], x[2]))
                      /\ rangeForCmd(c) \subseteq group(x[1], x[2])
           visited == {x \in known :
                         ~ \E z \in interfering : z[1] = x[1] /\ z[2] > x[2] /\ ends(z)}
           deps == {x \in interfering \cap visited : dep(x)}
<1>1. seqAndDepsForCommand(l, c, ignored).deps = deps
  BY ZenonT(30) DEF seqAndDepsForCommand
<1>2. y \in interfering OBVIOUS
<1>3. \A x \in interfering : /\ x \in InstanceID /\ x[2] \in Nat /\ IsCommand(l[x].cmd)
                             /\ l[x].status # "None" /\ l[x].cmd # Nil
  BY CommandsAssumption, ConstantsAssumption DEF InstanceState, InstanceID
<1>4. \A k, r, i : k \in group(r, i) <=>
        \E w \in interfering : /\ w[1] = r /\ w[2] >= i /\ l[w].cmd.Writing
                               /\ k \in rangeForCmd(l[w].cmd)
  OBVIOUS
<1>5. \A x : x \in visited <=> /\ x \in known
                               /\ \A z \in interfering :
                                    ~ (z[1] = x[1] /\ z[2] > x[2] /\ ends(z))
  BY Zenon
<1>6. \A x \in interfering : x \in known OBVIOUS
<1>7. ASSUME NEW k, k \in rangeForCmd(l[y].cmd), k \in above(y),
             k \in rangeForCmd(c) \/ y \in visited
      PROVE  \E d \in deps : d[1] = y[1] /\ d[2] > y[2] /\ Interferes(l[d].cmd, l[y].cmd)
  <2> DEFINE W == {w \in interfering : /\ w[1] = y[1] /\ l[w].cmd.Writing
                                       /\ k \in rangeForCmd(l[w].cmd)}
  <2> HIDE DEF known, interfering, group, dep, visited, ends
  <2>1. PICK v \in interfering : /\ v[1] = y[1] /\ v[2] >= y[2] + 1 /\ l[v].cmd.Writing
                                 /\ k \in rangeForCmd(l[v].cmd)
    BY <1>4, <1>7
  <2>2. v \in W BY <2>1
  <2>3. W \in SUBSET InstanceID BY <1>3
  <2>4. PICK w \in W : \A u \in W : u[2] <= w[2] BY Zenon, <2>2, <2>3, LastInstance
  <2>5. w \in interfering /\ w[1] = y[1] /\ l[w].cmd.Writing /\ k \in rangeForCmd(l[w].cmd)
    OBVIOUS
  <2>6. w[2] >= v[2] /\ w[2] > y[2]
    BY <1>2, <1>3, <2>1, <2>2, <2>4, <2>5
  <2>7. k \notin above(w)
    <3> SUFFICES ASSUME k \in above(w) PROVE FALSE OBVIOUS
    <3>1. PICK u \in interfering : /\ u[1] = w[1] /\ u[2] >= w[2] + 1 /\ l[u].cmd.Writing
                                   /\ k \in rangeForCmd(l[u].cmd)
      BY <1>4
    <3>2. u \in W BY <2>5, <3>1
    <3> QED BY <1>3, <2>4, <2>5, <3>1, <3>2
  <2>8. dep(w) BY <2>5, <2>7 DEF dep
  <2>9. w \in visited
    <3> SUFFICES ASSUME NEW z \in interfering, z[1] = w[1], z[2] > w[2], ends(z)
                 PROVE  FALSE
      BY <1>5, <1>6, <2>5
    <3>1. CASE k \in rangeForCmd(c)
      <4>1. k \in group(z[1], z[2]) BY <3>1 DEF ends
      <4>2. PICK u \in interfering : /\ u[1] = z[1] /\ u[2] >= z[2] /\ l[u].cmd.Writing
                                     /\ k \in rangeForCmd(l[u].cmd)
        BY <1>4, <4>1
      <4>3. u \in W BY <2>5, <4>2
      <4> QED BY <1>3, <2>4, <2>5, <4>2, <4>3
    <3>2. CASE y \in visited
      <4>1. z[2] > y[2] BY <1>2, <1>3, <2>5, <2>6
      <4> QED BY <1>5, <2>5, <3>2, <4>1
    <3> QED BY <1>7, <3>1, <3>2
  <2>10. Interferes(l[w].cmd, l[y].cmd)
    <3>1. IsCommand(l[w].cmd) /\ IsCommand(l[y].cmd) BY <1>2, <1>3, <2>5
    <3>2. Overlaps(l[w].cmd, l[y].cmd) BY <1>7, <2>5, <3>1, OverlapsIffIntersect
    <3> QED BY <2>5, <3>2 DEF Interferes
  <2> QED BY <2>5, <2>6, <2>8, <2>9, <2>10
<1>8. PICK k \in rangeForCmd(l[y].cmd) : k \in rangeForCmd(c)
  BY <1>2, <1>3, OverlapsIffIntersect DEF Interferes
<1>9. CASE y \notin visited
  <2> HIDE DEF interfering, group, dep, visited, ends
  <2>1. PICK z \in interfering : z[1] = y[1] /\ z[2] > y[2] /\ ends(z)
    BY <1>2, <1>5, <1>6, <1>9
  <2>2. k \in group(z[1], z[2]) BY <1>8, <2>1 DEF ends
  <2>3. k \in above(y)
    <3>1. PICK u \in interfering : /\ u[1] = z[1] /\ u[2] >= z[2] /\ l[u].cmd.Writing
                                   /\ k \in rangeForCmd(l[u].cmd)
      BY <1>4, <2>2
    <3>2. u[2] >= y[2] + 1 BY <1>2, <1>3, <2>1, <3>1
    <3> QED BY <1>4, <2>1, <3>1, <3>2
  <2>4. PICK d \in deps : d[1] = y[1] /\ d[2] > y[2] /\ Interferes(l[d].cmd, l[y].cmd)
    BY <1>7, <1>8, <2>3
  <2>5. d \in interfering OBVIOUS
  <2> QED BY <1>1, <1>3, <2>4, <2>5
<1>10. CASE y \in visited /\ dep(y)
  BY Zenon, <1>1, <1>2, <1>10
<1>11. CASE y \in visited /\ ~ dep(y)
  <2> HIDE DEF interfering, group, visited, ends
  <2>1. \E j \in rangeForCmd(l[y].cmd) : j \in above(y)
    BY <1>8, <1>11
  <2> HIDE DEF dep
  <2>2. PICK d \in deps : d[1] = y[1] /\ d[2] > y[2] /\ Interferes(l[d].cmd, l[y].cmd)
    BY <1>7, <1>11, <2>1
  <2>3. d \in interfering OBVIOUS
  <2> QED BY <1>1, <1>3, <2>2, <2>3
<1> QED BY Zenon, <1>9, <1>10, <1>11

=============================================================================
