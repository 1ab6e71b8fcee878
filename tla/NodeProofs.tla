----------------------------- MODULE NodeProofs -----------------------------
(***************************************************************************)
(* The replicas behind the Node interface are replicas of EPaxos, so that  *)
(* its theorems hold for them, and the application takes the executed      *)
(* commands in the order of their execution, each at most once.  An own    *)
(* command that it took is announced to the other replicas.                *)
(***************************************************************************)
EXTENDS Node, EPaxosExecution

-----------------------------------------------------------------------------
(* Refinement.                                                             *)

(* A step behind the Node interface is a step of a replica, or Ready.      *)
LEMMA NodeStep == [NodeNext]_nodeVars => [Next]_vars
<1> SUFFICES ASSUME [NodeNext]_nodeVars PROVE [Next]_vars
  OBVIOUS
<1>1. CASE UNCHANGED nodeVars BY <1>1 DEF nodeVars
<1>2. ASSUME NEW p \in Nodes, NEW c \in Command, RunPropose(p, c) PROVE Next
  BY <1>2 DEF RunPropose, Next
<1>3. ASSUME NEW m \in msgs, RunStep(m) PROVE Next
  BY <1>3 DEF RunStep, Next
<1>4. ASSUME NEW p \in Nodes, RunTick(p) \/ StartNode(p) PROVE Next
  BY <1>4 DEF RunTick, StartNode, Next
<1>5. ASSUME NEW p \in Nodes, RunReady(p) PROVE UNCHANGED vars
  BY <1>5 DEF RunReady
<1> QED BY <1>1, <1>2, <1>3, <1>4, <1>5 DEF NodeNext

(* Behind the Node interface the replicas are replicas of EPaxos: the      *)
(* outbox, Ready and the loss of both at a restart add no behaviour.       *)
THEOREM NodeImplements == NodeSpec => ImplementsEPaxos
<1>1. NodeInit => Init BY DEF NodeInit
<1> QED BY <1>1, NodeStep, PTL DEF NodeSpec, ImplementsEPaxos, Spec

-----------------------------------------------------------------------------
(* The order in which commands are taken.                                  *)

(* The position of an element in a sequence, as At has it.                 *)
Pos(e, x) == CHOOSE i \in DOMAIN e : e[i] = x

(* s has elements of e only, and in the order of e.                        *)
Follows(s, e) ==
  /\ \A i \in DOMAIN s : s[i] \in Range(e)
  /\ \A i, j \in DOMAIN s : i < j => Pos(e, s[i]) < Pos(e, s[j])

(* An element of a sequence without repetitions has one position.          *)
LEMMA PosUnique ==
  ASSUME NEW e, IsInjective(e), NEW i \in DOMAIN e
  PROVE  Pos(e, e[i]) = i
BY DEF Pos, IsInjective

(* The elements of a concatenation.                                        *)
LEMMA ConcatElements ==
  ASSUME NEW S, NEW s \in Seq(S), NEW t \in Seq(S)
  PROVE  /\ s \o t \in Seq(S)
         /\ \A i \in DOMAIN s : i \in Int /\ i <= Len(s) /\ i \in DOMAIN (s \o t) /\ (s \o t)[i] = s[i]
         /\ \A i \in DOMAIN t : Len(s) + i \in DOMAIN (s \o t) /\ (s \o t)[Len(s) + i] = t[i]
         /\ \A i \in DOMAIN (s \o t) :
              \/ i \in DOMAIN s
              \/ i \in Int /\ i > Len(s) /\ i - Len(s) \in DOMAIN t /\ i = Len(s) + (i - Len(s))
OBVIOUS

(* Concatenation is associative.                                           *)
LEMMA InstancesAssociative ==
  \A s, t, u \in Seq(InstanceID) : s \o (t \o u) = (s \o t) \o u
OBVIOUS

(* What was added to a sequence.                                           *)
LEMMA AddedPart ==
  ASSUME NEW S, NEW s \in Seq(S), NEW t \in Seq(S)
  PROVE  SubSeq(s \o t, Len(s) + 1, Len(s \o t)) = t
OBVIOUS

(* The order is kept when both sequences grow by the same elements.        *)
LEMMA FollowsAppend ==
  ASSUME NEW S, NEW s \in Seq(S), NEW e \in Seq(S), NEW d \in Seq(S),
         IsInjective(e \o d), Follows(s, e)
  PROVE  Follows(s \o d, e \o d)
<1> DEFINE f == e \o d
           u == s \o d
<1>1. /\ \A i \in DOMAIN e : i \in Int /\ i <= Len(e) /\ i \in DOMAIN f /\ f[i] = e[i]
      /\ \A i \in DOMAIN d : Len(e) + i \in DOMAIN f /\ f[Len(e) + i] = d[i]
  BY ConcatElements
<1>2. /\ \A i \in DOMAIN s : i \in Int /\ i <= Len(s) /\ u[i] = s[i]
      /\ \A i \in DOMAIN d : u[Len(s) + i] = d[i]
      /\ \A i \in DOMAIN u :
           \/ i \in DOMAIN s
           \/ i \in Int /\ i > Len(s) /\ i - Len(s) \in DOMAIN d /\ i = Len(s) + (i - Len(s))
  BY ConcatElements
<1>3. IsInjective(e)
  BY <1>1 DEF IsInjective
<1>4. Len(s) \in Nat /\ Len(e) \in Nat /\ \A i \in DOMAIN d : i \in Nat /\ i > 0 OBVIOUS
<1> HIDE DEF f, u
<1>5. IsInjective(f) BY DEF f
<1>6. \A x \in Range(e) : /\ x \in Range(f) /\ Pos(f, x) = Pos(e, x)
                          /\ Pos(e, x) \in Int /\ Pos(e, x) <= Len(e)
  <2> SUFFICES ASSUME NEW i \in DOMAIN e
               PROVE  /\ e[i] \in Range(f) /\ Pos(f, e[i]) = Pos(e, e[i])
                      /\ Pos(e, e[i]) \in Int /\ Pos(e, e[i]) <= Len(e)
    BY DEF Range
  <2>1. Pos(e, e[i]) = i BY <1>3, PosUnique
  <2>2. Pos(f, f[i]) = i BY <1>1, <1>5, PosUnique
  <2> QED BY <1>1, <2>1, <2>2 DEF Range
<1>7. \A i \in DOMAIN d : d[i] \in Range(f) /\ Pos(f, d[i]) = Len(e) + i
  <2> SUFFICES ASSUME NEW i \in DOMAIN d
               PROVE  d[i] \in Range(f) /\ Pos(f, d[i]) = Len(e) + i
    OBVIOUS
  <2>1. Pos(f, f[Len(e) + i]) = Len(e) + i BY <1>1, <1>5, PosUnique
  <2> QED BY <1>1, <2>1 DEF Range
<1>8. \A i \in DOMAIN u : u[i] \in Range(f)
  BY <1>2, <1>6, <1>7 DEF Follows
<1>9. ASSUME NEW i \in DOMAIN u, NEW j \in DOMAIN u, i < j
      PROVE  Pos(f, u[i]) < Pos(f, u[j])
  <2>1. CASE j \in DOMAIN s
    <3>1. i \in DOMAIN s BY <1>2, <1>4, <1>9, <2>1
    <3>2. s[i] \in Range(e) /\ s[j] \in Range(e) /\ Pos(e, s[i]) < Pos(e, s[j])
      BY <1>9, <2>1, <3>1 DEF Follows
    <3> QED BY <1>2, <1>6, <2>1, <3>1, <3>2
  <2>2. CASE j \notin DOMAIN s
    <3>1. /\ j \in Int /\ j - Len(s) \in DOMAIN d /\ u[j] = d[j - Len(s)]
      BY <1>2, <2>2
    <3>2. Pos(f, u[j]) = Len(e) + (j - Len(s)) BY <1>7, <3>1
    <3>3. CASE i \in DOMAIN s
      <4>1. u[i] = s[i] /\ s[i] \in Range(e) BY <1>2, <3>3 DEF Follows
      <4>2. Pos(f, u[i]) \in Int /\ Pos(f, u[i]) <= Len(e) BY <1>6, <4>1
      <4> QED BY <1>4, <3>1, <3>2, <4>2
    <3>4. CASE i \notin DOMAIN s
      <4>1. i \in Int /\ i - Len(s) \in DOMAIN d /\ u[i] = d[i - Len(s)]
        BY <1>2, <3>4
      <4>2. Pos(f, u[i]) = Len(e) + (i - Len(s)) BY <1>7, <4>1
      <4> QED BY <1>4, <1>9, <3>1, <3>2, <4>1, <4>2
    <3> QED BY <3>3, <3>4
  <2> QED BY <2>1, <2>2
<1>10. Follows(u, f) BY <1>8, <1>9 DEF Follows
<1> QED BY <1>10 DEF u, f

(* The order is kept when the end is lost.                                 *)
LEMMA FollowsPrefix ==
  ASSUME NEW S, NEW s \in Seq(S), NEW t \in Seq(S), NEW e, Follows(s \o t, e)
  PROVE  Follows(s, e)
<1>1. \A i \in DOMAIN s : i \in DOMAIN (s \o t) /\ (s \o t)[i] = s[i]
  BY ConcatElements
<1> QED BY <1>1 DEF Follows

-----------------------------------------------------------------------------
(* s was taken, t waits for the next Ready, e was executed, in a process   *)
(* that was restarted n times.                                             *)
TakenFrom(s, t, e, n) ==
  /\ s \in Seq(InstanceID) /\ t \in Seq(InstanceID)
  /\ Follows(s \o t, e)
  /\ n = 0 => s \o t = e

TakenBy(p) == TakenFrom(taken[p], executedCmds[p], executed[p], epoch[p])

TakenTypes == taken \in [Nodes -> Seq(InstanceID)] /\ executedCmds \in [Nodes -> Seq(InstanceID)]

TakenInv == TakenTypes /\ \A p \in Nodes : TakenBy(p)

(* What waits grows by what is executed.                                   *)
LEMMA TakenGrows ==
  ASSUME NEW s, NEW t, NEW e \in Seq(InstanceID), NEW d \in Seq(InstanceID), NEW n,
         IsInjective(e \o d), TakenFrom(s, t, e, n)
  PROVE  TakenFrom(s, t \o d, e \o d, n)
<1>1. s \in Seq(InstanceID) /\ t \in Seq(InstanceID) BY DEF TakenFrom
<1>2. Follows(s \o t, e) /\ (n = 0 => s \o t = e) BY DEF TakenFrom
<1>3. s \o (t \o d) = (s \o t) \o d BY ZenonT(30), <1>1, InstancesAssociative
<1>4. s \o t \in Seq(InstanceID) /\ t \o d \in Seq(InstanceID) BY <1>1
<1>5. Follows((s \o t) \o d, e \o d) BY Zenon, <1>2, <1>4, FollowsAppend
<1> QED BY Zenon, <1>1, <1>2, <1>3, <1>4, <1>5 DEF TakenFrom

(* A restart loses what waits, and what it executes waits.                 *)
LEMMA TakenRestarts ==
  ASSUME NEW s, NEW t, NEW e \in Seq(InstanceID), NEW d \in Seq(InstanceID), NEW n, NEW k,
         IsInjective(e \o d), TakenFrom(s, t, e, n), k # 0
  PROVE  TakenFrom(s, d, e \o d, k)
<1>1. s \in Seq(InstanceID) /\ t \in Seq(InstanceID) BY DEF TakenFrom
<1>2. Follows(s, e) BY <1>1, FollowsPrefix DEF TakenFrom
<1>3. Follows(s \o d, e \o d) BY <1>1, <1>2, FollowsAppend
<1> QED BY <1>1, <1>3 DEF TakenFrom

(* A Ready moves what waits to what was taken.                             *)
LEMMA TakenMoves ==
  ASSUME NEW s, NEW t, NEW e, NEW n, TakenFrom(s, t, e, n)
  PROVE  TakenFrom(s \o t, <<>>, e, n)
<1>1. s \in Seq(InstanceID) /\ t \in Seq(InstanceID) BY DEF TakenFrom
<1>2. s \o t \in Seq(InstanceID) /\ <<>> \in Seq(InstanceID) BY <1>1
<1>3. (s \o t) \o <<>> = s \o t BY <1>2
<1> QED BY <1>2, <1>3 DEF TakenFrom

(* A step of replica p leaves the others as they are.                      *)
LEMMA TakenOthers ==
  ASSUME TakenInv, NEW p \in Nodes, TakenTypes', TakenBy(p)',
         \A q \in Nodes : q # p => /\ taken'[q] = taken[q] /\ executedCmds'[q] = executedCmds[q]
                                  /\ executed'[q] = executed[q] /\ epoch'[q] = epoch[q]
  PROVE  TakenInv'
<1>1. ASSUME NEW q \in Nodes, q # p PROVE TakenBy(q)'
  <2>1. /\ taken'[q] = taken[q] /\ executedCmds'[q] = executedCmds[q]
        /\ executed'[q] = executed[q] /\ epoch'[q] = epoch[q]
    BY <1>1
  <2> QED BY Zenon, <2>1 DEF TakenInv, TakenBy
<1> QED BY Zenon, <1>1 DEF TakenInv

(* A step of replica p, after which the commands it executed wait with     *)
(* those that already did, or alone, after a restart.                      *)
LEMMA ExecutesTaken ==
  ASSUME TypeOK, ExecutedOnce', TakenInv, NEW p \in Nodes,
         NEW d \in Seq(InstanceID), Executes(p, d), taken' = taken,
         \/ /\ executedCmds' = [executedCmds EXCEPT ![p] = @ \o Delivered(p)]
            /\ epoch' = epoch
         \/ /\ executedCmds' = [executedCmds EXCEPT ![p] = Delivered(p)]
            /\ epoch'[p] # 0 /\ \A q \in Nodes : q # p => epoch'[q] = epoch[q]
  PROVE  TakenInv'
<1>1. /\ taken[p] \in Seq(InstanceID) /\ executedCmds[p] \in Seq(InstanceID)
      /\ executed[p] \in Seq(InstanceID)
  BY DEF TypeOK, TakenInv, TakenTypes
<1>2. executed'[p] = executed[p] \o d /\ \A q \in Nodes : q # p => executed'[q] = executed[q]
  BY DEF Executes, TypeOK
<1>3. Delivered(p) = d BY Zenon, <1>1, <1>2, AddedPart DEF Delivered
<1>4. IsInjective(executed[p] \o d) BY Zenon, <1>2 DEF ExecutedOnce
<1>5. TakenFrom(taken[p], executedCmds[p], executed[p], epoch[p]) BY Zenon DEF TakenInv, TakenBy, TakenFrom
<1>6. CASE executedCmds' = [executedCmds EXCEPT ![p] = @ \o d] /\ epoch' = epoch
  <2>1. /\ executedCmds'[p] = executedCmds[p] \o d
        /\ \A q \in Nodes : q # p => executedCmds'[q] = executedCmds[q]
    BY <1>6 DEF TakenInv, TakenTypes
  <2>2. TakenTypes' BY <1>1, <1>6 DEF TakenInv, TakenTypes
  <2>3. TakenFrom(taken[p], executedCmds[p] \o d, executed[p] \o d, epoch[p])
    BY <1>1, <1>4, <1>5, TakenGrows
  <2>4. TakenBy(p)' BY Zenon, <1>2, <1>6, <2>1, <2>3 DEF TakenBy
  <2> QED BY <1>2, <1>6, <2>1, <2>2, <2>4, TakenOthers
<1>7. CASE /\ executedCmds' = [executedCmds EXCEPT ![p] = d]
           /\ epoch'[p] # 0 /\ \A q \in Nodes : q # p => epoch'[q] = epoch[q]
  <2>1. /\ executedCmds'[p] = d
        /\ \A q \in Nodes : q # p => executedCmds'[q] = executedCmds[q]
    BY <1>7 DEF TakenInv, TakenTypes
  <2>2. TakenTypes' BY <1>1, <1>7 DEF TakenInv, TakenTypes
  <2>3. TakenFrom(taken[p], d, executed[p] \o d, epoch'[p])
    BY <1>1, <1>4, <1>5, <1>7, TakenRestarts
  <2>4. TakenBy(p)' BY Zenon, <1>2, <2>1, <2>3 DEF TakenBy
  <2> QED BY <1>2, <1>7, <2>1, <2>2, <2>4, TakenOthers
<1> QED BY <1>3, <1>6, <1>7

(* A Ready moves what waits to what was taken.                             *)
LEMMA ReadyTaken ==
  ASSUME TakenInv, NEW p \in Nodes, RunReady(p)
  PROVE  TakenInv'
<1>1. taken[p] \in Seq(InstanceID) /\ executedCmds[p] \in Seq(InstanceID)
  BY DEF TakenInv, TakenTypes
<1>2. /\ taken' = [taken EXCEPT ![p] = @ \o executedCmds[p]]
      /\ executedCmds' = [executedCmds EXCEPT ![p] = <<>>]
      /\ executed' = executed /\ epoch' = epoch
  BY DEF RunReady, vars
<1>3. TakenTypes' BY <1>1, <1>2 DEF TakenInv, TakenTypes
<1>4. /\ taken'[p] = taken[p] \o executedCmds[p] /\ executedCmds'[p] = <<>>
      /\ \A q \in Nodes : q # p => taken'[q] = taken[q] /\ executedCmds'[q] = executedCmds[q]
  BY <1>2 DEF TakenInv, TakenTypes
<1>5. TakenFrom(taken[p] \o executedCmds[p], <<>>, executed[p], epoch[p])
  BY TakenMoves DEF TakenInv, TakenBy
<1>6. TakenBy(p)' BY Zenon, <1>2, <1>4, <1>5 DEF TakenBy
<1> QED BY <1>2, <1>3, <1>4, <1>6, TakenOthers

(* Every step keeps the order.                                             *)
LEMMA TakenStep == TypeOK /\ ExecutedOnce' /\ TakenInv /\ [NodeNext]_nodeVars => TakenInv'
<1> SUFFICES ASSUME TypeOK, ExecutedOnce', TakenInv, [NodeNext]_nodeVars PROVE TakenInv'
  OBVIOUS
<1>1. ASSUME NEW p \in Nodes, Collect(p), epoch' = epoch,
             \E d \in Seq(InstanceID) : Executes(p, d)
      PROVE  TakenInv'
  BY Zenon, <1>1, ExecutesTaken DEF Collect
<1>2. ASSUME NEW p \in Nodes, NEW c \in Command, RunPropose(p, c) PROVE TakenInv'
  <2>1. Collect(p) /\ epoch' = epoch /\ executed' = executed
    BY <1>2 DEF RunPropose, Request, Panic
  <2> QED BY <1>1, <2>1, NothingExecutes
<1>3. ASSUME NEW p \in Nodes, RunTick(p) PROVE TakenInv'
  <2>1. Collect(p) /\ epoch' = epoch /\ executed' = executed
    BY <1>3 DEF RunTick, Tick
  <2> QED BY <1>1, <2>1, NothingExecutes
<1>4. ASSUME NEW m \in msgs, RunStep(m) PROVE TakenInv'
  <2>1. m.to \in Nodes BY DEF TypeOK, Message
  <2>2. Collect(m.to) /\ Step(m) BY <1>4 DEF RunStep
  <2>3. epoch' = epoch
    BY Zenon, <2>2 DEF Step, Ignore, onPreAccept, Panic, onPreAcceptOK, onPreAcceptReply, onAccept,
                onAcceptOK, onCommit
  <2> QED BY <1>1, <2>1, <2>2, <2>3, StepExecutes
<1>5. ASSUME NEW p \in Nodes, RunReady(p) PROVE TakenInv'
  BY <1>5, ReadyTaken
<1>6. ASSUME NEW p \in Nodes, StartNode(p) PROVE TakenInv'
  <2>1. PICK d \in Seq(InstanceID) : Executes(p, d)
    <3>1. prepareToExecute(p, stored[p], {}) BY <1>6 DEF StartNode, Restart
    <3>2. stored[p] \in [InstanceID -> InstanceState] BY DEF TypeOK
    <3> QED BY <3>1, <3>2, PrepareExecutes
  <2>2. epoch'[p] # 0 /\ \A q \in Nodes : q # p => epoch'[q] = epoch[q]
    BY <1>6 DEF StartNode, Restart, TypeOK
  <2>3. taken' = taken /\ executedCmds' = [executedCmds EXCEPT ![p] = Delivered(p)]
    BY <1>6 DEF StartNode
  <2> QED BY Zenon, <2>1, <2>2, <2>3, ExecutesTaken
<1>7. CASE UNCHANGED nodeVars
  BY <1>7 DEF nodeVars, vars, TakenInv, TakenTypes, TakenBy
<1> QED BY <1>2, <1>3, <1>4, <1>5, <1>6, <1>7 DEF NodeNext

(* The application takes the commands of a replica in the order of their   *)
(* execution and each at most once, with any number of restarts, and all   *)
(* of them as long as the replica was not restarted.                       *)
THEOREM CommandsTakenInOrder == NodeSpec => []TakenInOrder
<1>1. NodeInit => TakenInv
  BY DEF NodeInit, Init, TakenInv, TakenTypes, TakenBy, TakenFrom, Follows
<1>2. NodeSpec => [](AgreementInv /\ ExecutedOnce)
  <2>1. ImplementsEPaxos => Spec BY DEF ImplementsEPaxos
  <2> QED BY <2>1, NodeImplements, AgreementInvariant, NothingExecutedTwice, PTL
<1>3. AgreementInv => TypeOK BY DEF AgreementInv
<1>4. TypeOK /\ TakenInv => TakenInOrder
  <2> SUFFICES ASSUME TypeOK, TakenInv, NEW p \in Nodes
               PROVE  LET all == taken[p] \o executedCmds[p] IN
                      /\ IsInjective(all)
                      /\ \A i, j \in DOMAIN all : i < j => At(p, all[i]) < At(p, all[j])
                      /\ epoch[p] = 0 => all = executed[p]
    BY Zenon DEF TakenInOrder
  <2> DEFINE all == taken[p] \o executedCmds[p]
  <2>1. all \in Seq(InstanceID)
    <3>1. taken[p] \in Seq(InstanceID) /\ executedCmds[p] \in Seq(InstanceID)
      BY Zenon DEF TakenInv, TakenBy, TakenFrom
    <3> QED BY <3>1
  <2>2. Follows(all, executed[p]) /\ (epoch[p] = 0 => all = executed[p])
    BY Zenon DEF TakenInv, TakenBy, TakenFrom
  <2> HIDE DEF all
  <2>3. \A i, j \in DOMAIN all : i < j => At(p, all[i]) < At(p, all[j])
    BY ZenonT(30), <2>2 DEF Follows, At, Pos
  <2>4. IsInjective(all)
    <3> SUFFICES ASSUME NEW i \in DOMAIN all, NEW j \in DOMAIN all, all[i] = all[j], i < j
                 PROVE  FALSE
      BY <2>1 DEF IsInjective
    <3>1. At(p, all[i]) < At(p, all[i]) BY <2>3
    <3>2. executed[p] \in Seq(InstanceID) /\ all[i] \in Range(executed[p])
      BY <2>2 DEF TypeOK, Follows
    <3>3. At(p, all[i]) \in DOMAIN executed[p] BY <3>2 DEF At, Range
    <3> QED BY <3>1, <3>2, <3>3
  <2> QED BY Zenon, <2>2, <2>3, <2>4 DEF all
<1> QED BY <1>1, <1>2, <1>3, <1>4, TakenStep, PTL DEF NodeSpec

-----------------------------------------------------------------------------
(* What was taken was announced.                                           *)

(* A Commit of instance id to replica q.                                   *)
CommitTo(m, id, q) == m.type = "Commit" /\ m.id = id /\ m.to = q

(* The Commit of id to q was sent, and not lost; or has left the process.  *)
Sent(id, q) == Decided(q, id) \/ \E m \in msgs : m \notin lost /\ CommitTo(m, id, q)

Announced(id, q) == Decided(q, id) \/ \E m \in msgs : InNetwork(m) /\ CommitTo(m, id, q)

(* Outboxes hold messages of their replica, and a Commit that was lost is  *)
(* of an epoch that has ended.                                             *)
BoxInv ==
  /\ outbox \in [Nodes -> Seq(Message)]
  /\ \A p \in Nodes : \A m \in Range(outbox[p]) :
       m.from = p /\ (m.type = "Commit" => m.epoch <= epoch[p])
  /\ \A m \in lost : m \in Message /\ (m.type = "Commit" => m.epoch < epoch[m.from])
  /\ \A m \in msgs : m.type = "Commit" => m.from = m.id[1]

(* The Commit of an own instance is out when the command is taken, and is  *)
(* on its way out when the command waits, or waits to be executed.         *)
AnnounceInv ==
  \A id \in InstanceID, q \in Nodes : epoch[q] = 0 /\ q # id[1] =>
    /\ id \in Range(taken[id[1]]) => Announced(id, q)
    /\ id \in Range(executedCmds[id[1]]) \/ log[id[1]][id].status = "Committed" => Sent(id, q)

(* The elements of a sequence made from a set.                             *)
LEMMA SequenceOfSet ==
  ASSUME NEW M, NEW S \in SUBSET M, IsFiniteSet(S)
  PROVE  InSomeOrder(S) \in Seq(M) /\ Range(InSomeOrder(S)) \subseteq S
<1>1. Cardinality(S) \in Nat /\ ExistsBijection(1..Cardinality(S), S) BY FS_CardinalityType
<1>2. Injection(1..Cardinality(S), S) # {} BY <1>1 DEF ExistsBijection, Bijection
<1>3. InSomeOrder(S) \in [1..Cardinality(S) -> S] BY Zenon, <1>2 DEF InSomeOrder, Injection
<1> QED BY <1>1, <1>3 DEF Range

(* The elements of two sequences in a row.                                 *)
LEMMA ElementsOfBoth ==
  ASSUME NEW M, NEW s \in Seq(M), NEW t \in Seq(M)
  PROVE  Range(s \o t) = Range(s) \cup Range(t)
<1>1. \A i \in DOMAIN s : i \in DOMAIN (s \o t) /\ (s \o t)[i] = s[i] OBVIOUS
<1>2. \A i \in DOMAIN t : Len(s) + i \in DOMAIN (s \o t) /\ (s \o t)[Len(s) + i] = t[i] OBVIOUS
<1>3. \A i \in DOMAIN (s \o t) : \/ i \in DOMAIN s /\ (s \o t)[i] = s[i]
                                 \/ i - Len(s) \in DOMAIN t /\ (s \o t)[i] = t[i - Len(s)]
  OBVIOUS
<1>4. Range(s \o t) \subseteq Range(s) \cup Range(t) BY <1>3 DEF Range
<1>5. Range(s) \subseteq Range(s \o t) BY <1>1 DEF Range
<1>6. Range(t) \subseteq Range(s \o t) BY Zenon, <1>2 DEF Range
<1> QED BY <1>4, <1>5, <1>6

(* What is in the network, and what is not lost, stays so when the outbox  *)
(* collects new messages.                                                  *)
LEMMA CollectBox ==
  ASSUME TypeOK, TypeOK', BoxInv, NEW r \in Nodes, OwnMessages(r, msgs' \ msgs, epoch[r]),
         Collect(r), epoch' = epoch
  PROVE  BoxInv' /\ lost' = lost /\ \A m \in msgs : InNetwork(m) => InNetwork(m)'
<1> DEFINE N == msgs' \ msgs
           s == InSomeOrder(N)
<1>1. N \in SUBSET Message /\ msgs \subseteq Message BY DEF TypeOK
<1>2. s \in Seq(Message) /\ Range(s) \subseteq N
  <2> HIDE DEF N
  <2> QED BY Zenon, <1>1, SequenceOfSet DEF OwnMessages, N
<1>3. outbox' = [outbox EXCEPT ![r] = @ \o s] /\ lost' = lost BY DEF Collect
<1> HIDE DEF N, s
<1>4. /\ outbox'[r] = outbox[r] \o s /\ \A p \in Nodes : p # r => outbox'[p] = outbox[p]
      /\ outbox[r] \in Seq(Message)
  BY <1>3 DEF BoxInv
<1>5. Range(outbox'[r]) = Range(outbox[r]) \cup Range(s)
  <2>1. Range(outbox[r] \o s) = Range(outbox[r]) \cup Range(s) BY <1>2, <1>4, ElementsOfBoth
  <2> QED BY Zenon, <1>4, <2>1
<1>6. outbox' \in [Nodes -> Seq(Message)] BY <1>2, <1>3, <1>4 DEF BoxInv
<1>7. \A m \in N : m \notin msgs /\ m.from = r /\ m.epoch \in Nat
                   /\ (m.type = "Commit" => m.id[1] = r /\ m.epoch = epoch[r])
  BY <1>1 DEF OwnMessages, N, Message
<1>8. \A p \in Nodes : \A m \in Range(outbox'[p]) :
        m.from = p /\ (m.type = "Commit" => m.epoch <= epoch[p])
  <2>1. epoch[r] <= epoch[r] BY DEF TypeOK
  <2>2. \A m \in Range(s) : m.from = r /\ (m.type = "Commit" => m.epoch <= epoch[r])
    BY <1>2, <1>7, <2>1
  <2> QED BY Zenon, <1>4, <1>5, <2>2 DEF BoxInv
<1>9. \A m \in msgs' : m.type = "Commit" => m.from = m.id[1]
  BY <1>7 DEF N, BoxInv
<1>10. BoxInv' BY Zenon, <1>3, <1>6, <1>8, <1>9 DEF BoxInv
<1>11. \A m \in msgs : InNetwork(m) => InNetwork(m)'
  <2>1. \A m \in msgs : m.from \in Nodes BY <1>1 DEF Message
  <2> QED BY <1>2, <1>3, <1>4, <1>5, <1>7, <2>1 DEF InNetwork
<1> QED BY <1>3, <1>10, <1>11

(* A restart loses the outbox of its replica.                              *)
LEMMA StartBox ==
  ASSUME TypeOK, TypeOK', BoxInv, NEW r \in Nodes, OwnMessages(r, msgs' \ msgs, epoch[r] + 1),
         StartNode(r)
  PROVE  /\ BoxInv'
         /\ \A m \in msgs : InNetwork(m) => InNetwork(m)'
         /\ \A m \in lost' : m \in lost \/ m.from = r
<1> DEFINE N == msgs' \ msgs
           s == InSomeOrder(N)
<1>1. N \in SUBSET Message /\ msgs \subseteq Message BY DEF TypeOK
<1>2. s \in Seq(Message) /\ Range(s) \subseteq N
  <2> HIDE DEF N
  <2> QED BY Zenon, <1>1, SequenceOfSet DEF OwnMessages, N
<1>3. /\ outbox' = [outbox EXCEPT ![r] = s] /\ lost' = lost \cup Range(outbox[r])
      /\ epoch' = [epoch EXCEPT ![r] = @ + 1]
  BY DEF StartNode, Restart
<1> HIDE DEF N, s
<1>4. /\ outbox'[r] = s /\ \A p \in Nodes : p # r => outbox'[p] = outbox[p]
      /\ outbox[r] \in Seq(Message) /\ outbox' \in [Nodes -> Seq(Message)]
  BY <1>2, <1>3 DEF BoxInv
<1>5. /\ epoch'[r] = epoch[r] + 1 /\ \A p \in Nodes : p # r => epoch'[p] = epoch[p]
      /\ \A p \in Nodes : epoch[p] \in Nat
  BY <1>3 DEF TypeOK
<1>6. \A m \in N : m \notin msgs /\ m.from = r
                   /\ (m.type = "Commit" => m.id[1] = r /\ m.epoch = epoch'[r])
  BY <1>5 DEF OwnMessages, N
<1>7. \A p \in Nodes : \A m \in Range(outbox'[p]) :
        m.from = p /\ (m.type = "Commit" => m.epoch <= epoch'[p])
  <2>1. epoch'[r] <= epoch'[r] BY <1>5
  <2>2. \A m \in Range(s) : m.from = r /\ (m.type = "Commit" => m.epoch <= epoch'[r])
    BY <1>2, <1>6, <2>1
  <2> QED BY Zenon, <1>4, <1>5, <2>2 DEF BoxInv
<1>8. Range(outbox[r]) \subseteq Message BY <1>4 DEF Range
<1>9. \A m \in lost' : m \in Message /\ (m.type = "Commit" => m.epoch < epoch'[m.from])
  <2>1. ASSUME NEW m \in lost PROVE m \in Message /\ (m.type = "Commit" => m.epoch < epoch'[m.from])
    <3>1. m \in Message /\ (m.type = "Commit" => m.epoch < epoch[m.from]) BY DEF BoxInv
    <3>2. m.from \in Nodes /\ m.epoch \in Nat BY <3>1 DEF Message
    <3> QED BY <1>5, <3>1, <3>2
  <2>2. ASSUME NEW m \in Range(outbox[r])
        PROVE  m \in Message /\ (m.type = "Commit" => m.epoch < epoch'[m.from])
    <3>1. m \in Message /\ m.from = r /\ (m.type = "Commit" => m.epoch <= epoch[r])
      BY <1>8 DEF BoxInv
    <3>2. m.epoch \in Nat BY <3>1 DEF Message
    <3> QED BY <1>5, <3>1, <3>2
  <2> QED BY <1>3, <2>1, <2>2
<1>10. \A m \in msgs' : m.type = "Commit" => m.from = m.id[1]
  BY <1>6 DEF N, BoxInv
<1>11. BoxInv' BY Zenon, <1>4, <1>7, <1>9, <1>10 DEF BoxInv
<1>12. \A m \in Range(outbox[r]) : m.from = r BY DEF BoxInv
<1>13. \A m \in msgs : InNetwork(m) => InNetwork(m)'
  <2>1. \A m \in msgs : m.from \in Nodes BY <1>1 DEF Message
  <2> QED BY <1>2, <1>3, <1>4, <1>6, <1>12, <2>1 DEF InNetwork
<1> QED BY <1>3, <1>11, <1>12, <1>13

(* A decision is kept by a replica that is not restarted.                  *)
Kept == \A q \in Nodes, id \in InstanceID : Decided(q, id) /\ epoch'[q] = epoch[q] => Decided(q, id)'

(* A Commit that is sent, or has left, stays so until it is handled.       *)
LEMMA SentKept ==
  ASSUME TypeOK, [Next]_vars, Kept, NEW id \in InstanceID, NEW q \in Nodes, epoch'[q] = epoch[q],
         Sent(id, q), \A m \in msgs : m.type = "Commit" /\ m.id = id /\ m \notin lost => m \notin lost'
  PROVE  Sent(id, q)'
<1>1. CASE Decided(q, id) BY Zenon, <1>1 DEF Kept, Sent
<1>2. ASSUME NEW m \in msgs, m \notin lost, CommitTo(m, id, q) PROVE Sent(id, q)'
  <2>1. m.type = "Commit" /\ m.id = id /\ m.to = q /\ m \notin lost' BY <1>2 DEF CommitTo
  <2>2. CASE m \in msgs' BY Zenon, <1>2, <2>1, <2>2 DEF Sent, CommitTo
  <2>3. CASE m \notin msgs'
    <3>1. Decided(m.to, m.id)' BY <2>1, <2>3, HandledDecides
    <3> QED BY Zenon, <2>1, <3>1 DEF Sent
  <2> QED BY <2>2, <2>3
<1> QED BY Zenon, <1>1, <1>2 DEF Sent

(* The same for a Commit that has left the process.                        *)
LEMMA AnnouncedKept ==
  ASSUME TypeOK, [Next]_vars, Kept, NEW id \in InstanceID, NEW q \in Nodes, epoch'[q] = epoch[q],
         Announced(id, q), \A m \in msgs : InNetwork(m) => InNetwork(m)'
  PROVE  Announced(id, q)'
<1>1. CASE Decided(q, id) BY Zenon, <1>1 DEF Kept, Announced
<1>2. ASSUME NEW m \in msgs, InNetwork(m), CommitTo(m, id, q) PROVE Announced(id, q)'
  <2>1. m.type = "Commit" /\ m.id = id /\ m.to = q /\ InNetwork(m)' BY <1>2 DEF CommitTo
  <2>2. CASE m \in msgs' BY Zenon, <1>2, <2>1, <2>2 DEF Announced, CommitTo
  <2>3. CASE m \notin msgs'
    <3>1. Decided(m.to, m.id)' BY <2>1, <2>3, HandledDecides
    <3> QED BY Zenon, <2>1, <3>1 DEF Announced
  <2> QED BY <2>2, <2>3
<1> QED BY Zenon, <1>1, <1>2 DEF Announced

(* A broadcast Commit is sent to the others; no Commit of its epoch is     *)
(* lost before.                                                            *)
LEMMA BroadcastSent ==
  ASSUME NEW id \in InstanceID, NEW is, NEW e, NEW q \in Nodes, q # id[1],
         Broadcast("Commit", id, is, e) \subseteq msgs',
         \A m \in lost' : m.type = "Commit" /\ m.from = id[1] => m.epoch # e
  PROVE  Sent(id, q)'
<1> DEFINE m == [type |-> "Commit", id |-> id, from |-> id[1], to |-> q, epoch |-> e,
                 cmd |-> is.cmd, seq |-> is.seq, deps |-> is.deps]
<1>1. /\ m \in Broadcast("Commit", id, is, e)
      /\ m.type = "Commit" /\ m.id = id /\ m.to = q /\ m.from = id[1] /\ m.epoch = e
  BY DEF Broadcast
<1> HIDE DEF m
<1>2. m \in msgs' /\ m \notin lost' BY <1>1
<1>3. CommitTo(m, id, q)' BY <1>1 DEF CommitTo
<1> QED BY Zenon, <1>2, <1>3 DEF Sent

(* What a replica delivers was not executed before, and what it executed   *)
(* stays executed.                                                         *)
LEMMA DeliveredNew ==
  ASSUME TypeOK, ExecutedOnce, ExecutedOnce', NEW r \in Nodes, NEW d \in Seq(InstanceID), Executes(r, d)
  PROVE  /\ Delivered(r) = d
         /\ \A id \in InstanceID : id \in Range(d) =>
              /\ log[r][id].status # "Executed" /\ stored[r][id].status # "Executed"
              /\ log'[r][id].status = "Executed"
         /\ \A p \in Nodes, id \in InstanceID :
              log[p][id].status = "Executed" => log'[p][id].status = "Executed"
<1> DEFINE s == executed[r]
<1>1. s \in Seq(InstanceID) /\ s \o d \in Seq(InstanceID) BY DEF TypeOK
<1>2. executed'[r] = s \o d /\ \A p \in Nodes : p # r => executed'[p] = executed[p]
  BY DEF Executes, TypeOK
<1>3. Delivered(r) = d BY Zenon, <1>1, <1>2, AddedPart DEF Delivered
<1>4. Range(s \o d) = Range(s) \cup Range(d) BY <1>1, ElementsOfBoth
<1>5. \A x \in Range(d) : x \notin Range(s)
  <2> SUFFICES ASSUME NEW i \in DOMAIN s, NEW j \in DOMAIN d, s[i] = d[j] PROVE FALSE
    BY DEF Range
  <2>1. IsInjective(s \o d) BY Zenon, <1>2 DEF ExecutedOnce
  <2>2. /\ i \in DOMAIN (s \o d) /\ Len(s) + j \in DOMAIN (s \o d) /\ i # Len(s) + j
        /\ (s \o d)[i] = s[i] /\ (s \o d)[Len(s) + j] = d[j]
    BY <1>1
  <2> QED BY Zenon, <2>1, <2>2 DEF IsInjective
<1> HIDE DEF s
<1>6. \A id \in InstanceID : id \in Range(d) =>
        /\ log[r][id].status # "Executed" /\ stored[r][id].status # "Executed"
        /\ log'[r][id].status = "Executed"
  BY Zenon, <1>2, <1>4, <1>5 DEF ExecutedOnce, s
<1>7. \A p \in Nodes, id \in InstanceID :
        log[p][id].status = "Executed" => log'[p][id].status = "Executed"
  BY Zenon, <1>2, <1>4 DEF ExecutedOnce, s
<1> QED BY Zenon, <1>3, <1>6, <1>7

-----------------------------------------------------------------------------
(* What the steps of a node rest on.                                       *)
NodeInv ==
  /\ TypeOK /\ ExecutedOnce /\ TakenTypes /\ BoxInv
  /\ \A m \in msgs : Addressed(m)

(* An own instance that is decided and was not executed is sent.           *)
LEMMA DecidedSent ==
  ASSUME NodeInv, AnnounceInv, [Next]_vars, Kept, NEW r \in Nodes, Acts(r), epoch' = epoch,
         lost' = lost, NEW id \in InstanceID, NEW q \in Nodes, epoch[q] = 0, q # id[1],
         log[id[1]][id].status # "Executed", Decided(id[1], id)'
  PROVE  Sent(id, q)'
<1>1. TypeOK /\ BoxInv BY DEF NodeInv
<1>2. CASE Decided(id[1], id)
  <2>1. log[id[1]][id].status = "Committed" BY <1>2 DEF Decided, IsDecision
  <2>2. Sent(id, q) BY <2>1 DEF AnnounceInv
  <2> QED BY <1>1, <2>2, SentKept
<1>3. CASE ~ Decided(id[1], id)
  <2>1. PICK is : Broadcast("Commit", id, is, epoch[id[1]]) \subseteq msgs'
    BY <1>1, <1>3, DecidesWithCommit DEF NodeInv
  <2>2. epoch[id[1]] \in Nat BY LeaderIsNode, <1>1 DEF TypeOK
  <2>3. \A m \in lost' : m.type = "Commit" /\ m.from = id[1] => m.epoch # epoch[id[1]]
    BY <1>1, <2>2 DEF BoxInv, Message
  <2> QED BY <2>1, <2>3, BroadcastSent
<1> QED BY <1>2, <1>3

(* A step other than a restart.                                            *)
LEMMA ActsAnnounce ==
  ASSUME NodeInv, TypeOK', ExecutedOnce', AnnounceInv, [Next]_vars, Kept,
         NEW r \in Nodes, Acts(r), Collect(r), epoch' = epoch,
         NEW d \in Seq(InstanceID), Executes(r, d)
  PROVE  BoxInv' /\ AnnounceInv'
<1>1. TypeOK /\ BoxInv /\ ExecutedOnce /\ TakenTypes BY DEF NodeInv
<1>2. OwnMessages(r, msgs' \ msgs, epoch[r])
  <2>1. \A m \in msgs : m.type \in Replies => m.to = m.id[1] BY DEF NodeInv, Addressed
  <2> QED BY Zenon, <1>1, <2>1, ActsSends
<1>3. BoxInv' /\ lost' = lost /\ \A m \in msgs : InNetwork(m) => InNetwork(m)'
  BY Zenon, <1>1, <1>2, CollectBox
<1>4. /\ Delivered(r) = d
      /\ \A id \in InstanceID : id \in Range(d) =>
           log[r][id].status # "Executed" /\ log'[r][id].status = "Executed"
      /\ \A p \in Nodes, id \in InstanceID :
           log[p][id].status = "Executed" => log'[p][id].status = "Executed"
  BY Zenon, <1>1, DeliveredNew
<1>5. taken' = taken /\ executedCmds' = [executedCmds EXCEPT ![r] = @ \o d]
  BY <1>4 DEF Collect
<1>6. ASSUME NEW id \in InstanceID, NEW q \in Nodes, epoch[q] = 0, q # id[1]
      PROVE  /\ id \in Range(taken'[id[1]]) => Announced(id, q)'
             /\ id \in Range(executedCmds'[id[1]]) => Sent(id, q)'
             /\ log'[id[1]][id].status = "Committed" => Sent(id, q)'
  <2> DEFINE p == id[1]
  <2>1. p \in Nodes BY LeaderIsNode
  <2>2. ASSUME id \in Range(taken'[p]) PROVE Announced(id, q)'
    <3>1. Announced(id, q) BY <1>5, <1>6, <2>2 DEF AnnounceInv
    <3> QED BY <1>1, <1>3, <3>1, AnnouncedKept
  <2>3. ASSUME Sent(id, q) PROVE Sent(id, q)'
    BY <1>1, <1>3, <2>3, SentKept
  <2>4. ASSUME log[p][id].status # "Executed", Decided(p, id)' PROVE Sent(id, q)'
    BY <1>3, <1>6, <2>4, DecidedSent
  <2>5. ASSUME log'[p][id].status = "Committed" PROVE Sent(id, q)'
    <3>1. log[p][id].status # "Executed" BY <1>4, <2>1, <2>5
    <3>2. Decided(p, id)' BY <2>5 DEF Decided, IsDecision
    <3> QED BY <2>4, <3>1, <3>2
  <2>6. ASSUME id \in Range(executedCmds'[p]) PROVE Sent(id, q)'
    <3>1. CASE id \in Range(executedCmds[p])
      <4>1. Sent(id, q) BY <1>6, <3>1 DEF AnnounceInv
      <4> QED BY <2>3, <4>1
    <3>2. CASE p = r /\ id \in Range(d)
      <4>1. log[p][id].status # "Executed" /\ log'[p][id].status = "Executed" BY <1>4, <3>2
      <4>2. Decided(p, id)' BY <4>1 DEF Decided, IsDecision
      <4> QED BY <2>4, <4>1, <4>2
    <3>3. id \in Range(executedCmds[p]) \/ (p = r /\ id \in Range(d))
      <4>1. CASE p # r
        <5>1. executedCmds'[p] = executedCmds[p] BY <1>1, <1>5, <2>1, <4>1 DEF TakenTypes
        <5> QED BY <2>6, <5>1
      <4>2. CASE p = r
        <5>1. executedCmds'[p] = executedCmds[p] \o d /\ executedCmds[p] \in Seq(InstanceID)
          BY <1>1, <1>5, <2>1, <4>2 DEF TakenTypes
        <5>2. Range(executedCmds[p] \o d) = Range(executedCmds[p]) \cup Range(d)
          BY <5>1, ElementsOfBoth
        <5> QED BY Zenon, <2>6, <4>2, <5>1, <5>2
      <4> QED BY <4>1, <4>2
    <3> QED BY <3>1, <3>2, <3>3
  <2> QED BY <2>2, <2>5, <2>6
<1>7. AnnounceInv' BY Zenon, <1>6 DEF AnnounceInv
<1> QED BY <1>3, <1>7

(* A restart loses the outbox and sends the Commits of its storage again.  *)
LEMMA StartAnnounces ==
  ASSUME NodeInv, TypeOK', ExecutedOnce', AnnounceInv, [Next]_vars, Kept,
         NEW r \in Nodes, StartNode(r)
  PROVE  BoxInv' /\ AnnounceInv'
<1>1. TypeOK /\ BoxInv /\ ExecutedOnce /\ TakenTypes BY DEF NodeInv
<1>2. Restart(r) /\ taken' = taken BY DEF StartNode
<1>3. /\ OwnMessages(r, msgs' \ msgs, epoch[r] + 1)
      /\ \A id \in InstanceID : id[1] = r /\ stored[r][id].status = "Committed" =>
           Broadcast("Commit", id, stored[r][id], epoch[r] + 1) \subseteq msgs'
  BY Zenon, <1>1, <1>2, RestartSends
<1>4. /\ BoxInv'
      /\ \A m \in msgs : InNetwork(m) => InNetwork(m)'
      /\ \A m \in lost' : m \in lost \/ m.from = r
  BY Zenon, <1>1, <1>3, StartBox
<1>5. PICK d \in ExecutionOrders(stored[r]) : Execute(r, stored[r], d, {})
  BY <1>2 DEF Restart, prepareToExecute
<1>6. stored[r] \in [InstanceID -> InstanceState] BY <1>1 DEF TypeOK
<1>7. d \in Seq(InstanceID) /\ \A id \in Range(d) : stored[r][id].status = "Committed"
  BY <1>5, <1>6, ExecutionOrdersType
<1>8. Executes(r, d) BY <1>5 DEF Execute, Executes
<1>9. Delivered(r) = d BY Zenon, <1>1, <1>7, <1>8, DeliveredNew
<1>10. /\ executedCmds'[r] = d /\ \A p \in Nodes : p # r => executedCmds'[p] = executedCmds[p]
       /\ \A p \in Nodes : p # r => log'[p] = log[p]
  BY <1>1, <1>5, <1>9 DEF StartNode, TakenTypes, Execute, TypeOK
<1>11. /\ epoch'[r] = epoch[r] + 1 /\ \A p \in Nodes : p # r => epoch'[p] = epoch[p]
       /\ epoch[r] \in Nat
  BY Zenon, <1>1, <1>2 DEF Restart, TypeOK
<1>12. \A id \in InstanceID : log'[r][id].status = "Committed" => stored[r][id].status = "Committed"
  <2>1. log' = [log EXCEPT ![r] = [id \in InstanceID |->
                  IF id \in Range(d) THEN [stored[r][id] EXCEPT !.status = "Executed"]
                  ELSE stored[r][id]]]
    BY Zenon, <1>5 DEF Execute
  <2>2. \A id \in InstanceID : id \notin Range(d) => log'[r][id] = stored[r][id]
    BY <1>1, <2>1 DEF TypeOK
  <2> QED BY <1>7, <2>2
<1>13. ASSUME NEW id \in InstanceID, NEW q \in Nodes, epoch'[q] = 0, q # id[1]
       PROVE  /\ id \in Range(taken'[id[1]]) => Announced(id, q)'
              /\ id \in Range(executedCmds'[id[1]]) => Sent(id, q)'
              /\ log'[id[1]][id].status = "Committed" => Sent(id, q)'
  <2> DEFINE p == id[1]
  <2>1. p \in Nodes BY LeaderIsNode
  <2>2. q # r /\ epoch'[q] = epoch[q] /\ epoch[q] = 0 BY <1>11, <1>13
  <2>3. ASSUME id \in Range(taken'[p]) PROVE Announced(id, q)'
    <3>1. Announced(id, q) BY <1>2, <1>13, <2>2, <2>3 DEF AnnounceInv
    <3> QED BY <1>1, <1>4, <2>2, <3>1, AnnouncedKept
  <2>4. ASSUME id \in Range(executedCmds'[p]) \/ log'[p][id].status = "Committed"
        PROVE  Sent(id, q)'
    <3>1. CASE p # r
      <4>1. Sent(id, q) BY <1>10, <1>13, <2>1, <2>2, <2>4, <3>1 DEF AnnounceInv
      <4>2. \A m \in msgs : m.type = "Commit" /\ m.id = id /\ m \notin lost => m \notin lost'
        BY Zenon, <1>1, <1>4, <3>1 DEF BoxInv
      <4> QED BY <1>1, <2>2, <4>1, <4>2, SentKept
    <3>2. CASE p = r
      <4>1. stored[r][id].status = "Committed" BY <1>7, <1>10, <1>12, <2>4, <3>2
      <4>2. Broadcast("Commit", id, stored[r][id], epoch[r] + 1) \subseteq msgs'
        BY <1>3, <3>2, <4>1
      <4>3. \A m \in lost' : m.type = "Commit" /\ m.from = id[1] => m.epoch # epoch[r] + 1
        <5> SUFFICES ASSUME NEW m \in lost', m.type = "Commit", m.from = r, m.epoch = epoch[r] + 1
                     PROVE  FALSE
          BY <3>2
        <5>1. m.epoch < epoch'[m.from] BY <1>4 DEF BoxInv
        <5> QED BY <1>11, <5>1
      <4> QED BY <1>13, <4>2, <4>3, BroadcastSent
    <3> QED BY <3>1, <3>2
  <2> QED BY <2>3, <2>4
<1>14. AnnounceInv' BY Zenon, <1>13 DEF AnnounceInv
<1> QED BY <1>4, <1>14

(* A Ready hands the messages over with the commands.                      *)
LEMMA ReadyAnnounces ==
  ASSUME NodeInv, AnnounceInv, NEW r \in Nodes, RunReady(r)
  PROVE  BoxInv' /\ AnnounceInv'
<1>1. TypeOK /\ BoxInv /\ TakenTypes BY DEF NodeInv
<1>2. /\ outbox' = [outbox EXCEPT ![r] = <<>>] /\ lost' = lost
      /\ msgs' = msgs /\ log' = log /\ epoch' = epoch
      /\ taken' = [taken EXCEPT ![r] = @ \o executedCmds[r]]
      /\ executedCmds' = [executedCmds EXCEPT ![r] = <<>>]
  BY DEF RunReady, vars
<1>3. /\ outbox'[r] = <<>> /\ \A p \in Nodes : p # r => outbox'[p] = outbox[p]
      /\ outbox' \in [Nodes -> Seq(Message)]
  BY <1>1, <1>2 DEF BoxInv
<1>4. Range(outbox'[r]) = {} BY <1>3 DEF Range
<1>5. BoxInv' BY Zenon, <1>1, <1>2, <1>3, <1>4 DEF BoxInv
<1>6. /\ taken'[r] = taken[r] \o executedCmds[r] /\ executedCmds'[r] = <<>>
      /\ taken[r] \in Seq(InstanceID) /\ executedCmds[r] \in Seq(InstanceID)
      /\ \A p \in Nodes : p # r => taken'[p] = taken[p] /\ executedCmds'[p] = executedCmds[p]
  BY <1>1, <1>2 DEF TakenTypes
<1>7. /\ Range(taken'[r]) = Range(taken[r]) \cup Range(executedCmds[r])
      /\ Range(executedCmds'[r]) = {}
  <2>1. Range(taken[r] \o executedCmds[r]) = Range(taken[r]) \cup Range(executedCmds[r])
    BY <1>6, ElementsOfBoth
  <2>2. Range(<<>>) = {} BY DEF Range
  <2> QED BY Zenon, <1>6, <2>1, <2>2
<1>8. \A id, q : Decided(q, id)' = Decided(q, id) BY Zenon, <1>2 DEF Decided
<1>9. ASSUME NEW id, NEW q, Announced(id, q) PROVE Announced(id, q)'
  <2>1. \A m \in msgs : m.from \in Nodes BY <1>1 DEF TypeOK, Message
  <2>2. \A m \in msgs : InNetwork(m) => InNetwork(m)' BY Zenon, <1>2, <1>3, <1>4, <2>1 DEF InNetwork
  <2> QED BY Zenon, <1>2, <1>8, <1>9, <2>2 DEF Announced, CommitTo
<1>10. ASSUME NEW id, NEW q, Sent(id, q) PROVE Sent(id, q)'
  BY Zenon, <1>2, <1>8, <1>10 DEF Sent, CommitTo
<1>11. ASSUME NEW id, NEW q, id[1] = r, Sent(id, q) PROVE Announced(id, q)'
  <2>1. ASSUME NEW m \in msgs, m \notin lost, CommitTo(m, id, q) PROVE InNetwork(m)'
    <3>1. m.from = r BY <1>1, <1>11, <2>1 DEF BoxInv, CommitTo
    <3> QED BY Zenon, <1>2, <1>4, <2>1, <3>1 DEF InNetwork
  <2> QED BY Zenon, <1>2, <1>8, <1>11, <2>1 DEF Sent, Announced, CommitTo
<1>12. ASSUME NEW id \in InstanceID, NEW q \in Nodes, epoch[q] = 0, q # id[1]
       PROVE  /\ id \in Range(taken'[id[1]]) => Announced(id, q)'
              /\ id \in Range(executedCmds'[id[1]]) => Sent(id, q)'
              /\ log[id[1]][id].status = "Committed" => Sent(id, q)'
  <2>1. id[1] \in Nodes BY LeaderIsNode
  <2>2. /\ id \in Range(taken[id[1]]) => Announced(id, q)
        /\ id \in Range(executedCmds[id[1]]) => Sent(id, q)
        /\ log[id[1]][id].status = "Committed" => Sent(id, q)
    BY Zenon, <1>12 DEF AnnounceInv
  <2>3. CASE id[1] = r
    BY Zenon, <1>7, <1>9, <1>10, <1>11, <2>2, <2>3
  <2>4. CASE id[1] # r
    BY Zenon, <1>6, <1>9, <1>10, <2>1, <2>2, <2>4
  <2> QED BY <2>3, <2>4
<1>13. AnnounceInv' BY Zenon, <1>2, <1>12 DEF AnnounceInv
<1> QED BY <1>5, <1>13

(* Every step keeps the outboxes and what is announced.                    *)
LEMMA AnnounceStep ==
  ASSUME NodeInv, TypeOK', ExecutedOnce', AnnounceInv, DecisionKept \/ UNCHANGED vars, [NodeNext]_nodeVars
  PROVE  BoxInv' /\ AnnounceInv'
<1>1. TypeOK BY DEF NodeInv
<1>2. [Next]_vars BY NodeStep
<1>3. Kept
  <2>1. CASE DecisionKept BY Zenon, <2>1 DEF DecisionKept, Kept
  <2>2. CASE UNCHANGED vars BY <2>2 DEF vars, Kept, Decided
  <2> QED BY <2>1, <2>2
<1>4. ASSUME NEW r \in Nodes, Acts(r), Collect(r), epoch' = epoch,
             \E d \in Seq(InstanceID) : Executes(r, d)
      PROVE  BoxInv' /\ AnnounceInv'
  BY <1>2, <1>3, <1>4, ActsAnnounce
<1>5. ASSUME NEW p \in Nodes, NEW c \in Command, RunPropose(p, c) PROVE BoxInv' /\ AnnounceInv'
  <2>1. Collect(p) /\ epoch' = epoch /\ executed' = executed /\ Acts(p)
    BY <1>5 DEF RunPropose, Request, Panic, Acts
  <2> QED BY <1>1, <1>4, <2>1, NothingExecutes
<1>6. ASSUME NEW p \in Nodes, RunTick(p) PROVE BoxInv' /\ AnnounceInv'
  <2>1. Collect(p) /\ epoch' = epoch /\ executed' = executed /\ Acts(p)
    BY <1>6 DEF RunTick, Tick, Acts
  <2> QED BY <1>1, <1>4, <2>1, NothingExecutes
<1>7. ASSUME NEW m \in msgs, RunStep(m) PROVE BoxInv' /\ AnnounceInv'
  <2>1. m.to \in Nodes BY <1>1 DEF TypeOK, Message
  <2>2. Collect(m.to) /\ Step(m) BY <1>7 DEF RunStep
  <2>3. Acts(m.to) BY Zenon, <2>2 DEF Acts
  <2>4. epoch' = epoch
    BY Zenon, <2>2 DEF Step, Ignore, onPreAccept, Panic, onPreAcceptOK, onPreAcceptReply, onAccept,
                onAcceptOK, onCommit
  <2> QED BY <1>1, <1>4, <2>1, <2>2, <2>3, <2>4, StepExecutes
<1>8. ASSUME NEW p \in Nodes, RunReady(p) PROVE BoxInv' /\ AnnounceInv'
  BY <1>8, ReadyAnnounces
<1>9. ASSUME NEW p \in Nodes, StartNode(p) PROVE BoxInv' /\ AnnounceInv'
  BY <1>2, <1>3, <1>9, StartAnnounces
<1>10. CASE UNCHANGED nodeVars
  <2>1. /\ outbox' = outbox /\ lost' = lost /\ msgs' = msgs /\ epoch' = epoch /\ log' = log
        /\ taken' = taken /\ executedCmds' = executedCmds
    BY <1>10 DEF nodeVars, vars
  <2>2. BoxInv' BY Zenon, <2>1 DEF BoxInv, NodeInv
  <2>3. AnnounceInv' BY Zenon, <2>1 DEF AnnounceInv, Announced, Sent, Decided, InNetwork
  <2> QED BY <2>2, <2>3
<1> QED BY <1>5, <1>6, <1>7, <1>8, <1>9, <1>10 DEF NodeNext

(* A command of an own instance that the application took, and may answer, *)
(* cannot be lost by its replica: every other replica that did not restart *)
(* has its decision or finds it in the network.  Restarts lose outboxes.   *)
THEOREM WhatIsTakenIsAnnounced == NodeSpec => []TakenAnnounced
<1> DEFINE Base == AgreementInv /\ ExecutedOnce /\ TakenInv
<1>1. NodeSpec => []Base
  <2>1. ImplementsEPaxos => Spec BY DEF ImplementsEPaxos
  <2>2. NodeInit => TakenInv
    BY DEF NodeInit, Init, TakenInv, TakenTypes, TakenBy, TakenFrom, Follows
  <2>3. AgreementInv => TypeOK BY DEF AgreementInv
  <2> QED BY <2>1, <2>2, <2>3, NodeImplements, AgreementInvariant, NothingExecutedTwice, TakenStep, PTL
          DEF NodeSpec
<1>2. NodeInit => BoxInv /\ AnnounceInv
  <2> SUFFICES ASSUME NodeInit PROVE BoxInv /\ AnnounceInv
    OBVIOUS
  <2>1. /\ outbox = [p \in Nodes |-> <<>>] /\ lost = {} /\ msgs = {}
        /\ taken = [p \in Nodes |-> <<>>] /\ executedCmds = [p \in Nodes |-> <<>>]
    BY DEF NodeInit, Init
  <2>2. \A id \in InstanceID : id[1] \in Nodes /\ log[id[1]][id].status = "None"
    BY LeaderIsNode DEF NodeInit, Init, NewInstance
  <2>3. Range(<<>>) = {} BY DEF Range
  <2>4. BoxInv BY <2>1, <2>3 DEF BoxInv
  <2>5. AnnounceInv BY <2>1, <2>2, <2>3 DEF AnnounceInv
  <2> QED BY <2>4, <2>5
<1>3. Base /\ Base' /\ BoxInv /\ AnnounceInv /\ [NodeNext]_nodeVars => BoxInv' /\ AnnounceInv'
  <2> SUFFICES ASSUME Base, Base', BoxInv, AnnounceInv, [NodeNext]_nodeVars
               PROVE  BoxInv' /\ AnnounceInv'
    OBVIOUS
  <2>1. NodeInv
    <3>1. \A m \in msgs : Addressed(m) BY DEF AgreementInv, Addressed
    <3> QED BY Zenon, <3>1 DEF AgreementInv, NodeInv, TakenInv
  <2>2. TypeOK' BY DEF AgreementInv
  <2>3. DecisionKept \/ UNCHANGED vars BY NodeStep, AgreementStep
  <2> QED BY <2>1, <2>2, <2>3, AnnounceStep
<1>4. Base /\ AnnounceInv => TakenAnnounced
  <2> SUFFICES ASSUME Base, AnnounceInv PROVE TakenAnnounced
    OBVIOUS
  <2> SUFFICES ASSUME NEW p \in Nodes, NEW id \in Range(taken[p]),
                      NEW q \in Nodes, id[1] = p, epoch[q] = 0
               PROVE  Announced(id, q)
    <3>1. \A id, q : Announced(id, q) =>
            \/ Decided(q, id)
            \/ \E m \in msgs : InNetwork(m) /\ m.type = "Commit" /\ m.id = id /\ m.to = q
      BY Zenon DEF Announced, CommitTo
    <3> QED BY <3>1 DEF TakenAnnounced
  <2>1. /\ taken[p] \in Seq(InstanceID) /\ executedCmds[p] \in Seq(InstanceID)
        /\ epoch[p] = 0 => taken[p] \o executedCmds[p] = executed[p]
    BY Zenon DEF TakenInv, TakenBy, TakenFrom
  <2>2. id \in InstanceID BY <2>1 DEF Range
  <2>3. CASE q # p BY <2>2, <2>3 DEF AnnounceInv
  <2>4. CASE q = p
    <3>1. Range(taken[p] \o executedCmds[p]) = Range(taken[p]) \cup Range(executedCmds[p])
      BY <2>1, ElementsOfBoth
    <3>2. id \in Range(executed[p]) BY Zenon, <2>1, <2>4, <3>1
    <3>3. log[p][id].status = "Executed" BY <2>2, <3>2 DEF ExecutedOnce
    <3> QED BY <2>4, <3>3 DEF Announced, Decided, IsDecision
  <2> QED BY <2>3, <2>4
<1> HIDE DEF Base
<1> QED BY <1>1, <1>2, <1>3, <1>4, PTL DEF NodeSpec

=============================================================================
