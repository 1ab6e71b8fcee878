-------------------------- MODULE EPaxosExecution ---------------------------
(***************************************************************************)
(* What a replica executes, whatever it receives and however often it      *)
(* restarts: no instance twice, and everything that can be executed.  As   *)
(* long as no replica restarts no process panics.  At the end, what a step *)
(* executes and sends, for the node around the replica.                    *)
(***************************************************************************)
EXTENDS EPaxosAgreement

(* A step that executes nothing leaves alone what was committed.           *)
Idle ==
  /\ executed' = executed
  /\ \A p \in Nodes, id \in InstanceID :
       /\ \/ log'[p][id] = log[p][id]
          \/ ~ IsDecision(log[p][id]) /\ ~ IsDecision(log'[p][id])
       /\ stored'[p][id].status = "Executed" <=> stored[p][id].status = "Executed"

(* A step runs the executor of p on a log l in which exactly the executed  *)
(* instances are executed, and all of them as they were.                   *)
Runs(p, l, persisted) ==
  /\ p \in Nodes /\ l \in [InstanceID -> InstanceState] /\ persisted \in SUBSET InstanceID
  /\ \A id \in InstanceID :
       /\ l[id].status = "Executed" <=> id \in Range(executed[p])
       /\ l[id].status = "Executed" => l[id] = log[p][id]
  /\ prepareToExecute(p, l, persisted)

SomeRun == \E p, l, persisted : Runs(p, l, persisted)

(* A step that executes nothing keeps what was executed once.              *)
LEMMA IdleStep == ExecutedOnce /\ Idle => ExecutedOnce'
BY DEF ExecutedOnce, Idle, IsDecision

(* What is added to a sequence without repetitions.                        *)
LEMMA InjectiveConcat ==
  ASSUME NEW S, NEW s \in Seq(S), NEW t \in Seq(S), IsInjective(s), IsInjective(t),
         Range(s) \cap Range(t) = {}
  PROVE  IsInjective(s \o t) /\ Range(s \o t) = Range(s) \cup Range(t)
<1> DEFINE u == s \o t
<1>1. /\ u \in Seq(S) /\ DOMAIN u = 1..(Len(s) + Len(t))
      /\ DOMAIN s = 1..Len(s) /\ DOMAIN t = 1..Len(t) /\ Len(s) \in Nat /\ Len(t) \in Nat
  OBVIOUS
<1>2. \A i \in DOMAIN u : u[i] = IF i <= Len(s) THEN s[i] ELSE t[i - Len(s)]
  BY <1>1
<1>3. \A i \in DOMAIN u :
        \/ i \in DOMAIN s /\ u[i] = s[i]
        \/ i - Len(s) \in DOMAIN t /\ u[i] = t[i - Len(s)] /\ i \in Int
  BY <1>1, <1>2
<1>4. \A i \in DOMAIN s : i \in DOMAIN u /\ u[i] = s[i]
  BY <1>1, <1>2
<1>5. \A i \in DOMAIN t : i + Len(s) \in DOMAIN u /\ u[i + Len(s)] = t[i]
  BY <1>1, <1>2
<1> HIDE DEF u
<1>6. IsInjective(u)
  <2> SUFFICES ASSUME NEW i \in DOMAIN u, NEW j \in DOMAIN u, u[i] = u[j] PROVE i = j
    BY DEF IsInjective
  <2>1. i \in Int /\ j \in Int BY <1>1
  <2>2. CASE i \in DOMAIN s /\ u[i] = s[i] /\ j \in DOMAIN s /\ u[j] = s[j]
    BY Zenon, <2>2 DEF IsInjective
  <2>3. CASE /\ i - Len(s) \in DOMAIN t /\ u[i] = t[i - Len(s)]
             /\ j - Len(s) \in DOMAIN t /\ u[j] = t[j - Len(s)]
    <3>1. i - Len(s) = j - Len(s) BY Zenon, <2>3 DEF IsInjective
    <3> QED BY <1>1, <2>1, <3>1
  <2>4. \A x \in DOMAIN s, y \in DOMAIN t : s[x] # t[y] BY Zenon DEF Range
  <2> QED BY <1>3, <2>2, <2>3, <2>4
<1>7. Range(u) = Range(s) \cup Range(t)
  <2>1. Range(u) \subseteq Range(s) \cup Range(t) BY <1>3 DEF Range
  <2>2. Range(s) \subseteq Range(u) BY <1>4 DEF Range
  <2>3. Range(t) \subseteq Range(u) BY <1>5 DEF Range
  <2> QED BY <2>1, <2>2, <2>3
<1> QED BY <1>6, <1>7 DEF u

(* prepareToExecute executes every instance at most once: it takes up only *)
(* instances that are committed in the log l of p.                         *)
LEMMA ExecuteOnce ==
  ASSUME TypeOK, ExecutedOnce, NEW p, NEW l, NEW persisted, Runs(p, l, persisted)
  PROVE  ExecutedOnce'
<1>0. /\ p \in Nodes /\ l \in [InstanceID -> InstanceState]
      /\ persisted \in SUBSET InstanceID
      /\ \A id \in InstanceID : l[id].status = "Executed" <=> id \in Range(executed[p])
  BY DEF Runs
<1>1. PICK order \in ExecutionOrders(l) : Execute(p, l, order, persisted)
  BY DEF Runs, prepareToExecute
<1> DEFINE done == Range(order)
           l2 == [id \in InstanceID |->
                    IF id \in done THEN [l[id] EXCEPT !.status = "Executed"] ELSE l[id]]
           s2 == [id \in InstanceID |->
                    IF id \in done \cup persisted THEN l2[id] ELSE stored[p][id]]
<1>2. /\ log' = [log EXCEPT ![p] = l2]
      /\ stored' = [stored EXCEPT ![p] = s2]
      /\ executed' = [executed EXCEPT ![p] = executed[p] \o order]
  BY <1>1 DEF Execute
<1>3. /\ order \in Seq(InstanceID)
      /\ \A id \in done : id \in InstanceID /\ l[id].status = "Committed"
  BY <1>0, <1>1, ExecutionOrdersType
<1>4. IsInjective(order)
  <2>1. order \in Injection(1..Cardinality(Executable(l)), Executable(l)) BY <1>1 DEF ExecutionOrders
  <2>2. DOMAIN order = 1..Cardinality(Executable(l)) BY <2>1 DEF Injection
  <2> QED BY <2>1, <2>2 DEF Injection
<1>5. Range(executed[p]) \cap done = {}
  BY <1>0, <1>3
<1>6. executed[p] \in Seq(InstanceID) /\ IsInjective(executed[p])
  BY <1>0 DEF TypeOK, ExecutedOnce
<1>7. /\ IsInjective(executed[p] \o order)
      /\ Range(executed[p] \o order) = Range(executed[p]) \cup done
  BY <1>3, <1>4, <1>5, <1>6, InjectiveConcat
<1>8. \A id \in InstanceID : l2[id].status = IF id \in done THEN "Executed" ELSE l[id].status
  BY <1>0 DEF InstanceState
<1> HIDE DEF done
<1>9. \A id \in InstanceID : l2[id].status = "Executed" <=> id \in Range(executed[p]) \cup done
  BY <1>0, <1>8
<1> HIDE DEF l2
<1>10. \A id \in InstanceID : s2[id].status = "Executed" <=> id \in Range(executed[p]) \cup done
  BY <1>0, <1>9 DEF ExecutedOnce
<1> HIDE DEF s2
<1>11. /\ log'[p] = l2 /\ stored'[p] = s2 /\ executed'[p] = executed[p] \o order
       /\ \A q \in Nodes : q # p => /\ log'[q] = log[q] /\ stored'[q] = stored[q]
                                    /\ executed'[q] = executed[q]
  BY <1>0, <1>2 DEF TypeOK
<1>12. ASSUME NEW q \in Nodes
       PROVE  /\ IsInjective(executed'[q])
              /\ \A id \in InstanceID :
                   /\ stored'[q][id].status = "Executed" <=> id \in Range(executed'[q])
                   /\ log'[q][id].status = "Executed" <=> id \in Range(executed'[q])
  <2>1. CASE q = p BY ZenonT(30), <1>7, <1>9, <1>10, <1>11, <2>1
  <2>2. CASE q # p
    <3>1. log'[q] = log[q] /\ stored'[q] = stored[q] /\ executed'[q] = executed[q]
      BY <1>11, <2>2
    <3> QED BY ZenonT(30), <3>1 DEF ExecutedOnce
  <2> QED BY <2>1, <2>2
<1> QED BY <1>12 DEF ExecutedOnce

(* A leader's Commit runs the executor.                                    *)
LEMMA CommitRuns ==
  ASSUME TypeOK, ExecutedOnce, NEW p \in Nodes, NEW id \in InstanceID,
         NEW is \in InstanceState, NEW rest, log[p][id].status # "Executed",
         Commit(p, id, is, rest)
  PROVE  SomeRun
<1> DEFINE l == [log[p] EXCEPT ![id] = [is EXCEPT !.status = "Committed"]]
<1>1. l \in [InstanceID -> InstanceState] BY ZenonT(30) DEF TypeOK, InstanceState, Status
<1>2. /\ l[id].status = "Committed"
      /\ \A x \in InstanceID : x # id => l[x] = log[p][x]
  BY DEF TypeOK, InstanceState
<1>3. prepareToExecute(p, l, {id}) BY DEF Commit
<1> HIDE DEF l
<1>4. \A x \in InstanceID : /\ l[x].status = "Executed" <=> x \in Range(executed[p])
                            /\ l[x].status = "Executed" => l[x] = log[p][x]
  BY <1>2 DEF ExecutedOnce
<1>5. {id} \in SUBSET InstanceID OBVIOUS
<1> QED BY Zenon, <1>1, <1>3, <1>4, <1>5 DEF SomeRun, Runs

(* A reply to a PreAccept commits, sends for acceptance or is counted.     *)
LEMMA EitherReplyRuns ==
  ASSUME TypeOK, ExecutedOnce, NEW m \in msgs, NEW is \in InstanceState, NEW ld,
         is.status = "PreAccepted", log[m.to][m.id].status = "PreAccepted",
         stored[m.to][m.id].status # "Executed",
         onEitherPreAcceptReply(m, is, ld)
  PROVE  Idle \/ SomeRun
<1>1. m.to \in Nodes /\ m.id \in InstanceID BY DEF TypeOK, Message
<1>2. CASE Commit(m.to, m.id, is, msgs \ {m})
  BY <1>1, <1>2, CommitRuns
<1>3. CASE Accept(m.to, m.id, is, msgs \ {m})
  <2> DEFINE accepted == [is EXCEPT !.status = "Accepted"]
  <2>1. accepted.status = "Accepted" BY DEF InstanceState
  <2> HIDE DEF accepted
  <2>2. /\ log' = [log EXCEPT ![m.to][m.id] = accepted]
        /\ stored' = [stored EXCEPT ![m.to][m.id] = accepted]
        /\ executed' = executed
    BY <1>3 DEF Accept, persist, accepted
  <2> QED BY <1>1, <2>1, <2>2 DEF Idle, TypeOK, IsDecision
<1>4. CASE /\ log' = [log EXCEPT ![m.to][m.id] = is]
           /\ UNCHANGED <<stored, executed>>
  BY <1>1, <1>4 DEF Idle, TypeOK, IsDecision
<1> QED BY <1>2, <1>3, <1>4 DEF onEitherPreAcceptReply

(* onRequest executes nothing.                                             *)
LEMMA RequestIdle ==
  ASSUME TypeOK, ExecutedOnce, NEW p \in Nodes, NEW c \in Command, Request(p, c)
  PROVE  Idle
<1> DEFINE id == <<p, maxInstanceNum(p) + 1>>
           local == seqAndDepsForCommand(log[p], c, <<0, 0>>)
           is == [status |-> "PreAccepted", cmd |-> c, seq |-> local.maxSeq + 1,
                  deps |-> local.deps]
<1>1. is.status = "PreAccepted" OBVIOUS
<1>2. id \in InstanceID BY DEF Request
<1>3. log[p][id].status = "None" BY <1>2, FreshInstance
<1>4. stored[p][id].status # "Executed" BY <1>2, <1>3 DEF ExecutedOnce
<1>5. CASE Panic(p) BY <1>5 DEF Panic, Idle
<1>6. CASE /\ log' = [log EXCEPT ![p][id] = is]
           /\ stored' = [stored EXCEPT ![p][id] = is]
           /\ UNCHANGED executed
  <2> HIDE DEF id, is
  <2> QED BY <1>1, <1>2, <1>3, <1>4, <1>6 DEF Idle, TypeOK, IsDecision
<1> QED BY <1>5, <1>6 DEF Request, persist

(* Tick executes nothing, and leaves executed instances alone.             *)
LEMMA TickIdle ==
  ASSUME TypeOK, TimerInv, ExecutedOnce, NEW p \in Nodes, Tick(p)
  PROVE  Idle
<1> DEFINE fired == {id \in InstanceID : /\ id[1] = p /\ lead[id].slowPathTimer # Paused
                                        /\ Expires(lead[id].slowPathTimer)}
           accepted == [id \in InstanceID |-> [log[p][id] EXCEPT !.status = "Accepted"]]
<1>1. /\ log' = [log EXCEPT ![p] =
           [id \in InstanceID |-> IF id \in fired THEN accepted[id] ELSE log[p][id]]]
      /\ stored' = [stored EXCEPT ![p] =
           [id \in InstanceID |-> IF id \in fired THEN accepted[id] ELSE stored[p][id]]]
      /\ executed' = executed
  BY DEF Tick, TypeOK
<1>2. \A id \in fired : log[p][id].status = "PreAccepted" /\ stored[p][id].status # "Executed"
  BY DEF TimerInv, ExecutedOnce
<1>3. \A id \in InstanceID : accepted[id].status = "Accepted"
  BY DEF TypeOK, InstanceState
<1> HIDE DEF fired, accepted
<1> QED BY <1>1, <1>2, <1>3 DEF Idle, TypeOK, IsDecision

(* onPreAccept and onAccept execute nothing.                               *)
LEMMA FollowerIdle ==
  ASSUME TypeOK, NEW m \in msgs, onPreAccept(m) \/ onAccept(m)
  PROVE  Idle
<1>1. m.to \in Nodes /\ m.id \in InstanceID /\ log[m.to][m.id] \in InstanceState
  BY DEF TypeOK, Message
<1>2. ~ IsDecision(log[m.to][m.id])
  BY DEF onPreAccept, onAccept, Handles, HandledIn, IsDecision
<1>3. CASE Panic(m.to) BY <1>3 DEF Panic, Idle
<1>4. ASSUME NEW is, ~ IsDecision(is), log' = [log EXCEPT ![m.to][m.id] = is],
             UNCHANGED <<stored, executed>>
      PROVE  Idle
  BY <1>1, <1>2, <1>4 DEF Idle, TypeOK
<1>5. CASE onPreAccept(m)
  <2> DEFINE update(is) == /\ is.status = "PreAccepted"
                           /\ log' = [log EXCEPT ![m.to][m.id] = is]
  <2>1. \/ Panic(m.to)
        \/ (\E is : update(is)) /\ UNCHANGED <<stored, executed>>
    BY Zenon, <1>5 DEF onPreAccept
  <2>2. \A is : update(is) => ~ IsDecision(is) BY DEF IsDecision
  <2> QED BY Zenon, <1>3, <1>4, <2>1, <2>2
<1>6. CASE onAccept(m)
  <2> DEFINE is == [log[m.to][m.id] EXCEPT !.status = "Accepted", !.seq = m.seq, !.deps = m.deps]
  <2>1. ~ IsDecision(is) BY <1>1 DEF InstanceState, IsDecision
  <2>2. log' = [log EXCEPT ![m.to][m.id] = is] /\ UNCHANGED <<stored, executed>>
    BY <1>6 DEF onAccept
  <2> HIDE DEF is
  <2> QED BY Zenon, <1>4, <2>1, <2>2
<1> QED BY <1>5, <1>6

(* onCommit runs the executor.                                             *)
LEMMA CommitMessageRuns ==
  ASSUME TypeOK, ExecutedOnce, NEW m \in msgs, onCommit(m)
  PROVE  SomeRun
<1> DEFINE l == [log[m.to] EXCEPT ![m.id] = [status |-> "Committed", cmd |-> m.cmd,
                                             seq |-> m.seq, deps |-> m.deps]]
<1>1. m.to \in Nodes /\ m.id \in InstanceID /\ l \in [InstanceID -> InstanceState]
  BY DEF TypeOK, Message, InstanceState, Status
<1>2. log[m.to][m.id].status # "Executed" BY DEF onCommit, Handles, HandledIn
<1>3. /\ l[m.id].status = "Committed"
      /\ \A x \in InstanceID : x # m.id => l[x] = log[m.to][x]
  BY <1>1 DEF TypeOK
<1>4. prepareToExecute(m.to, l, {}) BY DEF onCommit
<1> HIDE DEF l
<1>5. \A x \in InstanceID : /\ l[x].status = "Executed" <=> x \in Range(executed[m.to])
                            /\ l[x].status = "Executed" => l[x] = log[m.to][x]
  BY <1>1, <1>2, <1>3 DEF ExecutedOnce
<1>6. {} \in SUBSET InstanceID OBVIOUS
<1> QED BY Zenon, <1>1, <1>4, <1>5, <1>6 DEF SomeRun, Runs

(* A restart loads the executed instances as they were stored.             *)
LEMMA RestartRuns ==
  ASSUME TypeOK, DecisionInv, ExecutedOnce, NEW p \in Nodes, Restart(p)
  PROVE  SomeRun
<1>1. prepareToExecute(p, stored[p], {}) BY DEF Restart
<1>2. stored[p] \in [InstanceID -> InstanceState] /\ {} \in SUBSET InstanceID BY DEF TypeOK
<1>3. \A x \in InstanceID :
        /\ stored[p][x].status = "Executed" <=> x \in Range(executed[p])
        /\ stored[p][x].status = "Executed" => stored[p][x] = log[p][x]
  BY DEF ExecutedOnce, DecisionInv
<1> QED BY Zenon, <1>1, <1>2, <1>3 DEF SomeRun, Runs

(* Every step executes nothing, or runs the executor of a replica.         *)
LEMMA StepKinds ==
  ASSUME AgreementInv, ExecutedOnce, [Next]_vars
  PROVE  Idle \/ SomeRun
<1> DEFINE Goal == Idle \/ SomeRun
<1>1. TypeOK /\ TimerInv /\ DecisionInv BY InvParts
<1>2. ASSUME NEW p \in Nodes, NEW c \in Command, Request(p, c) PROVE Goal
  BY <1>1, <1>2, RequestIdle
<1>3. ASSUME NEW m \in msgs, Ignore(m) PROVE Goal
  BY <1>3 DEF Ignore, Idle
<1>4. ASSUME NEW m \in msgs, onPreAccept(m) \/ onAccept(m) PROVE Goal
  BY <1>1, <1>4, FollowerIdle
<1>5. ASSUME NEW m \in msgs, onPreAcceptOK(m) \/ onPreAcceptReply(m) PROVE Goal
  <2> DEFINE is == log[m.to][m.id]
             merged == [is EXCEPT !.seq = Max({@, m.seq}), !.deps = unionDepSlices(@, m.deps)]
  <2>1. /\ m.to \in Nodes /\ m.id \in InstanceID /\ is \in InstanceState
        /\ m.seq \in Nat /\ m.deps \in SUBSET InstanceID
    BY <1>1 DEF TypeOK, Message
  <2>2. is.status = "PreAccepted"
    BY <1>5 DEF onPreAcceptOK, onPreAcceptReply, Handles, HandledIn
  <2>3. merged \in InstanceState /\ merged.status = "PreAccepted"
    <3>1. Max({is.seq, m.seq}) \in Nat BY <2>1, MaxOfTwo DEF InstanceState
    <3> QED BY ZenonT(30), <2>1, <2>2, <3>1 DEF InstanceState, unionDepSlices
  <2>4. stored[m.to][m.id].status # "Executed" BY <2>1, <2>2 DEF ExecutedOnce
  <2>5. \E ld : onEitherPreAcceptReply(m, is, ld) \/ onEitherPreAcceptReply(m, merged, ld)
    BY <1>5 DEF onPreAcceptOK, onPreAcceptReply
  <2> HIDE DEF merged
  <2> QED BY <1>1, <2>1, <2>2, <2>3, <2>4, <2>5, EitherReplyRuns
<1>6. ASSUME NEW m \in msgs, onAcceptOK(m) PROVE Goal
  <2>1. m.to \in Nodes /\ m.id \in InstanceID /\ log[m.to][m.id] \in InstanceState
    BY <1>1 DEF TypeOK, Message
  <2>2. log[m.to][m.id].status = "Accepted" BY <1>6 DEF onAcceptOK, Handles, HandledIn
  <2>3. CASE Commit(m.to, m.id, log[m.to][m.id], msgs \ {m})
    BY <1>1, <2>1, <2>2, <2>3, CommitRuns
  <2>4. CASE UNCHANGED <<log, stored, executed>> BY <2>4 DEF Idle
  <2> QED BY <1>6, <2>3, <2>4 DEF onAcceptOK
<1>7. ASSUME NEW m \in msgs, onCommit(m) PROVE Goal
  BY <1>1, <1>7, CommitMessageRuns
<1>8. ASSUME NEW p \in Nodes, Tick(p) \/ Restart(p) PROVE Goal
  BY <1>1, <1>8, TickIdle, RestartRuns
<1>9. CASE UNCHANGED vars BY <1>9 DEF vars, Idle
<1>10. ASSUME NEW m \in msgs, Step(m) PROVE Goal
  BY <1>3, <1>4, <1>5, <1>6, <1>7, <1>10 DEF Step
<1> QED BY <1>2, <1>8, <1>9, <1>10 DEF Next

(* Every step executes an instance at most once.                           *)
LEMMA ExecutedOnceStep ==
  AgreementInv /\ ExecutedOnce /\ [Next]_vars => ExecutedOnce'
BY StepKinds, IdleStep, ExecuteOnce, InvParts DEF SomeRun

(* No replica ever executes an instance twice, whatever arrives again or   *)
(* late and however often it restarts, and what it executed is what its    *)
(* storage says.                                                           *)
THEOREM NothingExecutedTwice == Spec => []ExecutedOnce
<1>1. Init => ExecutedOnce
  BY DEF Init, ExecutedOnce, NewInstance, IsInjective, Range
<1> QED BY <1>1, ExecutedOnceStep, AgreementInvariant, PTL DEF Spec

-----------------------------------------------------------------------------
(* What can be executed is executed.                                       *)

(* A set of committed instances whose dependencies are in it or executed.  *)
LEMMA ExecutableMember ==
  ASSUME NEW l \in [InstanceID -> InstanceState], NEW S \in SUBSET InstanceID,
         \A x \in S : /\ l[x].status = "Committed"
                      /\ \A d \in l[x].deps : d \in S \/ l[d].status = "Executed"
  PROVE  S \subseteq Executable(l)
<1>1. DOMAIN l = InstanceID OBVIOUS
<1>2. S \in SUBSET Vertices(l) BY <1>1 DEF Vertices
<1> QED BY Zenon, <1>2 DEF Executable

(* The instances that can be executed are committed, and their             *)
(* dependencies can be or were executed.                                   *)
LEMMA ExecutableClosed ==
  ASSUME NEW l \in [InstanceID -> InstanceState], NEW x \in Executable(l)
  PROVE  /\ x \in InstanceID /\ l[x].status = "Committed"
         /\ \A d \in l[x].deps : d \in Executable(l) \/ l[d].status = "Executed"
<1> DEFINE closed(S) == \A z \in S : \A d \in l[z].deps : d \in S \/ l[d].status = "Executed"
<1>1. PICK S \in SUBSET Vertices(l) : closed(S) /\ x \in S
  BY Zenon DEF Executable
<1>2. S \subseteq Executable(l) BY Zenon, <1>1 DEF Executable
<1>3. x \in InstanceID /\ l[x].status = "Committed" BY <1>1 DEF Vertices
<1> QED BY <1>1, <1>2, <1>3

(* An order of the executor is one of exactly what can be executed.        *)
LEMMA OrderOfExecutable ==
  ASSUME NEW l \in [InstanceID -> InstanceState], NEW order \in ExecutionOrders(l)
  PROVE  Range(order) = Executable(l)
<1> DEFINE E == Executable(l)
<1>1. E \subseteq InstanceID BY ExecutableClosed
<1>2. IsFiniteSet(E) BY <1>1, InstanceIDFinite, FS_Subset
<1>3. Cardinality(E) \in Nat BY <1>2, FS_CardinalityType
<1>4. order \in Injection(1..Cardinality(E), E) BY DEF ExecutionOrders
<1>5. order \in [1..Cardinality(E) -> E] BY <1>4 DEF Injection
<1> HIDE DEF E
<1>6. Cardinality(1..Cardinality(E)) = Cardinality(E)
  <2>1. 0 \in Int /\ 1 \in Int /\ Cardinality(E) \in Int BY <1>3
  <2>2. Cardinality(1..Cardinality(E)) =
          IF 1 > Cardinality(E) THEN 0 ELSE Cardinality(E) - 1 + 1
    BY <2>1, FS_Interval
  <2> QED BY <1>3, <2>2
<1>7. order \in Surjection(1..Cardinality(E), E)
  BY <1>2, <1>4, <1>6, FS_Injection
<1>8. DOMAIN order = 1..Cardinality(E) BY <1>5
<1>9. Range(order) \subseteq E BY <1>5, <1>8 DEF Range
<1>10. E \subseteq Range(order) BY Zenon, <1>7, <1>8 DEF Range, Surjection
<1> QED BY Zenon, <1>9, <1>10 DEF E

(* A step that executes nothing makes nothing executable.                  *)
LEMMA IdleDrained ==
  ASSUME TypeOK, TypeOK', ExecutorDrained, Idle
  PROVE  ExecutorDrained'
<1> SUFFICES ASSUME NEW p \in Nodes PROVE Executable(log'[p]) = {}
  BY DEF ExecutorDrained
<1> DEFINE l == log[p]
           k == log'[p]
           S == Executable(k)
<1>1. l \in [InstanceID -> InstanceState] /\ k \in [InstanceID -> InstanceState]
  BY DEF TypeOK
<1>2. \A id \in InstanceID :
        k[id].status \in {"Committed", "Executed"} => k[id] = l[id]
  BY DEF Idle, IsDecision
<1>3. \A x \in S : /\ x \in InstanceID /\ k[x].status = "Committed"
                   /\ k[x].deps \subseteq InstanceID
                   /\ \A d \in k[x].deps : d \in S \/ k[d].status = "Executed"
  <2>1. \A x \in InstanceID : k[x].deps \subseteq InstanceID BY <1>1 DEF InstanceState
  <2> HIDE DEF k
  <2> QED BY <1>1, <2>1, ExecutableClosed
<1>4. Executable(l) = {} BY DEF ExecutorDrained
<1> HIDE DEF l, k, S
<1>5. S \subseteq Executable(l)
  <2>1. S \in SUBSET InstanceID BY <1>3
  <2>2. \A x \in S : /\ l[x].status = "Committed"
                     /\ \A d \in l[x].deps : d \in S \/ l[d].status = "Executed"
    BY <1>2, <1>3
  <2> QED BY <1>1, <2>1, <2>2, ExecutableMember
<1> QED BY <1>4, <1>5 DEF S, k

(* A run leaves nothing executable: with the instances it executed, what   *)
(* would be left could have been executed by it.                           *)
LEMMA RunDrains ==
  ASSUME NEW l \in [InstanceID -> InstanceState], NEW k \in [InstanceID -> InstanceState],
         \A id \in InstanceID :
           /\ k[id].deps = l[id].deps
           /\ id \in Executable(l) => k[id].status = "Executed"
           /\ id \notin Executable(l) => k[id].status = l[id].status
  PROVE  Executable(k) = {}
<1> DEFINE S == Executable(k)
           T == S \cup Executable(l)
<1>1. \A x \in S : /\ x \in InstanceID /\ k[x].status = "Committed"
                   /\ \A d \in k[x].deps : d \in S \/ k[d].status = "Executed"
  BY ExecutableClosed
<1>2. \A x \in Executable(l) :
        /\ x \in InstanceID /\ l[x].status = "Committed"
        /\ \A d \in l[x].deps : d \in Executable(l) \/ l[d].status = "Executed"
  BY ExecutableClosed
<1>3. \A x \in InstanceID : l[x].deps \subseteq InstanceID BY DEF InstanceState
<1> HIDE DEF S
<1>4. \A x \in S : x \notin Executable(l) /\ l[x].status = "Committed" BY <1>1
<1>5. \A x \in T : /\ l[x].status = "Committed"
                   /\ \A d \in l[x].deps : d \in T \/ l[d].status = "Executed"
  BY <1>1, <1>2, <1>3, <1>4
<1>6. T \in SUBSET InstanceID BY <1>1, <1>2
<1>7. T \subseteq Executable(l)
  <2> HIDE DEF T
  <2> QED BY <1>5, <1>6, ExecutableMember
<1> QED BY <1>4, <1>7 DEF S

(* What a run does to the log and the history of its replica.              *)
LEMMA RunEffect ==
  ASSUME TypeOK, NEW p, NEW l, NEW persisted, Runs(p, l, persisted)
  PROVE  \E order \in ExecutionOrders(l) :
           /\ \A q \in Nodes : q # p => log'[q] = log[q] /\ executed'[q] = executed[q]
           /\ executed'[p] = executed[p] \o order
           /\ log'[p] \in [InstanceID -> InstanceState]
           /\ \A id \in InstanceID :
                /\ SameData(log'[p][id], l[id])
                /\ id \in Range(order) => log'[p][id].status = "Executed"
                /\ id \notin Range(order) => log'[p][id] = l[id]
<1>1. p \in Nodes /\ l \in [InstanceID -> InstanceState] BY DEF Runs
<1>2. PICK order \in ExecutionOrders(l) : Execute(p, l, order, persisted)
  BY DEF Runs, prepareToExecute
<1> DEFINE done == Range(order)
           l2 == [id \in InstanceID |->
                    IF id \in done THEN [l[id] EXCEPT !.status = "Executed"] ELSE l[id]]
<1>3. /\ log' = [log EXCEPT ![p] = l2]
      /\ executed' = [executed EXCEPT ![p] = executed[p] \o order]
  BY <1>2 DEF Execute
<1> HIDE DEF done
<1>4. \A id \in InstanceID :
        /\ l2[id] \in InstanceState /\ SameData(l2[id], l[id])
        /\ id \in done => l2[id].status = "Executed"
        /\ id \notin done => l2[id] = l[id]
  BY <1>1 DEF InstanceState, Status, SameData
<1>5. l2 \in [InstanceID -> InstanceState] BY <1>4
<1> HIDE DEF l2
<1>6. /\ log'[p] = l2 /\ executed'[p] = executed[p] \o order
      /\ \A q \in Nodes : q # p => log'[q] = log[q] /\ executed'[q] = executed[q]
  BY <1>1, <1>3 DEF TypeOK
<1> QED BY ZenonT(30), <1>2, <1>4, <1>5, <1>6 DEF done

(* Every step leaves the executors drained.                                *)
LEMMA DrainedStep ==
  ASSUME AgreementInv, AgreementInv', ExecutedOnce, ExecutorDrained, [Next]_vars
  PROVE  ExecutorDrained'
<1>1. TypeOK /\ TypeOK' BY DEF AgreementInv
<1>2. CASE Idle BY <1>1, <1>2, IdleDrained
<1>3. ASSUME NEW p, NEW l, NEW persisted, Runs(p, l, persisted) PROVE ExecutorDrained'
  <2>1. p \in Nodes /\ l \in [InstanceID -> InstanceState] BY <1>3 DEF Runs
  <2>2. PICK order \in ExecutionOrders(l) :
          /\ \A q \in Nodes : q # p => log'[q] = log[q] /\ executed'[q] = executed[q]
          /\ log'[p] \in [InstanceID -> InstanceState]
          /\ \A id \in InstanceID :
               /\ SameData(log'[p][id], l[id])
               /\ id \in Range(order) => log'[p][id].status = "Executed"
               /\ id \notin Range(order) => log'[p][id] = l[id]
    BY <1>1, <1>3, RunEffect
  <2>3. Range(order) = Executable(l) BY <2>1, <2>2, OrderOfExecutable
  <2>4. \A id \in InstanceID :
          /\ log'[p][id].deps = l[id].deps
          /\ id \in Executable(l) => log'[p][id].status = "Executed"
          /\ id \notin Executable(l) => log'[p][id].status = l[id].status
    BY <2>2, <2>3 DEF SameData
  <2>5. Executable(log'[p]) = {} BY <2>1, <2>2, <2>4, RunDrains
  <2> QED BY <2>2, <2>5 DEF ExecutorDrained
<1> QED BY <1>2, <1>3, StepKinds DEF SomeRun

(* A run of the executor executes everything that can be executed, and no  *)
(* other step makes an instance executable: whatever the order of the      *)
(* commits and however often replicas restart, nothing that could run is   *)
(* left for a later event.                                                 *)
THEOREM NothingLeftToExecute == Spec => []ExecutorDrained
<1>1. Init => ExecutorDrained
  <2> SUFFICES ASSUME Init, NEW p \in Nodes PROVE Executable(log[p]) = {}
    BY DEF ExecutorDrained
  <2>1. \A id \in InstanceID : log[p][id] = NewInstance BY DEF Init
  <2>2. log[p] \in [InstanceID -> InstanceState] BY AgreementInit DEF AgreementInv, TypeOK
  <2> QED BY <2>1, <2>2, ExecutableClosed DEF NewInstance
<1> QED BY <1>1, DrainedStep, NothingExecutedTwice, AgreementInvariant, PTL DEF Spec

-----------------------------------------------------------------------------
(* No process panics, as long as no replica restarts and messages about an *)
(* instance stay in order.                                                 *)

(* Every replica has the command of an instance in its log, or the         *)
(* PreAccept is still on its way to it, in the only epoch there is.        *)
Informed ==
  /\ crashed = {}
  /\ \A q \in Nodes, y \in InstanceID :
       /\ Known(q, y) => log[q][y].cmd # Nil
       /\ Known(y[1], y) /\ ~ Known(q, y) =>
            \E n \in msgs : n.type = "PreAccept" /\ n.id = y /\ n.to = q
  /\ \A m \in msgs : /\ m.type \in Requests => m.epoch = 0
                     /\ m.type \in {"PreAccept", "Commit"} => m.cmd # Nil

(* Messages go only where they inform, and new ones are of the first epoch *)
(* and have their commands.                                                *)
MessagesInform ==
  /\ \A n \in msgs : n \in msgs' \/ n.type # "PreAccept" \/ Known(n.to, n.id)'
  /\ \A n \in msgs' : \/ n \in msgs
                      \/ /\ n.type \in Requests => n.epoch = 0
                         /\ n.type \in {"PreAccept", "Commit"} => n.cmd # Nil

(* A step that forgets nothing, records commands with their instances, and *)
(* announces new instances.                                                *)
Informs ==
  /\ crashed' = crashed
  /\ \A q \in Nodes, y \in InstanceID :
       /\ Known(q, y) => Known(q, y)'
       /\ Known(q, y)' => log'[q][y].cmd # Nil
       /\ Known(y[1], y)' /\ ~ Known(y[1], y) /\ q # y[1] =>
            \E n \in msgs' : n.type = "PreAccept" /\ n.id = y /\ n.to = q
  /\ MessagesInform

(* Such a step leaves every replica informed.                              *)
LEMMA InformsStep == TypeOK /\ Informed /\ Informs => Informed'
<1> SUFFICES ASSUME TypeOK, Informed, Informs PROVE Informed'
  OBVIOUS
<1>1. crashed' = {} BY DEF Informed, Informs
<1>2. ASSUME NEW q \in Nodes, NEW y \in InstanceID, Known(y[1], y)', ~ Known(q, y)'
      PROVE  \E n \in msgs' : n.type = "PreAccept" /\ n.id = y /\ n.to = q
  <2>1. ~ Known(q, y) /\ y[1] \in Nodes BY <1>2, LeaderIsNode DEF Informs
  <2>2. CASE ~ Known(y[1], y)
    <3>1. q # y[1] BY <1>2 DEF Known
    <3> QED BY Zenon, <1>2, <2>2, <3>1 DEF Informs
  <2>3. CASE Known(y[1], y)
    <3>1. PICK n \in msgs : n.type = "PreAccept" /\ n.id = y /\ n.to = q
      BY Zenon, <2>1, <2>3 DEF Informed
    <3>2. n \in msgs' BY <1>2, <3>1 DEF Informs, MessagesInform, Known
    <3> QED BY Zenon, <3>1, <3>2
  <2> QED BY <2>2, <2>3
<1>3. \A m \in msgs' : /\ m.type \in Requests => m.epoch = 0
                       /\ m.type \in {"PreAccept", "Commit"} => m.cmd # Nil
  BY Zenon DEF Informed, Informs, MessagesInform
<1>4. \A q \in Nodes, y \in InstanceID : Known(q, y)' => log'[q][y].cmd # Nil
  BY Zenon DEF Informs
<1>5. \A q \in Nodes, y \in InstanceID : Known(y[1], y)' /\ ~ Known(q, y)' =>
        \E n \in msgs' : n.type = "PreAccept" /\ n.id = y /\ n.to = q
  BY <1>2
<1> QED BY <1>1, <1>3, <1>4, <1>5 DEF Informed

(* A step that leaves the logs alone.                                      *)
LEMMA QuietInforms ==
  ASSUME Informed, log' = log, crashed' = crashed, MessagesInform
  PROVE  Informs
<1>1. \A q \in Nodes, y \in InstanceID : Known(q, y)' <=> Known(q, y) BY DEF Known
<1>2. \A y \in InstanceID : Known(y[1], y)' => Known(y[1], y) BY DEF Known
<1>3. \A q \in Nodes, y \in InstanceID : Known(q, y)' => log'[q][y].cmd # Nil
  BY <1>1 DEF Informed
<1> QED BY Zenon, <1>1, <1>2, <1>3 DEF Informs

(* The dependency computation of an informed replica meets no instance     *)
(* without a command.                                                      *)
LEMMA NoNilCommand ==
  ASSUME TypeOK, Informed, NEW p \in Nodes, NEW c, NEW x
  PROVE  ~ seqAndDepsForCommand(log[p], c, x).nilCmd
<1>1. \A y \in DOMAIN log[p] : log[p][y].status # "None" => log[p][y].cmd # Nil
  BY DEF TypeOK, Informed, Known
<1> QED BY Zenon, <1>1 DEF seqAndDepsForCommand

(* A step that updates one instance, with its command.                     *)
LEMMA UpdateInforms ==
  ASSUME TypeOK, Informed, NEW p \in Nodes, NEW id \in InstanceID, NEW is,
         log' = [log EXCEPT ![p][id] = is], is.status # "None", is.cmd # Nil,
         Known(id[1], id), crashed' = crashed, MessagesInform
  PROVE  Informs
<1>1. \A q \in Nodes, y \in InstanceID :
        log'[q][y] = IF q = p /\ y = id THEN is ELSE log[q][y]
  BY DEF TypeOK
<1>2. \A q \in Nodes, y \in InstanceID :
        /\ Known(q, y) => Known(q, y)'
        /\ Known(q, y)' => log'[q][y].cmd # Nil
  BY <1>1 DEF Known, Informed
<1>3. \A y \in InstanceID : Known(y[1], y)' => Known(y[1], y)
  BY <1>1, LeaderIsNode DEF Known
<1> QED BY Zenon, <1>2, <1>3 DEF Informs

(* A step that runs the executor on a log l.                               *)
LEMMA RunInforms ==
  ASSUME TypeOK, Informed, NEW p \in Nodes, NEW id \in InstanceID,
         NEW l \in [InstanceID -> InstanceState], NEW persisted \in SUBSET InstanceID,
         \A y \in InstanceID : y # id => l[y] = log[p][y],
         l[id].status = "Committed", l[id].cmd # Nil, Known(id[1], id),
         prepareToExecute(p, l, persisted), crashed' = crashed, MessagesInform
  PROVE  Informs
<1>1. /\ \A q \in Nodes : q # p => log'[q] = log[q]
      /\ \A y \in InstanceID :
           /\ log'[p][y].cmd = l[y].cmd
           /\ log'[p][y].status = "None" <=> l[y].status = "None"
  <2>1. /\ \A q \in Nodes : q # p => log'[q] = log[q]
        /\ \A y \in InstanceID :
             /\ SameData(log'[p][y], l[y])
             /\ \/ log'[p][y] = l[y]
                \/ l[y].status = "Committed" /\ log'[p][y].status = "Executed"
    BY PrepareToExecute
  <2> QED BY <2>1 DEF SameData
<1>2. \A y \in InstanceID : /\ Known(p, y) => l[y].status # "None"
                            /\ l[y].status # "None" => l[y].cmd # Nil
                            /\ y # id /\ l[y].status # "None" => Known(p, y)
  BY DEF Known, Informed
<1>3. \A q \in Nodes, y \in InstanceID :
        /\ Known(q, y) => Known(q, y)'
        /\ Known(q, y)' => log'[q][y].cmd # Nil
  BY <1>1, <1>2 DEF Known, Informed
<1>4. \A y \in InstanceID : Known(y[1], y)' => Known(y[1], y)
  BY <1>1, <1>2, LeaderIsNode DEF Known
<1> QED BY Zenon, <1>3, <1>4 DEF Informs

(* A message may go that is no PreAccept or whose receiver knows its       *)
(* instance, and a leader's broadcast may come.                            *)
LEMMA BroadcastInforms ==
  ASSUME NEW m, m.type # "PreAccept" \/ Known(m.to, m.id)', NEW type, NEW id, NEW is,
         type = "Accept" \/ is.cmd # Nil,
         msgs' = (msgs \ {m}) \cup Broadcast(type, id, is, 0)
  PROVE  MessagesInform
<1>1. \A n \in Broadcast(type, id, is, 0) :
        n.type = type /\ n.epoch = 0 /\ n.cmd = IF type = "Accept" THEN Nil ELSE is.cmd
  BY DEF Broadcast
<1> QED BY <1>1 DEF MessagesInform

(* A message may go, and replies may come.                                 *)
LEMMA GoneInforms ==
  ASSUME NEW m, m.type # "PreAccept" \/ Known(m.to, m.id)', NEW R,
         \A n \in R : n.type \in Replies,
         msgs' = (msgs \ {m}) \cup R
  PROVE  MessagesInform
BY DEF MessagesInform, Requests, Replies

(* A leader's Commit.                                                      *)
LEMMA CommitInforms ==
  ASSUME TypeOK, Informed, NoneRestarted, NEW m \in msgs, m.to = m.id[1],
         m.type # "PreAccept", Known(m.to, m.id), NEW is \in InstanceState, is.cmd # Nil,
         Commit(m.to, m.id, is, msgs \ {m}), crashed' = crashed
  PROVE  Informs
<1> DEFINE p == m.to
           id == m.id
           l == [log[p] EXCEPT ![id] = [is EXCEPT !.status = "Committed"]]
<1>1. p \in Nodes /\ id \in InstanceID BY DEF TypeOK, Message
<1>2. l \in [InstanceID -> InstanceState]
  BY ZenonT(30), <1>1 DEF TypeOK, InstanceState, Status
<1>3. /\ \A y \in InstanceID : y # id => l[y] = log[p][y]
      /\ l[id].status = "Committed" /\ l[id].cmd # Nil
  BY <1>1 DEF TypeOK, InstanceState
<1>4. prepareToExecute(p, l, {id}) /\ msgs' = (msgs \ {m}) \cup Broadcast("Commit", id, is, 0)
  BY <1>1 DEF Commit, NoneRestarted
<1> HIDE DEF l
<1>5. MessagesInform BY Zenon, <1>4, BroadcastInforms
<1>6. {id} \in SUBSET InstanceID /\ Known(id[1], id) BY <1>1
<1> HIDE DEF p, id
<1> QED BY Zenon, <1>1, <1>2, <1>3, <1>4, <1>5, <1>6, RunInforms

(* A reply to a PreAccept.                                                 *)
LEMMA EitherReplyInforms ==
  ASSUME TypeOK, Informed, NoneRestarted, NEW m \in msgs, m.to = m.id[1],
         m.type # "PreAccept", Known(m.to, m.id), NEW is \in InstanceState,
         is.cmd # Nil, is.status # "None", NEW ld,
         onEitherPreAcceptReply(m, is, ld), crashed' = crashed
  PROVE  Informs
<1>1. m.to \in Nodes /\ m.id \in InstanceID BY DEF TypeOK, Message
<1>2. CASE Commit(m.to, m.id, is, msgs \ {m})
  BY <1>2, CommitInforms
<1>3. CASE Accept(m.to, m.id, is, msgs \ {m})
  <2> DEFINE accepted == [is EXCEPT !.status = "Accepted"]
  <2>1. accepted.status # "None" /\ accepted.cmd # Nil BY DEF InstanceState
  <2>2. /\ log' = [log EXCEPT ![m.to][m.id] = accepted]
        /\ msgs' = (msgs \ {m}) \cup Broadcast("Accept", m.id, is, 0)
    BY <1>1, <1>3 DEF Accept, NoneRestarted
  <2> HIDE DEF accepted
  <2>3. MessagesInform BY Zenon, <2>2, BroadcastInforms
  <2> QED BY Zenon, <1>1, <2>1, <2>2, <2>3, UpdateInforms
<1>4. CASE log' = [log EXCEPT ![m.to][m.id] = is] /\ msgs' = msgs \ {m}
  <2>1. MessagesInform BY <1>4 DEF MessagesInform
  <2> QED BY Zenon, <1>1, <1>4, <2>1, UpdateInforms
<1> QED BY <1>2, <1>3, <1>4 DEF onEitherPreAcceptReply

(* The leader's handlers of replies.                                       *)
LEMMA ReplyInforms ==
  ASSUME TypeOK, Informed, NoneRestarted, NEW m \in msgs, m.type \in Replies => m.to = m.id[1],
         onPreAcceptOK(m) \/ onPreAcceptReply(m) \/ onAcceptOK(m)
  PROVE  Informs
<1> DEFINE is == log[m.to][m.id]
           merged == [is EXCEPT !.seq = Max({@, m.seq}), !.deps = unionDepSlices(@, m.deps)]
<1>1. /\ m.to \in Nodes /\ m.id \in InstanceID /\ is \in InstanceState
      /\ m.seq \in Nat /\ m.deps \in SUBSET InstanceID
  BY DEF TypeOK, Message
<1>2. /\ m.type \in Replies /\ m.type # "PreAccept" /\ is.status # "None"
      /\ crashed' = crashed
  BY DEF onPreAcceptOK, onPreAcceptReply, onAcceptOK, Handles, HandledIn, Replies
<1>3. Known(m.to, m.id) /\ is.cmd # Nil /\ m.to = m.id[1]
  BY <1>1, <1>2 DEF Known, Informed
<1>4. CASE onPreAcceptOK(m) \/ onPreAcceptReply(m)
  <2>1. merged \in InstanceState /\ merged.status # "None" /\ merged.cmd # Nil
    <3>1. Max({is.seq, m.seq}) \in Nat BY <1>1, MaxOfTwo DEF InstanceState
    <3>2. merged \in InstanceState BY ZenonT(30), <1>1, <3>1 DEF InstanceState, unionDepSlices
    <3>3. merged.status = is.status /\ merged.cmd = is.cmd BY <1>1 DEF InstanceState
    <3> QED BY Zenon, <1>2, <1>3, <3>2, <3>3
  <2>2. \E ld : onEitherPreAcceptReply(m, is, ld) \/ onEitherPreAcceptReply(m, merged, ld)
    BY <1>4 DEF onPreAcceptOK, onPreAcceptReply
  <2> HIDE DEF merged, is
  <2> QED BY <1>1, <1>2, <1>3, <2>1, <2>2, EitherReplyInforms
<1>5. CASE onAcceptOK(m)
  <2>1. CASE Commit(m.to, m.id, is, msgs \ {m}) BY <1>1, <1>2, <1>3, <2>1, CommitInforms
  <2>2. CASE log' = log /\ msgs' = msgs \ {m}
    <3>1. MessagesInform BY <1>2, <2>2 DEF MessagesInform
    <3> QED BY Zenon, <1>2, <2>2, <3>1, QuietInforms
  <2> QED BY <1>5, <2>1, <2>2 DEF onAcceptOK
<1> QED BY <1>4, <1>5

(* What onPreAccept does when it does not panic.                           *)
LEMMA PreAcceptUpdates ==
  ASSUME NEW m, onPreAccept(m), ~ seqAndDepsForCommand(log[m.to], m.cmd, m.id).nilCmd
  PROVE  \E is, r : /\ is.status = "PreAccepted" /\ is.cmd = m.cmd
                    /\ log' = [log EXCEPT ![m.to][m.id] = is]
                    /\ r.type \in Replies /\ msgs' = (msgs \ {m}) \cup {r}
                    /\ crashed' = crashed
<1> DEFINE local == seqAndDepsForCommand(log[m.to], m.cmd, m.id)
           seq == Max({m.seq, local.maxSeq + 1})
           deps == local.deps \cup m.deps
           same == seq = m.seq /\ Cardinality(deps) = Cardinality(m.deps)
           is == [status |-> "PreAccepted", cmd |-> m.cmd, seq |-> seq, deps |-> deps]
           r == IF same THEN Reply(m, "PreAcceptOK", 0, {})
                ELSE Reply(m, "PreAcceptReply", seq, deps)
<1>1. /\ log' = [log EXCEPT ![m.to][m.id] = is] /\ msgs' = (msgs \ {m}) \cup {r}
      /\ crashed' = crashed
  BY Zenon DEF onPreAccept
<1>2. is.status = "PreAccepted" /\ is.cmd = m.cmd OBVIOUS
<1> HIDE DEF seq, deps, same
<1>3. r.type \in Replies BY DEF Reply, Replies
<1> HIDE DEF is, r
<1> QED BY Zenon, <1>1, <1>2, <1>3

(* A follower's handlers: it has the command from the PreAccept, which     *)
(* comes before the Accept, or from the Commit.                            *)
LEMMA FollowerInforms ==
  ASSUME TypeOK, KnownInv, Informed, InOrder, NEW m \in msgs,
         onPreAccept(m) \/ onAccept(m) \/ onCommit(m)
  PROVE  Informs
<1>1. /\ m.to \in Nodes /\ m.id \in InstanceID /\ log[m.to][m.id] \in InstanceState
      /\ m \in Message
  BY DEF TypeOK, Message
<1>2. Known(m.id[1], m.id) BY DEF KnownInv
<1>3. CASE onPreAccept(m)
  <2>1. ~ seqAndDepsForCommand(log[m.to], m.cmd, m.id).nilCmd BY <1>1, NoNilCommand
  <2>2. PICK is, r : /\ is.status = "PreAccepted" /\ is.cmd = m.cmd
                     /\ log' = [log EXCEPT ![m.to][m.id] = is]
                     /\ r.type \in Replies /\ msgs' = (msgs \ {m}) \cup {r}
                     /\ crashed' = crashed
    BY Zenon, <1>3, <2>1, PreAcceptUpdates
  <2>3. m.type = "PreAccept" BY Zenon, <1>3 DEF onPreAccept, Handles
  <2>4. Known(m.to, m.id)' BY <1>1, <2>2 DEF TypeOK, Known
  <2>5. MessagesInform BY Zenon, <2>2, <2>4, GoneInforms
  <2>6. is.cmd # Nil BY <2>2, <2>3 DEF Informed
  <2> QED BY Zenon, <1>1, <1>2, <2>2, <2>5, <2>6, UpdateInforms
<1>4. CASE onAccept(m)
  <2>1. m.type = "Accept" /\ Deliverable(m) BY <1>4 DEF onAccept, Handles
  <2>2. Known(m.to, m.id)
    <3> SUFFICES ASSUME ~ Known(m.to, m.id) PROVE FALSE OBVIOUS
    <3>1. PICK n \in msgs : n.type = "PreAccept" /\ n.id = m.id /\ n.to = m.to
      BY <1>1, <1>2 DEF Informed
    <3>2. n.epoch = m.epoch /\ n.type \in Requests /\ m.type \in Requests
      BY <2>1, <3>1 DEF Informed, Requests
    <3>3. Phase(n.type) < Phase(m.type) BY <2>1, <3>1 DEF Phase
    <3> QED BY Zenon, <2>1, <3>1, <3>2, <3>3 DEF Deliverable
  <2> DEFINE is == [log[m.to][m.id] EXCEPT !.status = "Accepted", !.seq = m.seq, !.deps = m.deps]
  <2>3. is.status = "Accepted" /\ is.cmd = log[m.to][m.id].cmd BY <1>1 DEF InstanceState
  <2>4. is.cmd # Nil BY <1>1, <2>2, <2>3 DEF Informed
  <2>5. /\ log' = [log EXCEPT ![m.to][m.id] = is] /\ crashed' = crashed
        /\ msgs' = (msgs \ {m}) \cup {Reply(m, "AcceptOK", 0, {})}
    BY <1>4 DEF onAccept
  <2> HIDE DEF is
  <2>6. Reply(m, "AcceptOK", 0, {}).type \in Replies BY DEF Reply, Replies
  <2>7. MessagesInform BY Zenon, <2>1, <2>5, <2>6, GoneInforms
  <2> QED BY Zenon, <1>1, <1>2, <2>3, <2>4, <2>5, <2>7, UpdateInforms
<1>5. CASE onCommit(m)
  <2> DEFINE l == [log[m.to] EXCEPT ![m.id] = [status |-> "Committed", cmd |-> m.cmd,
                                               seq |-> m.seq, deps |-> m.deps]]
  <2>1. l \in [InstanceID -> InstanceState]
    BY <1>1 DEF TypeOK, Message, InstanceState, Status
  <2>2. /\ \A y \in InstanceID : y # m.id => l[y] = log[m.to][y]
        /\ l[m.id].status = "Committed" /\ l[m.id].cmd = m.cmd
    BY <1>1 DEF TypeOK
  <2>3. /\ prepareToExecute(m.to, l, {}) /\ msgs' = msgs \ {m} /\ crashed' = crashed
        /\ m.type = "Commit"
    BY <1>5 DEF onCommit, Handles
  <2>4. l[m.id].cmd # Nil BY <2>2, <2>3 DEF Informed
  <2> HIDE DEF l
  <2>5. MessagesInform BY <2>3 DEF MessagesInform
  <2>6. {} \in SUBSET InstanceID OBVIOUS
  <2> QED BY <1>1, <1>2, <2>1, <2>2, <2>3, <2>4, <2>5, <2>6, RunInforms
<1> QED BY <1>3, <1>4, <1>5

(* onRequest announces its instance to every other replica.                *)
LEMMA RequestInforms ==
  ASSUME TypeOK, Informed, NoneRestarted, NEW p \in Nodes, NEW c \in Command, Request(p, c)
  PROVE  Informs
<1> DEFINE id == <<p, maxInstanceNum(p) + 1>>
           local == seqAndDepsForCommand(log[p], c, <<0, 0>>)
           is == [status |-> "PreAccepted", cmd |-> c, seq |-> local.maxSeq + 1,
                  deps |-> local.deps]
<1>1. ~ local.nilCmd BY NoNilCommand
<1>2. /\ id \in InstanceID /\ crashed' = crashed
      /\ log' = [log EXCEPT ![p][id] = is]
      /\ msgs' = msgs \cup Broadcast("PreAccept", id, is, 0)
  BY <1>1 DEF Request, NoneRestarted
<1>3. is.status = "PreAccepted" /\ is.cmd = c /\ c # Nil BY ConstantsAssumption
<1>4. id[1] = p OBVIOUS
<1> HIDE DEF id, local, is
<1>5. \A q \in Nodes, y \in InstanceID :
        log'[q][y] = IF q = p /\ y = id THEN is ELSE log[q][y]
  BY <1>2 DEF TypeOK
<1>6. \A q \in Nodes, y \in InstanceID :
        /\ Known(q, y) => Known(q, y)'
        /\ Known(q, y)' => log'[q][y].cmd # Nil
  BY <1>3, <1>5 DEF Known, Informed
<1>7. \A y \in InstanceID : Known(y[1], y)' /\ ~ Known(y[1], y) => y = id
  BY <1>5, LeaderIsNode DEF Known
<1>8. \A q \in Nodes : q # id[1] =>
        \E n \in msgs' : n.type = "PreAccept" /\ n.id = id /\ n.to = q
  <2> SUFFICES ASSUME NEW q \in Nodes, q # id[1]
               PROVE  \E n \in msgs' : n.type = "PreAccept" /\ n.id = id /\ n.to = q
    OBVIOUS
  <2> DEFINE n == [type |-> "PreAccept", id |-> id, from |-> id[1], to |-> q, epoch |-> 0,
                   cmd |-> is.cmd, seq |-> is.seq, deps |-> is.deps]
  <2>1. n.type = "PreAccept" /\ n.id = id /\ n.to = q OBVIOUS
  <2>2. n \in Broadcast("PreAccept", id, is, 0) BY DEF Broadcast
  <2> HIDE DEF n
  <2>3. n \in msgs' BY <1>2, <2>2
  <2> QED BY Zenon, <2>1, <2>3
<1>9. MessagesInform
  <2>1. \A n \in Broadcast("PreAccept", id, is, 0) : n.epoch = 0 /\ n.cmd = is.cmd
    BY DEF Broadcast
  <2> QED BY <1>2, <1>3, <2>1 DEF MessagesInform
<1> QED BY Zenon, <1>2, <1>6, <1>7, <1>8, <1>9 DEF Informs

(* Tick changes the status of known instances.                             *)
LEMMA TickInforms ==
  ASSUME TypeOK, TimerInv, Informed, NoneRestarted, NEW p \in Nodes, Tick(p)
  PROVE  Informs
<1> DEFINE fired == {id \in InstanceID : /\ id[1] = p /\ lead[id].slowPathTimer # Paused
                                        /\ Expires(lead[id].slowPathTimer)}
           accepted == [id \in InstanceID |-> [log[p][id] EXCEPT !.status = "Accepted"]]
           sent == UNION {Broadcast("Accept", id, log[p][id], epoch[p]) : id \in fired}
<1>1. /\ log' = [log EXCEPT ![p] =
           [id \in InstanceID |-> IF id \in fired THEN accepted[id] ELSE log[p][id]]]
      /\ crashed' = crashed
  BY DEF Tick, TypeOK
<1>2. \A n \in msgs' : n \in msgs \/ n \in sent BY DEF Tick
<1>3. msgs \subseteq msgs' BY DEF Tick
<1>4. \A id \in fired : log[p][id].status # "None" BY DEF TimerInv
<1>5. \A id \in InstanceID : /\ accepted[id].status = "Accepted"
                             /\ accepted[id].cmd = log[p][id].cmd
  <2> SUFFICES ASSUME NEW id \in InstanceID
               PROVE  accepted[id].status = "Accepted" /\ accepted[id].cmd = log[p][id].cmd
    OBVIOUS
  <2>1. log[p][id] \in InstanceState BY DEF TypeOK
  <2>2. accepted[id] = [log[p][id] EXCEPT !.status = "Accepted"] OBVIOUS
  <2> HIDE DEF accepted
  <2> QED BY <2>1, <2>2 DEF InstanceState
<1>6. \A n \in sent : n.type = "Accept" /\ n.epoch = 0
  BY DEF Broadcast, NoneRestarted
<1> HIDE DEF fired, accepted, sent
<1>7. /\ \A q \in Nodes : q # p => log'[q] = log[q]
      /\ \A y \in InstanceID : log'[p][y] = IF y \in fired THEN accepted[y] ELSE log[p][y]
  BY <1>1 DEF TypeOK
<1>8. \A q \in Nodes, y \in InstanceID :
        /\ Known(q, y) <=> Known(q, y)'
        /\ Known(q, y)' => log'[q][y].cmd # Nil
  BY <1>4, <1>5, <1>7 DEF Known, Informed
<1>9. MessagesInform BY <1>2, <1>3, <1>6 DEF MessagesInform
<1> QED BY Zenon, <1>1, <1>8, <1>9, LeaderIsNode DEF Informs

(* Every step of replicas that have not restarted leaves them informed.    *)
LEMMA InformedStep ==
  ASSUME AgreementInv, KnownInv, InOrder, NoneRestarted, NoneRestarted', Informed, [Next]_vars
  PROVE  Informed'
<1>1. TypeOK /\ TimerInv /\ \A m \in msgs : m.type \in Replies => m.to = m.id[1]
  BY InvParts DEF AgreementInv
<1> SUFFICES Informs BY Zenon, <1>1, InformsStep
<1>2. ASSUME NEW p \in Nodes, NEW c \in Command, Request(p, c) PROVE Informs
  BY <1>1, <1>2, RequestInforms
<1>3. ASSUME NEW m \in msgs, Ignore(m) PROVE Informs
  <2>1. msgs' = msgs \ {m} /\ log' = log /\ crashed' = crashed BY <1>3 DEF Ignore
  <2>2. m.type # "PreAccept" \/ Known(m.to, m.id)'
    BY <1>3, <2>1 DEF Ignore, HandledIn, Known
  <2>3. MessagesInform BY <2>1, <2>2 DEF MessagesInform
  <2> QED BY Zenon, <2>1, <2>3, QuietInforms
<1>4. ASSUME NEW m \in msgs, Step(m) PROVE Informs
  BY Zenon, <1>1, <1>3, <1>4, ReplyInforms, FollowerInforms DEF Step
<1>5. ASSUME NEW p \in Nodes, Tick(p) PROVE Informs BY <1>1, <1>5, TickInforms
<1>6. ASSUME NEW p \in Nodes, Restart(p) PROVE Informs
  <2>1. epoch'[p] = epoch[p] + 1 /\ epoch[p] \in Nat BY <1>1, <1>6 DEF Restart, TypeOK
  <2> QED BY <2>1 DEF NoneRestarted
<1>7. CASE UNCHANGED vars
  <2>1. msgs' = msgs /\ log' = log /\ crashed' = crashed BY <1>7 DEF vars
  <2>2. MessagesInform BY <2>1 DEF MessagesInform
  <2> QED BY Zenon, <2>1, <2>2, QuietInforms
<1> QED BY <1>2, <1>4, <1>5, <1>6, <1>7 DEF Next

(* No process panics on an instance without a command, as long as the      *)
(* transport keeps the messages about an instance in order and no replica  *)
(* restarts: an Accept, which has no command, finds the instance of its    *)
(* PreAccept.                                                              *)
THEOREM NoProcessPanics == Spec => [](InOrder /\ NoneRestarted => NoPanic)
<1> DEFINE Inv == InOrder /\ NoneRestarted => Informed
<1>1. Init => Inv
  BY LeaderIsNode DEF Init, Informed, Known, NewInstance
<1>2. AgreementInv /\ KnownInv /\ Inv /\ [Next]_vars => Inv'
  <2>1. AgreementInv => TypeOK BY DEF AgreementInv
  <2> QED BY Zenon, <2>1, RestartsCounted, InformedStep
<1>3. Inv => (InOrder /\ NoneRestarted => NoPanic) BY DEF Informed, NoPanic
<1> QED BY <1>1, <1>2, <1>3, AgreementInvariant, KnownInvariant, PTL DEF Spec

-----------------------------------------------------------------------------
(* What a step executes and sends.                                         *)

(* Replica p executes d, and no other replica executes anything.           *)
Executes(p, d) == executed' = [executed EXCEPT ![p] = @ \o d]

(* What a step of replica p executes.                                      *)
LEMMA PrepareExecutes ==
  ASSUME NEW p \in Nodes, NEW l \in [InstanceID -> InstanceState], NEW persisted,
         prepareToExecute(p, l, persisted)
  PROVE  \E d \in Seq(InstanceID) : Executes(p, d)
<1>1. PICK order \in ExecutionOrders(l) : Execute(p, l, order, persisted)
  BY DEF prepareToExecute
<1>2. order \in Seq(InstanceID) BY <1>1, ExecutionOrdersType
<1>3. Executes(p, order) BY <1>1 DEF Execute, Executes
<1> QED BY <1>2, <1>3

(* A step that leaves executed alone adds nothing to it.                   *)
LEMMA NothingExecutes ==
  ASSUME TypeOK, NEW p \in Nodes, executed' = executed
  PROVE  \E d \in Seq(InstanceID) : Executes(p, d)
<1>1. executed[p] \o <<>> = executed[p] /\ <<>> \in Seq(InstanceID) BY DEF TypeOK
<1>2. Executes(p, <<>>) BY <1>1 DEF Executes, TypeOK
<1> QED BY Zenon, <1>1, <1>2

(* A commit adds to what its replica executed, and to nothing else.        *)
LEMMA CommitExecutes ==
  ASSUME TypeOK, NEW p \in Nodes, NEW id \in InstanceID, NEW is \in InstanceState,
         NEW rest, Commit(p, id, is, rest)
  PROVE  \E d \in Seq(InstanceID) : Executes(p, d)
<1> DEFINE l == [log[p] EXCEPT ![id] = [is EXCEPT !.status = "Committed"]]
<1>1. l \in [InstanceID -> InstanceState] BY ZenonT(30) DEF TypeOK, InstanceState, Status
<1>2. prepareToExecute(p, l, {id}) BY DEF Commit
<1> HIDE DEF l
<1> QED BY <1>1, <1>2, PrepareExecutes

(* Only the receiver of a message executes.                                *)
LEMMA StepExecutes ==
  ASSUME TypeOK, NEW m \in msgs, Step(m)
  PROVE  \E d \in Seq(InstanceID) : Executes(m.to, d)
<1> DEFINE is == log[m.to][m.id]
           merged == [is EXCEPT !.seq = Max({@, m.seq}), !.deps = unionDepSlices(@, m.deps)]
<1>1. /\ m.to \in Nodes /\ m.id \in InstanceID /\ is \in InstanceState
      /\ m.seq \in Nat /\ m.deps \in SUBSET InstanceID
  BY DEF TypeOK, Message
<1>2. CASE executed' = executed BY <1>1, <1>2, NothingExecutes
<1>3. merged \in InstanceState
  <2>1. Max({is.seq, m.seq}) \in Nat BY <1>1, MaxOfTwo DEF InstanceState
  <2> QED BY ZenonT(30), <1>1, <2>1 DEF InstanceState, unionDepSlices
<1>4. ASSUME NEW new \in InstanceState, NEW ld, onEitherPreAcceptReply(m, new, ld)
      PROVE  \E d \in Seq(InstanceID) : Executes(m.to, d)
  <2>1. Commit(m.to, m.id, new, msgs \ {m}) \/ executed' = executed
    BY <1>4 DEF onEitherPreAcceptReply, Accept
  <2> QED BY <1>1, <1>2, <2>1, CommitExecutes
<1>5. CASE onPreAcceptOK(m) \/ onPreAcceptReply(m)
  <2>1. \E ld : onEitherPreAcceptReply(m, is, ld) \/ onEitherPreAcceptReply(m, merged, ld)
    BY <1>5 DEF onPreAcceptOK, onPreAcceptReply
  <2> HIDE DEF merged
  <2> QED BY <1>1, <1>3, <1>4, <2>1
<1>6. CASE onAcceptOK(m)
  <2>1. Commit(m.to, m.id, is, msgs \ {m}) \/ executed' = executed
    BY <1>6 DEF onAcceptOK
  <2> QED BY <1>1, <1>2, <2>1, CommitExecutes
<1>7. CASE onCommit(m)
  <2> DEFINE l == [log[m.to] EXCEPT ![m.id] = [status |-> "Committed", cmd |-> m.cmd,
                                               seq |-> m.seq, deps |-> m.deps]]
  <2>1. l \in [InstanceID -> InstanceState]
    BY DEF TypeOK, Message, InstanceState, Status
  <2>2. prepareToExecute(m.to, l, {}) BY <1>7 DEF onCommit
  <2> HIDE DEF l
  <2> QED BY <1>1, <2>1, <2>2, PrepareExecutes
<1>8. CASE Ignore(m) \/ onPreAccept(m) \/ onAccept(m)
  BY <1>2, <1>8 DEF Ignore, onPreAccept, Panic, onAccept
<1> QED BY <1>5, <1>6, <1>7, <1>8 DEF Step

(* A step of replica r other than a restart.                               *)
Acts(r) ==
  \/ \E c \in Command : Request(r, c)
  \/ \E m \in msgs : m.to = r /\ Step(m)
  \/ Tick(r)

(* Messages of a set are sent by r, and Commits by the leader, in epoch e. *)
OwnMessages(r, N, e) ==
  /\ IsFiniteSet(N)
  /\ \A m \in N : m.from = r /\ (m.type = "Commit" => m.id[1] = r /\ m.epoch = e)

(* The image of a finite set is finite.                                    *)
LEMMA FiniteImage ==
  ASSUME NEW S, IsFiniteSet(S), NEW f
  PROVE  IsFiniteSet({f[x] : x \in S})
<1> DEFINE T == {f[x] : x \in S}
           g == [x \in S |-> f[x]]
<1>1. g \in Surjection(S, T) BY DEF Surjection
<1> QED BY <1>1, FS_Surjection

(* A leader's broadcast.                                                   *)
LEMMA BroadcastOwn ==
  ASSUME NEW type, NEW id, NEW is, NEW e
  PROVE  OwnMessages(id[1], Broadcast(type, id, is, e), e)
<1> DEFINE f == [q \in Nodes \ {id[1]} |->
                   [type |-> type, id |-> id, from |-> id[1], to |-> q, epoch |-> e,
                    cmd |-> IF type = "Accept" THEN Nil ELSE is.cmd,
                    seq |-> is.seq, deps |-> is.deps]]
<1>1. Broadcast(type, id, is, e) = {f[q] : q \in Nodes \ {id[1]}} BY Zenon DEF Broadcast
<1>2. IsFiniteSet(Nodes \ {id[1]}) BY ConstantsAssumption, FS_Subset
<1>3. \A m \in Broadcast(type, id, is, e) : m.from = id[1] /\ m.id = id /\ m.epoch = e
  BY DEF Broadcast
<1> HIDE DEF f
<1>4. IsFiniteSet(Broadcast(type, id, is, e)) BY <1>1, <1>2, FiniteImage
<1> QED BY <1>3, <1>4 DEF OwnMessages

(* Broadcasts for some of the instances of a leader.                       *)
LEMMA BroadcastsOwn ==
  ASSUME NEW r, NEW F \in SUBSET InstanceID, NEW B, NEW e,
         \A id \in F : OwnMessages(r, B[id], e)
  PROVE  OwnMessages(r, UNION {B[id] : id \in F}, e)
<1>1. IsFiniteSet(F) BY InstanceIDFinite, FS_Subset
<1>2. IsFiniteSet({B[id] : id \in F}) BY <1>1, FiniteImage
<1>3. \A T \in {B[id] : id \in F} : IsFiniteSet(T) BY DEF OwnMessages
<1>4. IsFiniteSet(UNION {B[id] : id \in F}) BY <1>2, <1>3, FS_UNION
<1> QED BY <1>4 DEF OwnMessages

(* A step that adds at most the messages of N.                             *)
LEMMA AddsOwn ==
  ASSUME NEW r, NEW N, NEW e, OwnMessages(r, N, e), msgs' \subseteq msgs \cup N
  PROVE  OwnMessages(r, msgs' \ msgs, e)
<1>1. msgs' \ msgs \in SUBSET N OBVIOUS
<1>2. IsFiniteSet(msgs' \ msgs) BY <1>1, FS_Subset DEF OwnMessages
<1> QED BY <1>1, <1>2 DEF OwnMessages

(* A reply is the receiver's own.                                          *)
LEMMA ReplyOwn ==
  ASSUME NEW m, NEW n, NEW e, n.from = m.to, n.type \in Replies
  PROVE  OwnMessages(m.to, {n}, e)
BY Zenon, FS_Singleton DEF OwnMessages, Replies

(* What a handler sends.                                                   *)
LEMMA StepSends ==
  ASSUME TypeOK, NEW m \in msgs, m.type \in Replies => m.to = m.id[1], Step(m)
  PROVE  OwnMessages(m.to, msgs' \ msgs, epoch[m.to])
<1> DEFINE Goal == OwnMessages(m.to, msgs' \ msgs, epoch[m.to])
<1>1. CASE msgs' \subseteq msgs
  <2>1. OwnMessages(m.to, {}, epoch[m.to]) BY FS_EmptySet DEF OwnMessages
  <2> QED BY Zenon, <1>1, <2>1, AddsOwn
<1>2. ASSUME NEW n, n.from = m.to, n.type \in Replies, msgs' \subseteq msgs \cup {n}
      PROVE  Goal
  BY Zenon, <1>2, ReplyOwn, AddsOwn
<1>3. ASSUME NEW type, NEW is, m.to = m.id[1],
             msgs' \subseteq msgs \cup Broadcast(type, m.id, is, epoch[m.to])
      PROVE  Goal
  BY <1>3, BroadcastOwn, AddsOwn
<1>4. CASE onPreAccept(m)
  <2>1. CASE msgs' = msgs \ {m} BY <1>1, <2>1
  <2>2. CASE \E seq, deps : \/ msgs' = (msgs \ {m}) \cup {Reply(m, "PreAcceptOK", 0, {})}
                            \/ msgs' = (msgs \ {m}) \cup {Reply(m, "PreAcceptReply", seq, deps)}
    <3>1. \A seq, deps : /\ Reply(m, "PreAcceptOK", 0, {}).from = m.to
                         /\ Reply(m, "PreAcceptOK", 0, {}).type \in Replies
                         /\ Reply(m, "PreAcceptReply", seq, deps).from = m.to
                         /\ Reply(m, "PreAcceptReply", seq, deps).type \in Replies
      BY DEF Reply, Replies
    <3>2. \A n : msgs' = (msgs \ {m}) \cup {n} => msgs' \subseteq msgs \cup {n} OBVIOUS
    <3> QED BY Zenon, <1>2, <2>2, <3>1, <3>2
  <2> QED BY Zenon, <1>4, <2>1, <2>2 DEF onPreAccept
<1>5. CASE onAccept(m)
  <2>1. msgs' = (msgs \ {m}) \cup {Reply(m, "AcceptOK", 0, {})} BY <1>5 DEF onAccept
  <2>2. /\ Reply(m, "AcceptOK", 0, {}).from = m.to
        /\ Reply(m, "AcceptOK", 0, {}).type \in Replies
    BY DEF Reply, Replies
  <2>3. msgs' \subseteq msgs \cup {Reply(m, "AcceptOK", 0, {})} BY <2>1
  <2> QED BY Zenon, <1>2, <2>2, <2>3
<1>6. CASE onPreAcceptOK(m) \/ onPreAcceptReply(m) \/ onAcceptOK(m)
  <2>1. m.to = m.id[1]
    BY <1>6 DEF onPreAcceptOK, onPreAcceptReply, onAcceptOK, Handles, Replies
  <2>2. CASE msgs' = msgs \ {m} BY <1>1, <2>2
  <2>3. ASSUME NEW is, Commit(m.to, m.id, is, msgs \ {m}) \/ Accept(m.to, m.id, is, msgs \ {m})
        PROVE  Goal
    <3>1. \E type : msgs' = (msgs \ {m}) \cup Broadcast(type, m.id, is, epoch[m.to])
      BY <2>3 DEF Commit, Accept
    <3> QED BY <1>3, <2>1, <3>1
  <2>4. ASSUME NEW is, NEW ld, onEitherPreAcceptReply(m, is, ld) PROVE Goal
    BY Zenon, <2>2, <2>3, <2>4 DEF onEitherPreAcceptReply
  <2>5. CASE onPreAcceptOK(m) BY Zenon, <2>4, <2>5 DEF onPreAcceptOK
  <2>6. CASE onPreAcceptReply(m) BY Zenon, <2>4, <2>6 DEF onPreAcceptReply
  <2>7. CASE onAcceptOK(m) BY Zenon, <2>2, <2>3, <2>7 DEF onAcceptOK
  <2> QED BY <1>6, <2>5, <2>6, <2>7
<1>7. CASE Ignore(m) \/ onCommit(m)
  <2>1. msgs' = msgs \ {m} BY <1>7 DEF Ignore, onCommit
  <2> QED BY <1>1, <2>1
<1> QED BY <1>4, <1>5, <1>6, <1>7 DEF Step

(* What a step of replica r sends.                                         *)
LEMMA ActsSends ==
  ASSUME TypeOK, \A m \in msgs : m.type \in Replies => m.to = m.id[1], NEW r \in Nodes, Acts(r)
  PROVE  OwnMessages(r, msgs' \ msgs, epoch[r])
<1> DEFINE Goal == OwnMessages(r, msgs' \ msgs, epoch[r])
<1>1. ASSUME NEW c \in Command, Request(r, c) PROVE Goal
  <2> DEFINE id == <<r, maxInstanceNum(r) + 1>>
  <2>1. msgs' = msgs \/ \E is : msgs' = msgs \cup Broadcast("PreAccept", id, is, epoch[r])
    BY Zenon, <1>1 DEF Request
  <2>2. id[1] = r OBVIOUS
  <2> HIDE DEF id
  <2>3. CASE msgs' = msgs
    <3>1. OwnMessages(r, {}, epoch[r]) BY FS_EmptySet DEF OwnMessages
    <3>2. msgs' \subseteq msgs \cup {} BY <2>3
    <3> QED BY Zenon, <3>1, <3>2, AddsOwn
  <2> QED BY <2>1, <2>2, <2>3, BroadcastOwn, AddsOwn
<1>2. ASSUME NEW m \in msgs, m.to = r, Step(m) PROVE Goal
  BY <1>2, StepSends
<1>3. CASE Tick(r)
  <2> DEFINE F == {id \in InstanceID : /\ id[1] = r /\ lead[id].slowPathTimer # Paused
                                       /\ Expires(lead[id].slowPathTimer)}
             B == [id \in InstanceID |-> Broadcast("Accept", id, log[r][id], epoch[r])]
             N == UNION {B[id] : id \in F}
  <2>1. msgs' \subseteq msgs \cup N BY <1>3 DEF Tick
  <2>2. \A id \in F : OwnMessages(r, B[id], epoch[r])
    <3>1. \A id \in F : id[1] = r /\ B[id] = Broadcast("Accept", id, log[r][id], epoch[r])
      OBVIOUS
    <3> QED BY Zenon, <3>1, BroadcastOwn
  <2>3. F \in SUBSET InstanceID OBVIOUS
  <2> HIDE DEF F, B
  <2>4. OwnMessages(r, N, epoch[r]) BY <2>2, <2>3, BroadcastsOwn
  <2> QED BY <2>1, <2>4, AddsOwn
<1> QED BY <1>1, <1>2, <1>3 DEF Acts

(* What a restart of r sends: a Commit to every other replica for every    *)
(* own instance that is stored as committed.                               *)
LEMMA RestartSends ==
  ASSUME TypeOK, NEW r \in Nodes, Restart(r)
  PROVE  /\ OwnMessages(r, msgs' \ msgs, epoch[r] + 1)
         /\ \A id \in InstanceID : id[1] = r /\ stored[r][id].status = "Committed" =>
              Broadcast("Commit", id, stored[r][id], epoch[r] + 1) \subseteq msgs'
<1> DEFINE F == {id \in InstanceID : id[1] = r /\ stored[r][id].status \notin {"None", "Executed"}}
           B == [id \in InstanceID |-> restartTransition(id, stored[r][id], epoch[r] + 1)]
           N == UNION {B[id] : id \in F}
<1>1. msgs' = msgs \cup N BY DEF Restart
<1>2. \A id \in F : OwnMessages(r, B[id], epoch[r] + 1)
  <2>1. \A id \in F : /\ id[1] = r
                      /\ \E type : B[id] = Broadcast(type, id, stored[r][id], epoch[r] + 1)
    BY DEF restartTransition
  <2> HIDE DEF F, B
  <2> QED BY <2>1, BroadcastOwn
<1>3. F \in SUBSET InstanceID OBVIOUS
<1>4. \A id \in InstanceID : id[1] = r /\ stored[r][id].status = "Committed" =>
        id \in F /\ B[id] = Broadcast("Commit", id, stored[r][id], epoch[r] + 1)
  BY DEF restartTransition
<1> HIDE DEF F, B
<1>5. OwnMessages(r, N, epoch[r] + 1) BY <1>2, <1>3, BroadcastsOwn
<1>6. OwnMessages(r, msgs' \ msgs, epoch[r] + 1) BY <1>1, <1>5, AddsOwn
<1>7. \A id \in InstanceID : id[1] = r /\ stored[r][id].status = "Committed" =>
        Broadcast("Commit", id, stored[r][id], epoch[r] + 1) \subseteq msgs'
  BY <1>1, <1>4
<1> QED BY <1>6, <1>7

(* A Commit that is handled leaves its receiver decided.                   *)
LEMMA HandledDecides ==
  ASSUME TypeOK, [Next]_vars, NEW m \in msgs, m.type = "Commit", m \notin msgs'
  PROVE  Decided(m.to, m.id)'
<1>1. m.to \in Nodes /\ m.id \in InstanceID /\ log[m.to][m.id].status \in Status
  BY DEF TypeOK, Message, InstanceState
<1>2. ASSUME NEW p \in Nodes, NEW c \in Command, Request(p, c) PROVE FALSE
  <2>1. msgs \subseteq msgs' BY <1>2 DEF Request
  <2> QED BY <2>1
<1>3. ASSUME NEW p \in Nodes, Tick(p) \/ Restart(p) PROVE FALSE
  <2>1. msgs \subseteq msgs' BY <1>3 DEF Tick, Restart
  <2> QED BY <2>1
<1>4. CASE UNCHANGED vars BY <1>4 DEF vars
<1>5. ASSUME NEW n \in msgs, Step(n) PROVE Decided(m.to, m.id)'
  <2>1. msgs \ {n} \subseteq msgs'
    BY Zenon, <1>5 DEF Step, Ignore, onPreAccept, onPreAcceptOK, onPreAcceptReply,
         onEitherPreAcceptReply, Commit, Accept, onAccept, onAcceptOK, onCommit
  <2>2. n = m BY <2>1
  <2>3. Ignore(m) \/ onCommit(m)
    BY Zenon, <1>5, <2>2 DEF Step, onPreAccept, onPreAcceptOK, onPreAcceptReply, onAccept,
         onAcceptOK, Handles
  <2>4. CASE Ignore(m)
    <3>1. log' = log /\ log[m.to][m.id].status \notin {"None", "PreAccepted", "Accepted"}
      BY <2>4 DEF Ignore, HandledIn
    <3> QED BY <1>1, <3>1 DEF Decided, IsDecision, Status
  <2>5. CASE onCommit(m)
    <3> DEFINE l == [log[m.to] EXCEPT ![m.id] = [status |-> "Committed", cmd |-> m.cmd,
                                                 seq |-> m.seq, deps |-> m.deps]]
    <3>1. l \in [InstanceID -> InstanceState] /\ l[m.id].status = "Committed"
      BY Zenon, <1>1 DEF TypeOK, Message, InstanceState, Status
    <3>2. prepareToExecute(m.to, l, {}) BY <2>5 DEF onCommit
    <3> HIDE DEF l
    <3>3. log'[m.to][m.id] = l[m.id] \/ log'[m.to][m.id].status = "Executed"
      BY <1>1, <3>1, <3>2, PrepareToExecute
    <3> QED BY <3>1, <3>3 DEF Decided, IsDecision
  <2> QED BY <2>3, <2>4, <2>5
<1> QED BY <1>2, <1>3, <1>4, <1>5 DEF Next

(* An instance becomes decided at its leader p in a step other than a      *)
(* restart only with a Commit to every other replica.                      *)
LEMMA DecidesWithCommit ==
  ASSUME TypeOK, \A m \in msgs : Addressed(m), NEW id \in InstanceID,
         NEW r \in Nodes, Acts(r), ~ Decided(id[1], id), Decided(id[1], id)'
  PROVE  \E is : Broadcast("Commit", id, is, epoch[id[1]]) \subseteq msgs'
<1> DEFINE Goal == \E is : Broadcast("Commit", id, is, epoch[id[1]]) \subseteq msgs'
<1>1. id[1] \in Nodes BY LeaderIsNode
<1>2. ASSUME NEW p \in Nodes, NEW x \in InstanceID, NEW is, ~ IsDecision(is),
             log' = [log EXCEPT ![p][x] = is]
      PROVE  FALSE
  BY <1>1, <1>2 DEF TypeOK, Decided
<1>3. ASSUME log' = log PROVE FALSE BY <1>3 DEF Decided
<1>4. ASSUME NEW p \in Nodes, NEW x \in InstanceID,
             NEW l \in [InstanceID -> InstanceState],
             NEW persisted \in SUBSET InstanceID, prepareToExecute(p, l, persisted),
             \A y \in InstanceID : y # x => l[y] = log[p][y], p # id[1] \/ x # id
      PROVE  FALSE
  <2>1. /\ \A q \in Nodes : q # p => log'[q] = log[q]
        /\ \A y \in InstanceID : log'[p][y] = l[y] \/ l[y].status = "Committed"
    BY <1>4, PrepareToExecute
  <2> QED BY <1>1, <1>4, <2>1 DEF Decided, IsDecision
<1>5. ASSUME NEW c \in Command, Request(r, c) PROVE FALSE
  <2> DEFINE x == <<r, maxInstanceNum(r) + 1>>
  <2>1. \/ log' = log
        \/ x \in InstanceID /\ \E is : is.status = "PreAccepted" /\ log' = [log EXCEPT ![r][x] = is]
    BY Zenon, <1>5 DEF Request, Panic
  <2> HIDE DEF x
  <2>2. ASSUME NEW is, is.status = "PreAccepted", x \in InstanceID,
               log' = [log EXCEPT ![r][x] = is]
        PROVE  FALSE
    <3>1. ~ IsDecision(is) BY <2>2 DEF IsDecision
    <3> QED BY Zenon, <1>2, <2>2, <3>1
  <2> QED BY Zenon, <1>3, <2>1, <2>2
<1>6. CASE Tick(r)
  <2> DEFINE fired == {x \in InstanceID : /\ x[1] = r /\ lead[x].slowPathTimer # Paused
                                         /\ Expires(lead[x].slowPathTimer)}
             accepted == [x \in InstanceID |-> [log[r][x] EXCEPT !.status = "Accepted"]]
  <2>1. log' = [log EXCEPT ![r] =
             [x \in InstanceID |-> IF x \in fired THEN accepted[x] ELSE log[r][x]]]
    BY <1>6 DEF Tick, TypeOK
  <2>2. accepted[id].status = "Accepted" BY DEF TypeOK, InstanceState
  <2> HIDE DEF fired, accepted
  <2> QED BY Zenon, <1>1, <2>1, <2>2 DEF TypeOK, Decided, IsDecision
<1>7. ASSUME NEW m \in msgs, m.to = r, Step(m) PROVE Goal
  <2>1. m.id \in InstanceID /\ log[r][m.id] \in InstanceState /\ m \in Message
    BY <1>7 DEF TypeOK, Message
  <2>2. ASSUME NEW is \in InstanceState, Commit(r, m.id, is, msgs \ {m}) PROVE Goal
    <3> DEFINE l == [log[r] EXCEPT ![m.id] = [is EXCEPT !.status = "Committed"]]
    <3>1. l \in [InstanceID -> InstanceState]
      BY ZenonT(30), <2>1 DEF TypeOK, InstanceState, Status
    <3>2. \A y \in InstanceID : y # m.id => l[y] = log[r][y] BY DEF TypeOK
    <3>3. /\ prepareToExecute(r, l, {m.id}) /\ {m.id} \in SUBSET InstanceID
          /\ Broadcast("Commit", m.id, is, epoch[r]) \subseteq msgs'
      BY <2>1, <2>2 DEF Commit
    <3> HIDE DEF l
    <3>4. r = id[1] /\ m.id = id BY <1>4, <2>1, <3>1, <3>2, <3>3
    <3> QED BY Zenon, <3>3, <3>4
  <2>3. ASSUME NEW is \in InstanceState, is.status = "PreAccepted", NEW ld,
               onEitherPreAcceptReply(m, is, ld)
        PROVE  Goal
    <3>1. CASE Commit(r, m.id, is, msgs \ {m}) BY <2>2, <3>1
    <3>2. CASE log' = [log EXCEPT ![r][m.id] = is]
      BY Zenon, <1>2, <2>1, <2>3, <3>2 DEF IsDecision
    <3>3. CASE log' = [log EXCEPT ![r][m.id] = [is EXCEPT !.status = "Accepted"]]
      <4>1. ~ IsDecision([is EXCEPT !.status = "Accepted"]) BY DEF InstanceState, IsDecision
      <4> QED BY Zenon, <1>2, <2>1, <3>3, <4>1
    <3> QED BY <1>7, <2>3, <3>1, <3>2, <3>3 DEF onEitherPreAcceptReply, Accept
  <2>4. CASE onPreAcceptOK(m) \/ onPreAcceptReply(m)
    <3> DEFINE is == log[r][m.id]
               merged == [is EXCEPT !.seq = Max({@, m.seq}), !.deps = unionDepSlices(@, m.deps)]
    <3>1. is.status = "PreAccepted"
      BY <1>7, <2>4 DEF onPreAcceptOK, onPreAcceptReply, Handles, HandledIn
    <3>2. merged \in InstanceState /\ merged.status = "PreAccepted"
      <4>1. m.seq \in Nat /\ m.deps \in SUBSET InstanceID BY <2>1 DEF Message
      <4>2. Max({is.seq, m.seq}) \in Nat BY <2>1, <4>1, MaxOfTwo DEF InstanceState
      <4> QED BY ZenonT(30), <2>1, <3>1, <4>1, <4>2 DEF InstanceState, unionDepSlices
    <3>3. \E ld : onEitherPreAcceptReply(m, is, ld) \/ onEitherPreAcceptReply(m, merged, ld)
      BY <1>7, <2>4 DEF onPreAcceptOK, onPreAcceptReply
    <3> HIDE DEF merged
    <3> QED BY <2>1, <2>3, <3>1, <3>2, <3>3
  <2>5. CASE onAcceptOK(m)
    <3>1. Commit(r, m.id, log[r][m.id], msgs \ {m}) \/ log' = log
      BY <1>7, <2>5 DEF onAcceptOK
    <3> QED BY <1>3, <2>1, <2>2, <3>1
  <2>6. CASE onCommit(m)
    <3> DEFINE l == [log[r] EXCEPT ![m.id] = [status |-> "Committed", cmd |-> m.cmd,
                                              seq |-> m.seq, deps |-> m.deps]]
    <3>1. l \in [InstanceID -> InstanceState]
      BY ZenonT(30), <2>1 DEF TypeOK, Message, InstanceState, Status
    <3>2. \A y \in InstanceID : y # m.id => l[y] = log[r][y] BY DEF TypeOK
    <3>3. prepareToExecute(r, l, {}) /\ {} \in SUBSET InstanceID BY <1>7, <2>6 DEF onCommit
    <3>4. r # m.id[1] BY Zenon, <1>7, <2>6 DEF onCommit, Handles, Addressed, Requests
    <3>5. r # id[1] \/ m.id # id BY <3>4
    <3> HIDE DEF l
    <3> QED BY <1>4, <2>1, <3>1, <3>2, <3>3, <3>5
  <2>7. CASE onPreAccept(m) \/ onAccept(m) \/ Ignore(m)
    <3>1. CASE onAccept(m)
      <4> DEFINE is == [log[r][m.id] EXCEPT !.status = "Accepted", !.seq = m.seq, !.deps = m.deps]
      <4>1. ~ IsDecision(is) BY <2>1 DEF InstanceState, IsDecision
      <4>2. log' = [log EXCEPT ![r][m.id] = is] BY <1>7, <3>1 DEF onAccept
      <4> HIDE DEF is
      <4> QED BY Zenon, <1>2, <2>1, <4>1, <4>2
    <3>2. CASE onPreAccept(m)
      <4>1. \/ log' = log
            \/ \E is : is.status = "PreAccepted" /\ log' = [log EXCEPT ![r][m.id] = is]
        BY Zenon, <1>7, <3>2 DEF onPreAccept, Panic
      <4> QED BY <1>2, <1>3, <2>1, <4>1 DEF IsDecision
    <3> QED BY Zenon, <1>3, <2>7, <3>1, <3>2 DEF Ignore
  <2> QED BY Zenon, <1>7, <2>4, <2>5, <2>6, <2>7 DEF Step
<1> QED BY Zenon, <1>5, <1>6, <1>7 DEF Acts

=============================================================================
