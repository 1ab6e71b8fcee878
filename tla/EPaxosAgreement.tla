-------------------------- MODULE EPaxosAgreement ---------------------------
(***************************************************************************)
(* Replicas agree on what they commit, and keep it: the invariant          *)
(* AgreementInv of EPaxos is inductive.  Two kinds of step keep what it    *)
(* says of the decisions.  A quiet step changes only instances that are    *)
(* not committed, before and after; an execute step ends in                *)
(* prepareToExecute (a leader's Commit, onCommit and a restart).  After    *)
(* the theorems come the discipline of the slow path timer and the replies *)
(* that reach a replica after its restart.                                 *)
(***************************************************************************)
EXTENDS EPaxosProofs

(* The part of AgreementInv about decisions and messages, without the      *)
(* types and the timers.                                                   *)
DecisionInv ==
  /\ \A p \in Nodes, id \in InstanceID :
       /\ Decided(p, id) => AsDecided(id, log[p][id])
       /\ IsDecision(stored[p][id]) => AsDecided(id, stored[p][id])
       /\ log[p][id].status = "Executed" => stored[p][id] = log[p][id]
  /\ \A id \in InstanceID : Decided(id[1], id) => IsDecision(stored[id[1]][id])
  /\ \A m \in msgs :
       /\ m.type = "Commit" => AsDecided(m.id, m)
       /\ m.type \in Requests => m.to # m.id[1]
       /\ m.type \in Replies => m.to = m.id[1]

TimerInv ==
  \A id \in InstanceID :
    lead[id].slowPathTimer # Paused => log[id[1]][id].status = "PreAccepted"

(* AgreementInv in its parts.                                              *)
LEMMA InvParts == AgreementInv <=> TypeOK /\ DecisionInv /\ TimerInv
BY DEF AgreementInv, DecisionInv, TimerInv

(* The leader of an instance is a replica.                                 *)
LEMMA LeaderIsNode == \A id \in InstanceID : id[1] \in Nodes
BY DEF InstanceID

(* A message is addressed as AgreementInv says.                            *)
Addressed(m) ==
  /\ m.type \in Requests => m.to # m.id[1]
  /\ m.type \in Replies => m.to = m.id[1]

(* A quiet step keeps the decisions and what AgreementInv says of them.    *)
LEMMA QuietStep ==
  ASSUME TypeOK, DecisionInv, TypeOK',
         \A p \in Nodes, id \in InstanceID :
           \/ log'[p][id] = log[p][id] /\ stored'[p][id] = stored[p][id]
           \/ /\ ~ IsDecision(log[p][id]) /\ ~ IsDecision(log'[p][id])
              /\ stored'[p][id] = stored[p][id] \/ ~ IsDecision(stored'[p][id]),
         \A m \in msgs' : m \in msgs \/ (m.type # "Commit" /\ Addressed(m))
  PROVE  DecisionInv' /\ DecisionKept
<1>1. \A p \in Nodes, id \in InstanceID :
        /\ IsDecision(log'[p][id]) =>
             log'[p][id] = log[p][id] /\ stored'[p][id] = stored[p][id]
        /\ IsDecision(log[p][id]) =>
             log'[p][id] = log[p][id] /\ stored'[p][id] = stored[p][id]
        /\ IsDecision(stored'[p][id]) => stored'[p][id] = stored[p][id]
  OBVIOUS
<1>2. \A id \in InstanceID : IsDecision(log[id[1]][id]) =>
        /\ log'[id[1]][id] = log[id[1]][id]
        /\ stored'[id[1]][id] = stored[id[1]][id]
  BY <1>1, LeaderIsNode
<1>3. DecisionKept
  BY <1>1 DEF DecisionKept, Decided, SameData
<1>4. ASSUME NEW p \in Nodes, NEW id \in InstanceID
      PROVE  /\ Decided(p, id)' => AsDecided(id, log[p][id])'
             /\ IsDecision(stored'[p][id]) => AsDecided(id, stored[p][id])'
             /\ log'[p][id].status = "Executed" => stored'[p][id] = log'[p][id]
  <2>1. /\ IsDecision(log[p][id]) => AsDecided(id, log[p][id])
        /\ IsDecision(stored[p][id]) => AsDecided(id, stored[p][id])
        /\ log[p][id].status = "Executed" => stored[p][id] = log[p][id]
    BY DEF DecisionInv, Decided
  <2>2. log'[p][id].status = "Executed" => IsDecision(log'[p][id]) BY DEF IsDecision
  <2> QED BY ZenonT(30), <1>1, <1>2, <2>1, <2>2 DEF AsDecided, Decided, SameData
<1>5. ASSUME NEW id \in InstanceID
      PROVE  Decided(id[1], id)' => IsDecision(stored'[id[1]][id])
  BY <1>1, LeaderIsNode DEF DecisionInv, Decided
<1>6. ASSUME NEW m \in msgs'
      PROVE  (m.type = "Commit" => AsDecided(m.id, m)') /\ Addressed(m)
  <2>1. CASE m \in msgs
    <3>1. m.id \in InstanceID BY <2>1 DEF TypeOK, Message
    <3> QED BY <1>2, <2>1, <3>1 DEF DecisionInv, AsDecided, Decided, SameData, Addressed
  <2> QED BY <2>1
<1> QED BY <1>3, <1>4, <1>5, <1>6 DEF DecisionInv, Addressed, IsDecision

(* What an execute step at p needs of the log l it starts from.  It keeps  *)
(* the decisions of p, all but those a restart loses;                      *)
KeepsDecisions(p, l) ==
  \A id \in InstanceID :
    /\ Decided(p, id)
    /\ p = id[1] \/ log[p][id].status = "Executed" \/ epoch'[p] = epoch[p]
    => IsDecision(l[id]) /\ SameData(l[id], log[p][id])

(* has the data of the other leaders' decisions, and for p's own instances *)
(* only decisions that are persisted;                                      *)
HasDecisions(p, l, persisted) ==
  \A id \in InstanceID : IsDecision(l[id]) =>
    /\ p # id[1] => AsDecided(id, l[id])
    /\ p = id[1] => id \in persisted \/ IsDecision(stored[p][id])

(* has no executed instance that is not stored;                            *)
HasExecuted(p, l) ==
  \A id \in InstanceID : l[id].status = "Executed" => stored[p][id] = l[id]

(* and has the decisions that the step sends.                              *)
SendsDecisions(p, l) ==
  \A m \in msgs' : m \in msgs \/
    /\ Addressed(m)
    /\ m.type = "Commit" => p = m.id[1] /\ IsDecision(l[m.id]) /\ SameData(m, l[m.id])

(* An execute step keeps the decisions and what AgreementInv says of them. *)
LEMMA ExecuteStep ==
  ASSUME TypeOK, DecisionInv, TypeOK',
         NEW p \in Nodes, NEW l \in [InstanceID -> InstanceState],
         NEW persisted \in SUBSET InstanceID,
         prepareToExecute(p, l, persisted),
         KeepsDecisions(p, l), HasDecisions(p, l, persisted), HasExecuted(p, l),
         SendsDecisions(p, l)
  PROVE  DecisionInv' /\ DecisionKept
<1>1. /\ \A q \in Nodes : q # p => log'[q] = log[q] /\ stored'[q] = stored[q]
      /\ \A id \in InstanceID :
           /\ SameData(log'[p][id], l[id])
           /\ \/ log'[p][id] = l[id]
              \/ /\ l[id].status = "Committed" /\ log'[p][id].status = "Executed"
                 /\ stored'[p][id] = log'[p][id]
           /\ \/ stored'[p][id] = log'[p][id]
              \/ id \notin persisted /\ stored'[p][id] = stored[p][id]
  BY PrepareToExecute
<1>2. \A id \in InstanceID : IsDecision(log'[p][id]) <=> IsDecision(l[id])
  BY <1>1 DEF IsDecision
<1>3. DecisionKept
  <2> SUFFICES ASSUME NEW q \in Nodes, NEW id \in InstanceID, Decided(q, id),
                      q = id[1] \/ log[q][id].status = "Executed" \/ epoch'[q] = epoch[q]
               PROVE  Decided(q, id)' /\ SameData(log'[q][id], log[q][id])
    BY DEF DecisionKept
  <2>1. CASE q = p BY <1>1, <1>2, <2>1 DEF KeepsDecisions, Decided, SameData
  <2>2. CASE q # p BY <1>1, <2>2 DEF Decided, SameData
  <2> QED BY <2>1, <2>2
<1>4. \A id \in InstanceID : IsDecision(log[id[1]][id]) =>
        IsDecision(log'[id[1]][id]) /\ SameData(log'[id[1]][id], log[id[1]][id])
  BY <1>3, LeaderIsNode DEF DecisionKept, Decided
<1>5. ASSUME NEW id \in InstanceID, NEW x, AsDecided(id, x)
      PROVE  IsDecision(log'[id[1]][id]) /\ SameData(x, log'[id[1]][id])
  BY <1>4, <1>5 DEF AsDecided, Decided, SameData
<1>6. ASSUME NEW id \in InstanceID, IsDecision(log'[p][id])
      PROVE  IsDecision(log'[id[1]][id]) /\ SameData(log'[p][id], log'[id[1]][id])
  <2>1. CASE p = id[1] BY <1>6, <2>1 DEF SameData
  <2>2. CASE p # id[1]
    <3>1. AsDecided(id, l[id]) BY <1>2, <1>6, <2>2 DEF HasDecisions
    <3>2. IsDecision(log'[id[1]][id]) /\ SameData(l[id], log'[id[1]][id])
      BY <1>5, <3>1
    <3> QED BY <1>1, <3>2 DEF SameData
  <2> QED BY <2>1, <2>2
<1>7. ASSUME NEW q \in Nodes, NEW id \in InstanceID
      PROVE  /\ Decided(q, id)' => AsDecided(id, log[q][id])'
             /\ IsDecision(stored'[q][id]) => AsDecided(id, stored[q][id])'
             /\ log'[q][id].status = "Executed" => stored'[q][id] = log'[q][id]
  <2>1. /\ IsDecision(log[q][id]) => AsDecided(id, log[q][id])
        /\ IsDecision(stored[q][id]) => AsDecided(id, stored[q][id])
        /\ log[q][id].status = "Executed" => stored[q][id] = log[q][id]
    BY DEF DecisionInv, Decided
  <2>2. IsDecision(stored[q][id]) =>
          IsDecision(log'[id[1]][id]) /\ SameData(stored[q][id], log'[id[1]][id])
    BY <1>5, <2>1
  <2>3. IsDecision(log[q][id]) =>
          IsDecision(log'[id[1]][id]) /\ SameData(log[q][id], log'[id[1]][id])
    BY <1>5, <2>1
  <2>4. CASE q # p
    <3>1. log'[q][id] = log[q][id] /\ stored'[q][id] = stored[q][id] BY <1>1, <2>4
    <3> QED BY <2>1, <2>2, <2>3, <3>1 DEF AsDecided, Decided
  <2>5. CASE q = p
    <3>1. IsDecision(log'[p][id]) => AsDecided(id, log[p][id])'
      BY <1>6 DEF AsDecided, Decided
    <3>2. IsDecision(stored'[p][id]) => AsDecided(id, stored[p][id])'
      <4>1. CASE stored'[p][id] = log'[p][id] BY <1>6, <4>1 DEF AsDecided, Decided
      <4>2. CASE stored'[p][id] = stored[p][id] BY <2>2, <2>5, <4>2 DEF AsDecided, Decided
      <4> QED BY <1>1, <4>1, <4>2
    <3>3. log'[p][id].status = "Executed" => stored'[p][id] = log'[p][id]
      BY <1>1 DEF HasExecuted
    <3> QED BY <2>5, <3>1, <3>2, <3>3 DEF Decided
  <2> QED BY <2>4, <2>5
<1>8. ASSUME NEW id \in InstanceID, Decided(id[1], id)'
      PROVE  IsDecision(stored'[id[1]][id])
  <2>1. CASE p = id[1]
    <3>1. IsDecision(l[id]) BY <1>2, <1>8, <2>1 DEF Decided
    <3>2. id \in persisted \/ IsDecision(stored[p][id]) BY <2>1, <3>1 DEF HasDecisions
    <3> QED BY <1>1, <1>8, <2>1, <3>2 DEF Decided
  <2>2. CASE p # id[1]
    <3>1. log'[id[1]] = log[id[1]] /\ stored'[id[1]] = stored[id[1]]
      BY <1>1, <2>2, LeaderIsNode
    <3> QED BY <1>8, <3>1 DEF DecisionInv, Decided
  <2> QED BY <2>1, <2>2
<1>9. ASSUME NEW m \in msgs'
      PROVE  (m.type = "Commit" => AsDecided(m.id, m)') /\ Addressed(m)
  <2>1. m.id \in InstanceID BY DEF TypeOK, Message
  <2>2. CASE m \in msgs
    <3>1. m.type = "Commit" => AsDecided(m.id, m) BY <2>2 DEF DecisionInv
    <3>2. Addressed(m) BY <2>2 DEF DecisionInv, Addressed
    <3> QED BY ZenonT(30), <1>5, <2>1, <3>1, <3>2 DEF AsDecided, Decided
  <2>3. CASE m \notin msgs
    <3>1. m.type = "Commit" => /\ p = m.id[1] /\ IsDecision(log'[p][m.id])
                               /\ SameData(m, log'[p][m.id])
      BY <1>1, <1>2, <2>1, <2>3 DEF SendsDecisions, SameData
    <3>2. Addressed(m) BY <2>3 DEF SendsDecisions
    <3> QED BY <3>1, <3>2 DEF AsDecided, Decided
  <2> QED BY <2>2, <2>3
<1> QED BY <1>3, <1>7, <1>8, <1>9 DEF DecisionInv, Addressed

-----------------------------------------------------------------------------
(* The steps that the actions share.                                       *)

(* A broadcast goes to the other replicas and, but for an Accept, has the  *)
(* data of the instance.                                                   *)
LEMMA BroadcastFacts ==
  ASSUME NEW type \in Requests, NEW id, NEW is, NEW e,
         NEW m \in Broadcast(type, id, is, e)
  PROVE  /\ m.type = type /\ m.id = id /\ Addressed(m)
         /\ type # "Accept" => SameData(m, is)
BY DEF Broadcast, Addressed, SameData, Requests, Replies

(* transitionTo(Accepted) of a leader's preaccepted instance is quiet.     *)
LEMMA AcceptStep ==
  ASSUME TypeOK, DecisionInv, TypeOK', NEW id \in InstanceID, NEW is \in InstanceState,
         NEW rest \in SUBSET msgs, ~ Decided(id[1], id), Accept(id[1], id, is, rest)
  PROVE  /\ DecisionInv' /\ DecisionKept
         /\ \A x \in InstanceID : x # id => log'[x[1]][x] = log[x[1]][x]
<1> DEFINE p == id[1]
           new == [is EXCEPT !.status = "Accepted"]
<1>1. p \in Nodes BY LeaderIsNode
<1>2. ~ IsDecision(new) BY DEF IsDecision, InstanceState
<1>3. /\ log' = [log EXCEPT ![p][id] = new]
      /\ stored' = [stored EXCEPT ![p][id] = new]
      /\ msgs' = rest \cup Broadcast("Accept", id, is, epoch[p])
  BY DEF Accept, persist
<1> HIDE DEF new, p
<1>4. \A q \in Nodes, x \in InstanceID :
        IF q = p /\ x = id THEN log'[q][x] = new /\ stored'[q][x] = new
        ELSE log'[q][x] = log[q][x] /\ stored'[q][x] = stored[q][x]
  BY <1>1, <1>3 DEF TypeOK
<1>5. \A m \in msgs' : m \in msgs \/ (m.type # "Commit" /\ Addressed(m))
  BY <1>3, BroadcastFacts DEF Requests
<1>6. DecisionInv' /\ DecisionKept
  <2>1. \A q \in Nodes, x \in InstanceID :
          \/ log'[q][x] = log[q][x] /\ stored'[q][x] = stored[q][x]
          \/ /\ ~ IsDecision(log[q][x]) /\ ~ IsDecision(log'[q][x])
             /\ stored'[q][x] = stored[q][x] \/ ~ IsDecision(stored'[q][x])
    BY <1>2, <1>4 DEF Decided, p
  <2> QED BY <1>5, <2>1, QuietStep
<1> QED BY <1>4, <1>6, LeaderIsNode

(* transitionTo(Committed) of a leader's instance is an execute step.      *)
LEMMA CommitStep ==
  ASSUME TypeOK, DecisionInv, TypeOK', NEW id \in InstanceID, NEW is \in InstanceState,
         NEW rest \in SUBSET msgs, ~ Decided(id[1], id), Commit(id[1], id, is, rest)
  PROVE  /\ DecisionInv' /\ DecisionKept
         /\ \A x \in InstanceID : x # id /\ log[x[1]][x].status = "PreAccepted" =>
              log'[x[1]][x] = log[x[1]][x]
<1> DEFINE p == id[1]
           new == [is EXCEPT !.status = "Committed"]
           l == [log[p] EXCEPT ![id] = new]
<1>1. p \in Nodes BY LeaderIsNode
<1>2. new \in InstanceState /\ new.status = "Committed" /\ SameData(is, new)
  BY DEF InstanceState, Status, SameData
<1>3. /\ prepareToExecute(p, l, {id})
      /\ msgs' = rest \cup Broadcast("Commit", id, is, epoch[p])
  BY DEF Commit
<1> HIDE DEF new, p
<1>4. /\ l \in [InstanceID -> InstanceState] /\ l[id] = new
      /\ \A x \in InstanceID : x # id => l[x] = log[p][x]
  BY <1>1, <1>2 DEF TypeOK
<1> HIDE DEF l
<1>5. IsDecision(new) /\ ~ IsDecision(log[p][id]) BY <1>2 DEF IsDecision, Decided, p
<1>6. KeepsDecisions(p, l)
  BY <1>4, <1>5 DEF KeepsDecisions, Decided, SameData
<1>7. HasDecisions(p, l, {id})
  BY <1>1, <1>4 DEF HasDecisions, p, DecisionInv, Decided
<1>8. HasExecuted(p, l)
  BY <1>1, <1>2, <1>4 DEF HasExecuted, DecisionInv
<1>9. SendsDecisions(p, l)
  <2> SUFFICES ASSUME NEW m \in Broadcast("Commit", id, is, epoch[p])
               PROVE  Addressed(m) /\ p = m.id[1] /\ IsDecision(l[m.id]) /\ SameData(m, l[m.id])
    BY <1>3 DEF SendsDecisions
  <2>1. m.id = id /\ Addressed(m) /\ SameData(m, is) BY BroadcastFacts DEF Requests
  <2> QED BY <1>2, <1>4, <1>5, <2>1 DEF p, SameData
<1>10. DecisionInv' /\ DecisionKept
  BY <1>1, <1>3, <1>4, <1>6, <1>7, <1>8, <1>9, ExecuteStep
<1>11. /\ \A q \in Nodes : q # p => log'[q] = log[q]
       /\ \A x \in InstanceID : log'[p][x] = l[x] \/ l[x].status = "Committed"
  BY <1>1, <1>3, <1>4, PrepareToExecute
<1> QED BY <1>4, <1>10, <1>11, LeaderIsNode

(* The replies to a PreAccept keep the invariant, on each path.            *)
LEMMA EitherReplyStep ==
  ASSUME TypeOK, DecisionInv, TimerInv, TypeOK', NEW m \in msgs,
         m.to = m.id[1], log[m.to][m.id].status = "PreAccepted",
         NEW is \in InstanceState, is.status = "PreAccepted",
         NEW ld \in LeaderState, onEitherPreAcceptReply(m, is, ld)
  PROVE  DecisionInv' /\ TimerInv' /\ DecisionKept
<1> DEFINE id == m.id
           p == id[1]
<1>1. id \in InstanceID /\ p \in Nodes /\ msgs \ {m} \in SUBSET msgs
  BY LeaderIsNode DEF TypeOK, Message
<1>2. ~ Decided(p, id) BY DEF Decided, IsDecision
<1>3. unregisterTimer(ld).slowPathTimer = Paused
  BY DEF unregisterTimer, LeaderState
<1>4. CASE Commit(p, id, is, msgs \ {m})
           /\ lead' = [lead EXCEPT ![id] = unregisterTimer(ld)]
  <2>1. /\ DecisionInv' /\ DecisionKept
        /\ \A x \in InstanceID : x # id /\ log[x[1]][x].status = "PreAccepted" =>
              log'[x[1]][x] = log[x[1]][x]
    BY ZenonT(30), <1>1, <1>2, <1>4, CommitStep
  <2>2. \A x \in InstanceID : x # id => lead'[x] = lead[x] BY <1>4 DEF TypeOK
  <2>3. lead'[id].slowPathTimer = Paused BY <1>1, <1>3, <1>4 DEF TypeOK
  <2> QED BY <2>1, <2>2, <2>3 DEF TimerInv
<1>5. CASE Accept(p, id, is, msgs \ {m})
           /\ lead' = [lead EXCEPT ![id] = unregisterTimer(ld)]
  <2>1. /\ DecisionInv' /\ DecisionKept
        /\ \A x \in InstanceID : x # id => log'[x[1]][x] = log[x[1]][x]
    BY ZenonT(30), <1>1, <1>2, <1>5, AcceptStep
  <2>2. \A x \in InstanceID : x # id => lead'[x] = lead[x] BY <1>5 DEF TypeOK
  <2>3. lead'[id].slowPathTimer = Paused BY <1>1, <1>3, <1>5 DEF TypeOK
  <2> QED BY <2>1, <2>2, <2>3 DEF TimerInv
<1> DEFINE replies == ld.preAcceptReplies + 1
           fast == ~ ld.differentReplies /\ fastQuorum(replies)
           arm == ~ fast /\ quorum(replies) /\ ~ ld.differentReplies /\ ld.slowPathTimer = Paused
           new == [ld EXCEPT !.slowPathTimer = IF arm THEN 0 ELSE @]
<1>6. CASE /\ log' = [log EXCEPT ![p][id] = is]
           /\ lead' = [lead EXCEPT ![id] = new]
           /\ msgs' = msgs \ {m}
           /\ UNCHANGED <<stored, executed>>
  <2> HIDE DEF new, id, p
  <2>1. \A q \in Nodes, x \in InstanceID :
          /\ log'[q][x] = IF q = p /\ x = id THEN is ELSE log[q][x]
          /\ stored'[q][x] = stored[q][x]
    BY <1>1, <1>6 DEF TypeOK
  <2>2. ~ IsDecision(is) BY DEF IsDecision
  <2>3. DecisionInv' /\ DecisionKept
    <3>1. \A q \in Nodes, x \in InstanceID :
            \/ log'[q][x] = log[q][x] /\ stored'[q][x] = stored[q][x]
            \/ /\ ~ IsDecision(log[q][x]) /\ ~ IsDecision(log'[q][x])
               /\ stored'[q][x] = stored[q][x] \/ ~ IsDecision(stored'[q][x])
      BY <1>2, <2>1, <2>2 DEF Decided
    <3>2. \A n \in msgs' : n \in msgs BY <1>6
    <3> QED BY <3>1, <3>2, QuietStep
  <2>4. \A x \in InstanceID : x # id => lead'[x] = lead[x] BY <1>6 DEF TypeOK
  <2>5. \A x \in InstanceID : log[x[1]][x].status = "PreAccepted" =>
          log'[x[1]][x].status = "PreAccepted"
    BY <2>1, LeaderIsNode
  <2>6. log'[p][id].status = "PreAccepted" BY <1>1, <2>1
  <2> QED BY <1>1, <2>3, <2>4, <2>5, <2>6 DEF TimerInv, p
<1> QED BY <1>4, <1>5, <1>6 DEF onEitherPreAcceptReply

-----------------------------------------------------------------------------
(* The handlers.                                                           *)

(* The instance a Request creates is new to its leader.                    *)
LEMMA FreshInstance ==
  ASSUME TypeOK, NEW p \in Nodes, <<p, maxInstanceNum(p) + 1>> \in InstanceID
  PROVE  /\ log[p][<<p, maxInstanceNum(p) + 1>>].status = "None"
         /\ \A x \in InstanceID : x[1] = p /\ log[p][x].status # "None" =>
              x[2] < maxInstanceNum(p) + 1
<1> DEFINE id == <<p, maxInstanceNum(p) + 1>>
           S == {x[2] : x \in {y \in InstanceID : y[1] = p /\ log[p][y].status # "None"}}
<1>1. S \in SUBSET (1..MaxInstanceNum) BY DEF InstanceID
<1>2. IsFiniteSet(1..MaxInstanceNum) BY ConstantsAssumption, FS_Interval
<1>3. IsFiniteSet(S) BY ZenonT(30), <1>1, <1>2, FS_Subset
<1>4. S \in SUBSET Nat BY <1>1, ConstantsAssumption
<1>5. \A x \in InstanceID : x[1] = p /\ log[p][x].status # "None" => x[2] \in S
  OBVIOUS
<1>6. maxInstanceNum(p) = MaxSeqNum(S) BY DEF maxInstanceNum
<1> HIDE DEF S
<1>7. \A n \in S : MaxSeqNum(S) >= n
  <2> SUFFICES ASSUME S # {} PROVE \A n \in S : MaxSeqNum(S) >= n OBVIOUS
  <2>1. \E x \in S : \A y \in S : x >= y BY <1>3, <1>4, FiniteNatMax
  <2> QED BY <2>1 DEF MaxSeqNum, Max
<1>8. MaxSeqNum(S) \in Nat BY <1>3, <1>4, MaxSeqNumType
<1>9. \A x \in InstanceID : x[1] = p /\ log[p][x].status # "None" =>
        x[2] < maxInstanceNum(p) + 1
  <2> SUFFICES ASSUME NEW x \in InstanceID, x[1] = p, log[p][x].status # "None"
               PROVE  x[2] < MaxSeqNum(S) + 1
    BY <1>6
  <2>1. x[2] \in S BY <1>5
  <2>2. x[2] \in Nat /\ MaxSeqNum(S) >= x[2] BY Zenon, <1>4, <1>7, <2>1
  <2> QED BY <1>8, <2>2
<1>10. id[1] = p /\ id[2] = maxInstanceNum(p) + 1 /\ ~ (id[2] < id[2])
  BY <1>6, <1>8
<1> QED BY <1>9, <1>10

(* Each action keeps the invariant and the decisions.                      *)
LEMMA RequestStep ==
  ASSUME AgreementInv, TypeOK', NEW p \in Nodes, NEW c \in Command, Request(p, c)
  PROVE  DecisionInv' /\ TimerInv' /\ DecisionKept
<1> DEFINE id == <<p, maxInstanceNum(p) + 1>>
           local == seqAndDepsForCommand(log[p], c, <<0, 0>>)
           is == [status |-> "PreAccepted", cmd |-> c, seq |-> local.maxSeq + 1,
                  deps |-> local.deps]
<1>1. TypeOK /\ DecisionInv /\ TimerInv BY InvParts
<1>2. id \in InstanceID BY DEF Request
<1>3. log[p][id].status = "None" BY <1>1, <1>2, FreshInstance
<1>4. id[1] = p /\ is.status = "PreAccepted" OBVIOUS
<1>5. ~ IsDecision(log[p][id]) /\ ~ IsDecision(is) BY <1>3, <1>4 DEF IsDecision
<1>6. CASE Panic(p) /\ UNCHANGED msgs
  BY <1>1, <1>6, QuietStep DEF Panic, TimerInv
<1>7. CASE /\ log' = [log EXCEPT ![p][id] = is]
           /\ stored' = [stored EXCEPT ![p][id] = is]
           /\ UNCHANGED <<lead, executed, epoch, crashed>>
           /\ msgs' = msgs \cup Broadcast("PreAccept", id, is, epoch[p])
  <2> HIDE DEF is, id
  <2>1. \A q \in Nodes, x \in InstanceID :
          IF q = p /\ x = id THEN log'[q][x] = is /\ stored'[q][x] = is
          ELSE log'[q][x] = log[q][x] /\ stored'[q][x] = stored[q][x]
    BY <1>1, <1>2, <1>7 DEF TypeOK
  <2>2. \A m \in msgs' : m \in msgs \/ (m.type # "Commit" /\ Addressed(m))
    BY <1>7, BroadcastFacts DEF Requests
  <2>3. DecisionInv' /\ DecisionKept
    <3>1. \A q \in Nodes, x \in InstanceID :
            \/ log'[q][x] = log[q][x] /\ stored'[q][x] = stored[q][x]
            \/ /\ ~ IsDecision(log[q][x]) /\ ~ IsDecision(log'[q][x])
               /\ stored'[q][x] = stored[q][x] \/ ~ IsDecision(stored'[q][x])
      BY <1>5, <2>1
    <3> QED BY <1>1, <2>2, <3>1, QuietStep
  <2>4. \A x \in InstanceID : log[x[1]][x].status = "PreAccepted" =>
          log'[x[1]][x].status = "PreAccepted"
    BY <1>4, <2>1, LeaderIsNode
  <2> QED BY <1>1, <1>7, <2>3, <2>4 DEF TimerInv
<1> QED BY <1>6, <1>7 DEF Request, persist

(* A handler that changes an undecided instance to an undecided one at a   *)
(* replica, and stores nothing, is quiet (onPreAccept, onAccept).          *)
LEMMA FollowerStep ==
  ASSUME AgreementInv, TypeOK', NEW m \in msgs, m.to # m.id[1],
         ~ Decided(m.to, m.id), NEW is \in InstanceState, ~ IsDecision(is),
         NEW reply, reply.type \in Replies, reply.to = reply.id[1],
         log' = [log EXCEPT ![m.to][m.id] = is],
         msgs' = (msgs \ {m}) \cup {reply}, UNCHANGED <<lead, stored>>
  PROVE  DecisionInv' /\ TimerInv' /\ DecisionKept
<1>1. TypeOK /\ DecisionInv /\ TimerInv BY InvParts
<1>2. m.to \in Nodes /\ m.id \in InstanceID BY <1>1 DEF TypeOK, Message
<1>3. \A q \in Nodes, x \in InstanceID :
        /\ log'[q][x] = IF q = m.to /\ x = m.id THEN is ELSE log[q][x]
        /\ stored'[q][x] = stored[q][x]
  BY <1>1, <1>2 DEF TypeOK
<1>4. \A n \in msgs' : n \in msgs \/ (n.type # "Commit" /\ Addressed(n))
  BY DEF Addressed, Replies, Requests
<1>5. \A q \in Nodes, x \in InstanceID :
        \/ log'[q][x] = log[q][x] /\ stored'[q][x] = stored[q][x]
        \/ /\ ~ IsDecision(log[q][x]) /\ ~ IsDecision(log'[q][x])
           /\ stored'[q][x] = stored[q][x] \/ ~ IsDecision(stored'[q][x])
  BY <1>3 DEF Decided
<1>6. DecisionInv' /\ DecisionKept BY <1>1, <1>4, <1>5, QuietStep
<1>7. \A x \in InstanceID : log'[x[1]][x] = log[x[1]][x]
  BY <1>2, <1>3, LeaderIsNode
<1> QED BY <1>1, <1>6, <1>7 DEF TimerInv

(* onPreAccept keeps the invariant: isStates keeps it off decided          *)
(* instances.                                                              *)
LEMMA PreAcceptStep ==
  ASSUME AgreementInv, TypeOK', NEW m \in msgs, onPreAccept(m)
  PROVE  DecisionInv' /\ TimerInv' /\ DecisionKept
<1> DEFINE p == m.to
           local == seqAndDepsForCommand(log[p], m.cmd, m.id)
           seq == Max({m.seq, local.maxSeq + 1})
           deps == local.deps \cup m.deps
           is == [status |-> "PreAccepted", cmd |-> m.cmd, seq |-> seq, deps |-> deps]
           same == seq = m.seq /\ Cardinality(deps) = Cardinality(m.deps)
           reply == IF same THEN Reply(m, "PreAcceptOK", 0, {})
                    ELSE Reply(m, "PreAcceptReply", seq, deps)
<1>1. TypeOK /\ DecisionInv /\ TimerInv BY InvParts
<1>2. m.type = "PreAccept" /\ log[p][m.id].status \in HandledIn("PreAccept")
  BY DEF onPreAccept, Handles
<1>3. ~ Decided(p, m.id) BY <1>2 DEF Decided, IsDecision, HandledIn
<1>4. p # m.id[1] BY <1>1, <1>2 DEF DecisionInv, Requests
<1>5. CASE Panic(p) /\ msgs' = msgs \ {m}
  BY <1>1, <1>5, QuietStep DEF Panic, TimerInv
<1>6. CASE /\ log' = [log EXCEPT ![p][m.id] = is]
           /\ msgs' = (msgs \ {m}) \cup {reply}
           /\ UNCHANGED <<lead, stored, executed, epoch, crashed>>
  <2>1. reply.type \in Replies /\ reply.to = reply.id[1]
    <3> HIDE DEF same, seq, deps
    <3> QED BY DEF Reply, Replies
  <2>2. ~ IsDecision(is) BY DEF IsDecision
  <2>3. is \in InstanceState
    <3>1. p \in Nodes /\ m.id \in InstanceID BY <1>1 DEF TypeOK, Message
    <3>2. log'[p][m.id] = is
      <4> HIDE DEF is
      <4> QED BY <1>1, <1>6, <3>1 DEF TypeOK
    <3>3. log'[p][m.id] \in InstanceState BY <3>1 DEF TypeOK
    <3> HIDE DEF is
    <3> QED BY <3>2, <3>3
  <2> HIDE DEF is, reply
  <2> QED BY ZenonT(30), <1>3, <1>4, <1>6, <2>1, <2>2, <2>3, FollowerStep
<1> QED BY ZenonT(30), <1>5, <1>6 DEF onPreAccept

(* onAccept keeps the invariant: isStates keeps it off decided instances.  *)
LEMMA AcceptMessageStep ==
  ASSUME AgreementInv, TypeOK', NEW m \in msgs, onAccept(m)
  PROVE  DecisionInv' /\ TimerInv' /\ DecisionKept
<1> DEFINE is == [log[m.to][m.id] EXCEPT !.status = "Accepted", !.seq = m.seq, !.deps = m.deps]
           reply == Reply(m, "AcceptOK", 0, {})
<1>1. TypeOK /\ DecisionInv /\ TimerInv BY InvParts
<1>2. m.type = "Accept" /\ log[m.to][m.id].status \in HandledIn("Accept")
  BY DEF onAccept, Handles
<1>3. ~ Decided(m.to, m.id) BY <1>2 DEF Decided, IsDecision, HandledIn
<1>4. m.to # m.id[1] BY <1>1, <1>2 DEF DecisionInv, Requests
<1>5. /\ log[m.to][m.id] \in InstanceState /\ m.seq \in Nat /\ m.deps \in SUBSET InstanceID
      /\ m.to \in Nodes /\ m.id \in InstanceID
  BY <1>1 DEF TypeOK, Message
<1>6. is \in InstanceState BY ZenonT(30), <1>5, StatusUpdate DEF Status
<1>7. ~ IsDecision(is) BY <1>5 DEF IsDecision, InstanceState
<1>8. reply.type \in Replies /\ reply.to = reply.id[1] BY ZenonT(30) DEF Reply, Replies
<1>9. /\ log' = [log EXCEPT ![m.to][m.id] = is]
      /\ msgs' = (msgs \ {m}) \cup {reply} /\ UNCHANGED <<lead, stored>>
  BY <1>1, <1>5 DEF onAccept, TypeOK
<1> HIDE DEF is, reply
<1> QED BY ZenonT(30), <1>3, <1>4, <1>6, <1>7, <1>8, <1>9, FollowerStep

(* onAcceptOK keeps the invariant: with a quorum it commits, otherwise it  *)
(* only counts.                                                            *)
LEMMA AcceptOKStep ==
  ASSUME AgreementInv, TypeOK', NEW m \in msgs, onAcceptOK(m)
  PROVE  DecisionInv' /\ TimerInv' /\ DecisionKept
<1> DEFINE id == m.id
<1>1. TypeOK /\ DecisionInv /\ TimerInv BY InvParts
<1>2. m.type = "AcceptOK" /\ log[m.to][id].status \in HandledIn("AcceptOK")
  BY DEF onAcceptOK, Handles
<1>3. id \in InstanceID /\ log[m.to][id] \in InstanceState /\ msgs \ {m} \in SUBSET msgs
  BY <1>1 DEF TypeOK, Message
<1>4. m.to = id[1] BY <1>1, <1>2 DEF DecisionInv, Replies
<1>5. log[id[1]][id].status = "Accepted" BY <1>2, <1>4 DEF HandledIn
<1>6. \A x \in InstanceID : lead'[x].slowPathTimer = lead[x].slowPathTimer
  <2>1. lead' = [lead EXCEPT ![id].acceptReplies = lead[id].acceptReplies + 1]
    BY DEF onAcceptOK
  <2> QED BY <1>1, <1>3, <2>1 DEF TypeOK, LeaderState
<1>7. lead[id].slowPathTimer = Paused BY <1>1, <1>3, <1>5 DEF TimerInv
<1>8. CASE Commit(m.to, id, log[m.to][id], msgs \ {m})
  <2>1. ~ Decided(id[1], id) BY <1>5 DEF Decided, IsDecision
  <2>2. /\ DecisionInv' /\ DecisionKept
        /\ \A x \in InstanceID : x # id /\ log[x[1]][x].status = "PreAccepted" =>
              log'[x[1]][x] = log[x[1]][x]
    BY ZenonT(30), <1>1, <1>3, <1>4, <1>8, <2>1, CommitStep
  <2> QED BY <1>1, <1>6, <1>7, <2>2 DEF TimerInv
<1>9. CASE msgs' = msgs \ {m} /\ UNCHANGED <<log, stored, executed>>
  <2>1. DecisionInv' /\ DecisionKept BY <1>1, <1>9, QuietStep
  <2> QED BY <1>1, <1>6, <1>9, <2>1 DEF TimerInv
<1> QED BY <1>8, <1>9 DEF onAcceptOK

(* onCommit keeps the invariant: the Commit has the data that the leader   *)
(* decided.                                                                *)
LEMMA CommitMessageStep ==
  ASSUME AgreementInv, TypeOK', NEW m \in msgs, onCommit(m)
  PROVE  DecisionInv' /\ TimerInv' /\ DecisionKept
<1> DEFINE p == m.to
           new == [status |-> "Committed", cmd |-> m.cmd, seq |-> m.seq, deps |-> m.deps]
           l == [log[p] EXCEPT ![m.id] = new]
<1>1. TypeOK /\ DecisionInv /\ TimerInv BY InvParts
<1>2. m.type = "Commit" /\ log[p][m.id].status \in HandledIn("Commit")
  BY DEF onCommit, Handles
<1>3. p \in Nodes /\ m.id \in InstanceID /\ new \in InstanceState
  BY ZenonT(30), <1>1 DEF TypeOK, Message, InstanceState, Status
<1>4. p # m.id[1] /\ AsDecided(m.id, m) BY <1>1, <1>2 DEF DecisionInv, Requests
<1>5. ~ IsDecision(log[p][m.id]) BY <1>2 DEF IsDecision, HandledIn
<1>6. new.status = "Committed" /\ SameData(new, m) BY DEF SameData
<1>7. prepareToExecute(p, l, {}) /\ msgs' = msgs \ {m} /\ UNCHANGED <<lead, epoch, crashed>>
  BY DEF onCommit
<1> HIDE DEF new
<1>8. /\ l \in [InstanceID -> InstanceState] /\ l[m.id] = new
      /\ \A x \in InstanceID : x # m.id => l[x] = log[p][x]
  BY <1>1, <1>3 DEF TypeOK
<1> HIDE DEF l, p
<1>9. AsDecided(m.id, new) BY <1>4, <1>6 DEF AsDecided, SameData
<1>10. KeepsDecisions(p, l)
  BY <1>5, <1>8 DEF KeepsDecisions, Decided, SameData
<1>11. HasDecisions(p, l, {})
  BY <1>1, <1>3, <1>4, <1>8, <1>9 DEF HasDecisions, DecisionInv, Decided
<1>12. HasExecuted(p, l)
  BY <1>1, <1>3, <1>6, <1>8 DEF HasExecuted, DecisionInv
<1>13. SendsDecisions(p, l) BY <1>7 DEF SendsDecisions
<1>14. {} \in SUBSET InstanceID OBVIOUS
<1>15. DecisionInv' /\ DecisionKept
  BY <1>1, <1>3, <1>7, <1>8, <1>10, <1>11, <1>12, <1>13, <1>14, ExecuteStep
<1>16. /\ \A q \in Nodes : q # p => log'[q] = log[q]
       /\ \A x \in InstanceID : log'[p][x] = l[x] \/ l[x].status = "Committed"
  BY <1>1, <1>3, <1>7, <1>8, <1>14, PrepareToExecute
<1>17. \A x \in InstanceID : log[x[1]][x].status = "PreAccepted" =>
         log'[x[1]][x] = log[x[1]][x]
  BY <1>4, <1>8, <1>16, LeaderIsNode
<1> QED BY <1>1, <1>7, <1>15, <1>17 DEF TimerInv

-----------------------------------------------------------------------------
(* Timers, restarts and the theorems.                                      *)

(* Tick keeps the invariant: only preaccepted instances have a set timer,  *)
(* so a timeout undoes no decision.                                        *)
LEMMA TickStep ==
  ASSUME AgreementInv, TypeOK', NEW p \in Nodes, Tick(p)
  PROVE  DecisionInv' /\ TimerInv' /\ DecisionKept
<1> DEFINE set == {id \in InstanceID : id[1] = p /\ lead[id].slowPathTimer # Paused}
           fired == {id \in set : Expires(lead[id].slowPathTimer)}
           accepted == [id \in InstanceID |-> [log[p][id] EXCEPT !.status = "Accepted"]]
           sent == UNION {Broadcast("Accept", id, log[p][id], epoch[p]) : id \in fired}
<1>1. TypeOK /\ DecisionInv /\ TimerInv BY InvParts
<1>2. /\ lead' = [id \in InstanceID |->
           IF id \notin set THEN lead[id]
           ELSE [lead[id] EXCEPT !.slowPathTimer = IF id \in fired THEN Paused ELSE @ + 1]]
      /\ log' = [log EXCEPT ![p] =
           [id \in InstanceID |-> IF id \in fired THEN accepted[id] ELSE @[id]]]
      /\ stored' = [stored EXCEPT ![p] =
           [id \in InstanceID |-> IF id \in fired THEN accepted[id] ELSE @[id]]]
      /\ msgs' = msgs \cup sent
  BY DEF Tick
<1>3. \A id \in InstanceID : id \in fired =>
        id[1] = p /\ ~ IsDecision(log[p][id]) /\ ~ IsDecision(accepted[id])
  <2> SUFFICES ASSUME NEW id \in InstanceID, id \in fired
               PROVE  id[1] = p /\ ~ IsDecision(log[p][id]) /\ ~ IsDecision(accepted[id])
    OBVIOUS
  <2>1. id[1] = p /\ log[p][id].status = "PreAccepted" BY <1>1 DEF TimerInv
  <2>2. log[p][id] \in InstanceState BY <1>1 DEF TypeOK
  <2>3. [log[p][id] EXCEPT !.status = "Accepted"].status = "Accepted"
    BY <2>2 DEF InstanceState
  <2>4. accepted[id].status = "Accepted" BY ZenonT(30), <2>3
  <2> QED BY <2>1, <2>4 DEF IsDecision
<1>4. \A m \in sent : m.type # "Commit" /\ Addressed(m)
  BY BroadcastFacts DEF Requests
<1>5. \A id \in InstanceID :
        /\ id \notin set => lead'[id] = lead[id]
        /\ id \in fired => lead'[id].slowPathTimer = Paused
  <2>1. \A id \in InstanceID : lead[id] \in LeaderState BY <1>1 DEF TypeOK
  <2>2. fired \subseteq set OBVIOUS
  <2> HIDE DEF set, fired
  <2> QED BY <1>2, <2>1, <2>2 DEF LeaderState
<1>6. \A id \in set : id[1] = p /\ log[p][id].status = "PreAccepted"
  BY <1>1 DEF TimerInv
<1> HIDE DEF set, fired, accepted, sent
<1>7. \A q \in Nodes, id \in InstanceID :
        IF q = p /\ id \in fired THEN log'[q][id] = accepted[id] /\ stored'[q][id] = accepted[id]
        ELSE log'[q][id] = log[q][id] /\ stored'[q][id] = stored[q][id]
  BY <1>1, <1>2 DEF TypeOK
<1>8. DecisionInv' /\ DecisionKept
  <2>1. \A q \in Nodes, x \in InstanceID :
          \/ log'[q][x] = log[q][x] /\ stored'[q][x] = stored[q][x]
          \/ /\ ~ IsDecision(log[q][x]) /\ ~ IsDecision(log'[q][x])
             /\ stored'[q][x] = stored[q][x] \/ ~ IsDecision(stored'[q][x])
    BY <1>3, <1>7
  <2>2. \A m \in msgs' : m \in msgs \/ (m.type # "Commit" /\ Addressed(m))
    BY <1>2, <1>4
  <2> QED BY <1>1, <2>1, <2>2, QuietStep
<1>9. ASSUME NEW id \in InstanceID, lead'[id].slowPathTimer # Paused
      PROVE  log'[id[1]][id].status = "PreAccepted"
  <2>1. id \notin fired BY <1>5, <1>9
  <2>2. log'[id[1]][id] = log[id[1]][id] BY <1>7, <2>1, LeaderIsNode
  <2>3. CASE id \in set BY <1>6, <2>2, <2>3
  <2>4. CASE id \notin set BY <1>1, <1>5, <1>9, <2>2, <2>4 DEF TimerInv
  <2> QED BY <2>3, <2>4
<1> QED BY <1>8, <1>9 DEF TimerInv

(* A restart keeps the invariant: what the leader decided is in its        *)
(* storage, and the Commits it repeats have the stored data.               *)
LEMMA RestartStep ==
  ASSUME AgreementInv, TypeOK', NEW p \in Nodes, Restart(p)
  PROVE  DecisionInv' /\ TimerInv' /\ DecisionKept
<1> DEFINE unfinished == {id \in InstanceID :
                            id[1] = p /\ stored[p][id].status \notin {"None", "Executed"}}
           sent == UNION {restartTransition(id, stored[p][id], epoch[p] + 1) : id \in unfinished}
           l == stored[p]
<1>1. TypeOK /\ DecisionInv /\ TimerInv BY InvParts
<1>2. /\ epoch' = [epoch EXCEPT ![p] = @ + 1]
      /\ lead' = [id \in InstanceID |-> IF id[1] = p THEN NewLeader ELSE lead[id]]
      /\ prepareToExecute(p, l, {})
      /\ msgs' = msgs \cup sent
  BY DEF Restart
<1>3. l \in [InstanceID -> InstanceState] /\ {} \in SUBSET InstanceID BY <1>1 DEF TypeOK
<1>4. epoch'[p] # epoch[p] BY <1>1, <1>2 DEF TypeOK
<1>5. KeepsDecisions(p, l)
  <2> SUFFICES ASSUME NEW x \in InstanceID, Decided(p, x),
                      p = x[1] \/ log[p][x].status = "Executed"
               PROVE  IsDecision(l[x]) /\ SameData(l[x], log[p][x])
    BY <1>4 DEF KeepsDecisions
  <2>1. CASE p = x[1]
    <3>1. IsDecision(stored[p][x]) BY <1>1, <2>1 DEF DecisionInv
    <3>2. AsDecided(x, stored[p][x]) BY <1>1, <3>1 DEF DecisionInv
    <3> QED BY <2>1, <3>1, <3>2 DEF AsDecided
  <2>2. CASE log[p][x].status = "Executed"
    <3>1. stored[p][x] = log[p][x] BY <1>1, <2>2 DEF DecisionInv
    <3> QED BY <3>1 DEF Decided, SameData
  <2> QED BY <2>1, <2>2
<1>6. HasDecisions(p, l, {}) BY <1>1 DEF HasDecisions, DecisionInv
<1>7. HasExecuted(p, l) BY DEF HasExecuted
<1>8. \A m \in sent :
        /\ Addressed(m)
        /\ m.type = "Commit" => p = m.id[1] /\ IsDecision(l[m.id]) /\ SameData(m, l[m.id])
  <2> SUFFICES ASSUME NEW id \in unfinished,
                      NEW m \in restartTransition(id, stored[p][id], epoch[p] + 1)
               PROVE  /\ Addressed(m)
                      /\ m.type = "Commit" => /\ p = m.id[1] /\ IsDecision(l[m.id])
                                              /\ SameData(m, l[m.id])
    OBVIOUS
  <2> DEFINE is == stored[p][id]
             type == CASE is.status = "PreAccepted" -> "PreAccept"
                       [] is.status = "Accepted" -> "Accept"
                       [] OTHER -> "Commit"
  <2>1. is \in InstanceState /\ is.status \notin {"None", "Executed"} /\ id[1] = p
    BY <1>3
  <2>2. type \in Requests /\ (type = "Commit" => IsDecision(is))
    <3> HIDE DEF is
    <3> QED BY <2>1 DEF Requests, IsDecision, InstanceState, Status
  <2>3. m \in Broadcast(type, id, is, epoch[p] + 1) BY DEF restartTransition
  <2> HIDE DEF type
  <2>4. m.type = type /\ m.id = id /\ Addressed(m) /\ (type # "Accept" => SameData(m, is))
    BY <2>2, <2>3, BroadcastFacts
  <2> QED BY <2>1, <2>2, <2>4
<1> HIDE DEF sent, l
<1>9. SendsDecisions(p, l) BY <1>2, <1>8 DEF SendsDecisions
<1>10. DecisionInv' /\ DecisionKept
  BY ZenonT(30), <1>1, <1>2, <1>3, <1>5, <1>6, <1>7, <1>9, ExecuteStep
<1>11. \A q \in Nodes : q # p => log'[q] = log[q]
  BY <1>1, <1>2, <1>3, PrepareToExecute
<1>12. \A x \in InstanceID :
         /\ x[1] = p => lead'[x].slowPathTimer = Paused
         /\ x[1] # p => lead'[x] = lead[x] /\ log'[x[1]] = log[x[1]]
  BY <1>2, <1>11, LeaderIsNode DEF NewLeader
<1> QED BY <1>1, <1>10, <1>12 DEF TimerInv

-----------------------------------------------------------------------------
(* AgreementInv is inductive, and no step changes a decision.              *)
LEMMA AgreementStep ==
  AgreementInv /\ [Next]_vars => AgreementInv' /\ [DecisionKept]_vars
<1> SUFFICES ASSUME AgreementInv, [Next]_vars
             PROVE  AgreementInv' /\ [DecisionKept]_vars
  OBVIOUS
<1>1. TypeOK /\ DecisionInv /\ TimerInv BY InvParts
<1>2. TypeOK' BY <1>1, TypeStep
<1>3. SUFFICES DecisionInv' /\ TimerInv' /\ DecisionKept
  BY <1>2 DEF AgreementInv, DecisionInv, TimerInv
<1>4. ASSUME NEW m \in msgs, Ignore(m)
      PROVE  DecisionInv' /\ TimerInv' /\ DecisionKept
  BY <1>1, <1>2, <1>4, QuietStep DEF Ignore, TimerInv
<1>5. ASSUME NEW m \in msgs, onPreAcceptOK(m)
      PROVE  DecisionInv' /\ TimerInv' /\ DecisionKept
  <2> DEFINE ld == [lead[m.id] EXCEPT !.preAcceptReplies = @ + 1]
  <2>1. m.type = "PreAcceptOK" /\ log[m.to][m.id].status = "PreAccepted"
    BY <1>5 DEF onPreAcceptOK, Handles, HandledIn
  <2>2. m.to = m.id[1] BY <1>1, <2>1 DEF DecisionInv, Replies
  <2>3. lead[m.id] \in LeaderState /\ log[m.to][m.id] \in InstanceState
    BY <1>1 DEF TypeOK, Message
  <2>4. lead[m.id].preAcceptReplies + 1 \in Nat BY <2>3 DEF LeaderState
  <2>5. ld \in LeaderState BY ZenonT(30), <2>3, <2>4, LeaderUpdate
  <2>6. onEitherPreAcceptReply(m, log[m.to][m.id], ld) BY <1>5 DEF onPreAcceptOK
  <2> HIDE DEF ld
  <2> QED BY <1>1, <1>2, <2>1, <2>2, <2>3, <2>5, <2>6, EitherReplyStep
<1>6. ASSUME NEW m \in msgs, onPreAcceptReply(m)
      PROVE  DecisionInv' /\ TimerInv' /\ DecisionKept
  <2> DEFINE is == log[m.to][m.id]
             merged == [is EXCEPT !.seq = Max({@, m.seq}), !.deps = unionDepSlices(@, m.deps)]
             ld == [lead[m.id] EXCEPT !.preAcceptReplies = @ + 1,
                                      !.differentReplies = @ \/ merged # is]
  <2>1. m.type = "PreAcceptReply" /\ is.status = "PreAccepted"
    BY <1>6 DEF onPreAcceptReply, Handles, HandledIn
  <2>2. m.to = m.id[1] BY <1>1, <2>1 DEF DecisionInv, Replies
  <2>3. /\ is \in InstanceState /\ lead[m.id] \in LeaderState
        /\ m.seq \in Nat /\ m.deps \in SUBSET InstanceID
    BY <1>1 DEF TypeOK, Message
  <2>4. merged \in InstanceState /\ merged.status = "PreAccepted"
    <3>1. Max({is.seq, m.seq}) \in Nat BY <2>3, MaxOfTwo DEF InstanceState
    <3> QED BY ZenonT(30), <2>1, <2>3, <3>1 DEF InstanceState, unionDepSlices
  <2>5. ld \in LeaderState
    <3> HIDE DEF merged, is
    <3>1. lead[m.id].preAcceptReplies + 1 \in Nat BY <2>3 DEF LeaderState
    <3>2. (lead[m.id].differentReplies \/ merged # is) \in BOOLEAN OBVIOUS
    <3> QED BY ZenonT(30), <2>3, <3>1, <3>2, LeaderUpdate
  <2>6. onEitherPreAcceptReply(m, merged, ld) BY <1>6 DEF onPreAcceptReply
  <2> HIDE DEF merged, ld
  <2> QED BY <1>1, <1>2, <2>1, <2>2, <2>4, <2>5, <2>6, EitherReplyStep
<1>7. CASE UNCHANGED vars
  BY <1>1, <1>2, <1>7, QuietStep DEF vars, TimerInv
<1>8. CASE \E m \in msgs : Step(m)
  BY <1>2, <1>4, <1>5, <1>6, <1>8, PreAcceptStep, AcceptMessageStep, AcceptOKStep,
     CommitMessageStep DEF Step
<1>9. CASE \E p \in Nodes, c \in Command : Request(p, c)
  BY <1>2, <1>9, RequestStep
<1>10. CASE \E p \in Nodes : Tick(p) \/ Restart(p)
  BY <1>2, <1>10, TickStep, RestartStep
<1> QED BY <1>7, <1>8, <1>9, <1>10 DEF Next

(* Nothing is decided, stored or sent initially.                           *)
LEMMA AgreementInit == Init => AgreementInv
<1> SUFFICES ASSUME Init PROVE AgreementInv OBVIOUS
<1>1. TypeOK
  BY ConstantsAssumption
     DEF Init, TypeOK, InstanceState, NewInstance, Status, LeaderState, NewLeader,
         Paused, slowPathTimout
<1>2. DecisionInv
  BY LeaderIsNode DEF Init, DecisionInv, Decided, IsDecision, NewInstance
<1>3. TimerInv BY DEF Init, TimerInv, NewLeader
<1> QED BY <1>1, <1>2, <1>3, InvParts

(* In every reachable state the committed states are the leaders'.         *)
THEOREM AgreementInvariant == Spec => []AgreementInv
BY AgreementInit, AgreementStep, PTL DEF Spec

(* Replicas that committed an instance committed the same command,         *)
(* sequence number and dependencies, for any number of replicas, commands, *)
(* instances and restarts and any order and loss of messages.              *)
THEOREM ReplicasAgree == Spec => []Agreement
<1>1. AgreementInv => Agreement
  BY DEF AgreementInv, Agreement, AsDecided, SameData
<1> QED BY <1>1, AgreementInvariant, PTL

(* A committed instance is never changed, by any handler, timer or restart *)
(* (the leader's and the executed ones), or until a restart (the others).  *)
THEOREM DecisionsKept == Spec => DecisionStable
BY AgreementInit, AgreementStep, PTL DEF Spec, DecisionStable

-----------------------------------------------------------------------------
(* The slow path timer.                                                    *)

(* A timer that is set, in a leader state, waits for the fast quorum.      *)
Waits(ld) ==
  ld.slowPathTimer # Paused =>
    /\ quorum(ld.preAcceptReplies + 1) /\ ~ fastQuorum(ld.preAcceptReplies + 1)
    /\ ~ ld.differentReplies

WaitInv == \A id \in InstanceID : Waits(lead[id])

(* One reply more does not take a quorum away.                             *)
LEMMA QuorumMonotone ==
  ASSUME NEW n \in Nat, quorum(n)
  PROVE  quorum(n + 1)
<1>1. Cardinality(Nodes) \in Nat BY ConstantsAssumption, FS_CardinalityType
<1> DEFINE half == Cardinality(Nodes) \div 2
<1>2. half \in Nat BY <1>1
<1>3. n > half BY DEF quorum
<1> HIDE DEF half
<1>4. n + 1 > half BY <1>2, <1>3
<1> QED BY <1>4 DEF quorum, half

(* A leader state whose timer is off waits for nothing.                    *)
LEMMA PausedWaits ==
  ASSUME NEW ld \in LeaderState
  PROVE  Waits(unregisterTimer(ld)) /\ Waits(NewLeader)
BY DEF Waits, unregisterTimer, LeaderState, NewLeader

(* Counting a reply: the timer is set at the quorum, goes on while the     *)
(* fast quorum can still be reached, and is off otherwise.                 *)
LEMMA ReplyWaits ==
  ASSUME TypeOK, WaitInv, NEW m \in msgs, NEW is, NEW ld \in LeaderState,
         ld.preAcceptReplies = lead[m.id].preAcceptReplies + 1,
         ld.slowPathTimer = lead[m.id].slowPathTimer,
         onEitherPreAcceptReply(m, is, ld)
  PROVE  WaitInv'
<1> DEFINE replies == ld.preAcceptReplies + 1
           fast == ~ ld.differentReplies /\ fastQuorum(replies)
           slow == ~ fast /\ quorum(replies) /\ ld.differentReplies
           arm == ~ fast /\ quorum(replies) /\ ~ ld.differentReplies /\ ld.slowPathTimer = Paused
           waiting == [ld EXCEPT !.slowPathTimer = IF arm THEN 0 ELSE @]
<1>1. m.id \in InstanceID /\ lead[m.id] \in LeaderState BY DEF TypeOK, Message
<1>2. ASSUME NEW new, Waits(new), lead' = [lead EXCEPT ![m.id] = new]
      PROVE  WaitInv'
  BY <1>1, <1>2 DEF WaitInv, TypeOK, Waits
<1>3. CASE lead' = [lead EXCEPT ![m.id] = unregisterTimer(ld)]
  BY Zenon, <1>2, <1>3, PausedWaits
<1>4. CASE ~ fast /\ ~ slow /\ lead' = [lead EXCEPT ![m.id] = waiting]
  <2>1. /\ waiting.preAcceptReplies = ld.preAcceptReplies
        /\ waiting.differentReplies = ld.differentReplies
        /\ waiting.slowPathTimer = IF arm THEN 0 ELSE ld.slowPathTimer
    <3> HIDE DEF arm
    <3> QED BY DEF LeaderState
  <2>2. lead[m.id].slowPathTimer # Paused => quorum(replies)
    <3>1. lead[m.id].preAcceptReplies + 1 \in Nat BY <1>1 DEF LeaderState
    <3>2. lead[m.id].slowPathTimer # Paused => quorum(lead[m.id].preAcceptReplies + 1)
      BY <1>1 DEF WaitInv, Waits
    <3> QED BY <3>1, <3>2, QuorumMonotone
  <2>3. waiting.slowPathTimer # Paused => quorum(replies)
    BY <2>1, <2>2
  <2> HIDE DEF waiting
  <2>4. Waits(waiting) BY Zenon, <1>4, <2>1, <2>3 DEF Waits
  <2> QED BY Zenon, <1>2, <1>4, <2>4
<1> QED BY <1>3, <1>4 DEF onEitherPreAcceptReply

(* Every step keeps the timers.                                            *)
LEMMA WaitStep == TypeOK /\ WaitInv /\ [Next]_vars => WaitInv'
<1> SUFFICES ASSUME TypeOK, WaitInv, [Next]_vars PROVE WaitInv'
  OBVIOUS
<1>1. CASE UNCHANGED lead BY <1>1 DEF WaitInv, Waits
<1>2. ASSUME NEW m \in msgs, onPreAcceptOK(m) PROVE WaitInv'
  <2> DEFINE ld == [lead[m.id] EXCEPT !.preAcceptReplies = @ + 1]
  <2>1. lead[m.id] \in LeaderState BY DEF TypeOK, Message
  <2>2. lead[m.id].preAcceptReplies + 1 \in Nat BY <2>1 DEF LeaderState
  <2>3. ld \in LeaderState BY ZenonT(30), <2>1, <2>2, LeaderUpdate
  <2>4. /\ ld.preAcceptReplies = lead[m.id].preAcceptReplies + 1
        /\ ld.slowPathTimer = lead[m.id].slowPathTimer
    BY <2>1 DEF LeaderState
  <2>5. onEitherPreAcceptReply(m, log[m.to][m.id], ld) BY <1>2 DEF onPreAcceptOK
  <2> HIDE DEF ld
  <2> QED BY <2>3, <2>4, <2>5, ReplyWaits
<1>3. ASSUME NEW m \in msgs, onPreAcceptReply(m) PROVE WaitInv'
  <2> DEFINE is == log[m.to][m.id]
             merged == [is EXCEPT !.seq = Max({@, m.seq}), !.deps = unionDepSlices(@, m.deps)]
             ld == [lead[m.id] EXCEPT !.preAcceptReplies = @ + 1,
                                      !.differentReplies = @ \/ merged # is]
  <2>1. onEitherPreAcceptReply(m, merged, ld) BY <1>3 DEF onPreAcceptReply
  <2> HIDE DEF merged, is
  <2>2. lead[m.id] \in LeaderState BY DEF TypeOK, Message
  <2>3. lead[m.id].preAcceptReplies + 1 \in Nat BY <2>2 DEF LeaderState
  <2>4. (lead[m.id].differentReplies \/ merged # is) \in BOOLEAN OBVIOUS
  <2>5. ld \in LeaderState BY ZenonT(30), <2>2, <2>3, <2>4, LeaderUpdate
  <2>6. /\ ld.preAcceptReplies = lead[m.id].preAcceptReplies + 1
        /\ ld.slowPathTimer = lead[m.id].slowPathTimer
    BY <2>2 DEF LeaderState
  <2> HIDE DEF ld
  <2> QED BY <2>1, <2>5, <2>6, ReplyWaits
<1>4. ASSUME NEW m \in msgs, onAcceptOK(m) PROVE WaitInv'
  <2> DEFINE new == [lead[m.id] EXCEPT !.acceptReplies = @ + 1]
  <2>1. m.id \in InstanceID /\ lead[m.id] \in LeaderState BY DEF TypeOK, Message
  <2>2. lead' = [lead EXCEPT ![m.id] = new] BY <1>4, <2>1 DEF onAcceptOK, TypeOK
  <2>3. /\ new.slowPathTimer = lead[m.id].slowPathTimer
        /\ new.preAcceptReplies = lead[m.id].preAcceptReplies
        /\ new.differentReplies = lead[m.id].differentReplies
    BY <2>1 DEF LeaderState
  <2> HIDE DEF new
  <2> QED BY <2>1, <2>2, <2>3 DEF WaitInv, Waits, TypeOK
<1>5. ASSUME NEW p \in Nodes, Tick(p) PROVE WaitInv'
  <2> DEFINE set == {id \in InstanceID : id[1] = p /\ lead[id].slowPathTimer # Paused}
             fired == {id \in set : Expires(lead[id].slowPathTimer)}
             ticked(id) == [lead[id] EXCEPT !.slowPathTimer =
                              IF id \in fired THEN Paused ELSE @ + 1]
  <2>1. \A id \in InstanceID : lead'[id] = IF id \notin set THEN lead[id] ELSE ticked(id)
    BY <1>5 DEF Tick
  <2>2. \A id \in set : lead[id].slowPathTimer # Paused OBVIOUS
  <2> HIDE DEF set, fired
  <2>3. \A id \in InstanceID : /\ ticked(id).preAcceptReplies = lead[id].preAcceptReplies
                               /\ ticked(id).differentReplies = lead[id].differentReplies
    BY DEF TypeOK, LeaderState
  <2> HIDE DEF ticked
  <2> QED BY <2>1, <2>2, <2>3 DEF WaitInv, Waits
<1>6. ASSUME NEW p \in Nodes, Restart(p) PROVE WaitInv'
  BY <1>6 DEF Restart, WaitInv, Waits, NewLeader
<1>7. ASSUME NEW m \in msgs, Step(m) PROVE WaitInv'
  BY <1>1, <1>2, <1>3, <1>4, <1>7 DEF Step, Ignore, onPreAccept, Panic, onAccept, onCommit
<1>8. ASSUME NEW p \in Nodes, NEW c \in Command, Request(p, c) PROVE WaitInv'
  BY <1>1, <1>8 DEF Request, Panic
<1> QED BY <1>1, <1>5, <1>6, <1>7, <1>8 DEF Next, vars

(* A set slow path timer belongs to an instance that is preaccepted, has a *)
(* quorum of equal replies and waits for the fast quorum: a timeout is     *)
(* always a legal transition, for every number of replicas and every race  *)
(* of the timer with late replies.                                         *)
THEOREM TimersDisciplined == Spec => []TimerDiscipline
<1>1. Init => WaitInv BY DEF Init, WaitInv, Waits, NewLeader
<1>2. AgreementInv => TypeOK BY DEF AgreementInv
<1>3. AgreementInv /\ WaitInv => TimerDiscipline
  BY DEF AgreementInv, WaitInv, Waits, TimerDiscipline
<1> QED BY <1>1, <1>2, <1>3, WaitStep, AgreementInvariant, PTL DEF Spec

-----------------------------------------------------------------------------
(* A replica knows the instance of every reply it gets, across its         *)
(* restarts: an own instance is stored before the first message about it   *)
(* is sent, and is never forgotten.                                        *)

(* Instance id is known at replica p, in memory or in the storage.         *)
Known(p, id) == log[p][id].status # "None"
KnownStored(p, id) == stored[p][id].status # "None"

(* Messages are about instances their leader knows, and a leader has its   *)
(* instances in its storage.                                               *)
KnownInv ==
  /\ \A m \in msgs : Known(m.id[1], m.id)
  /\ \A id \in InstanceID : Known(id[1], id) => KnownStored(id[1], id)

(* A step that forgets nothing and sends messages about known instances.   *)
Remembers ==
  /\ \A id \in InstanceID : /\ Known(id[1], id) => Known(id[1], id)'
                            /\ Known(id[1], id)' => KnownStored(id[1], id)'
  /\ \A m \in msgs' : m \in msgs \/ (m.id \in InstanceID /\ Known(m.id[1], m.id)')

(* Such a step keeps the instances known.                                  *)
LEMMA RemembersStep == TypeOK /\ KnownInv /\ Remembers => KnownInv'
<1>1. TypeOK => \A m \in msgs : m.id \in InstanceID BY DEF TypeOK, Message
<1> QED BY <1>1 DEF KnownInv, Remembers, Known, KnownStored

(* prepareToExecute forgets nothing, at a replica whose log became l.      *)
LEMMA ExecuteRemembers ==
  ASSUME TypeOK, KnownInv, NEW p \in Nodes, NEW l \in [InstanceID -> InstanceState],
         NEW persisted \in SUBSET InstanceID, prepareToExecute(p, l, persisted),
         \A id \in InstanceID : id[1] = p =>
           /\ Known(p, id) => l[id].status # "None"
           /\ l[id].status # "None" => id \in persisted \/ KnownStored(p, id),
         \A m \in msgs' : m \in msgs \/ (/\ m.id \in InstanceID /\ m.id[1] = p
                                         /\ l[m.id].status # "None")
  PROVE  Remembers
<1>1. /\ \A q \in Nodes : q # p => log'[q] = log[q] /\ stored'[q] = stored[q]
      /\ \A id \in InstanceID :
           /\ \/ log'[p][id] = l[id]
              \/ l[id].status = "Committed" /\ log'[p][id].status = "Executed"
           /\ \/ stored'[p][id] = log'[p][id]
              \/ id \notin persisted /\ stored'[p][id] = stored[p][id]
  BY PrepareToExecute
<1>2. \A id \in InstanceID :
        /\ l[id].status # "None" <=> log'[p][id].status # "None"
        /\ \/ stored'[p][id] = log'[p][id]
           \/ id \notin persisted /\ stored'[p][id] = stored[p][id]
  BY <1>1
<1>3. ASSUME NEW id \in InstanceID
      PROVE  /\ Known(id[1], id) => Known(id[1], id)'
             /\ Known(id[1], id)' => KnownStored(id[1], id)'
  <2>1. CASE id[1] = p BY <1>2, <2>1 DEF Known, KnownStored
  <2>2. CASE id[1] # p BY <1>1, <2>2, LeaderIsNode DEF Known, KnownStored, KnownInv
  <2> QED BY <2>1, <2>2
<1>4. \A m \in msgs' : m \in msgs \/ (m.id \in InstanceID /\ Known(m.id[1], m.id)')
  BY <1>2 DEF Known
<1> QED BY <1>3, <1>4 DEF Remembers

(* A leader's Commit and Accept forget nothing.                            *)
LEMMA CommitRemembers ==
  ASSUME TypeOK, KnownInv, NEW id \in InstanceID, NEW is \in InstanceState,
         NEW rest \in SUBSET msgs, Commit(id[1], id, is, rest)
  PROVE  Remembers
<1> DEFINE p == id[1]
           l == [log[p] EXCEPT ![id] = [is EXCEPT !.status = "Committed"]]
<1>1. p \in Nodes BY LeaderIsNode
<1>2. l \in [InstanceID -> InstanceState]
  BY ZenonT(30), <1>1 DEF TypeOK, InstanceState, Status
<1>3. \A x \in InstanceID : l[x].status = IF x = id THEN "Committed" ELSE log[p][x].status
  BY <1>1 DEF TypeOK, InstanceState
<1>4. prepareToExecute(p, l, {id}) /\ msgs' = rest \cup Broadcast("Commit", id, is, epoch[p])
  BY DEF Commit
<1>5. \A m \in msgs' : m \in msgs \/ m.id = id BY <1>4, BroadcastFacts DEF Requests
<1> HIDE DEF l
<1>6. \A x \in InstanceID : x[1] = p =>
        /\ Known(p, x) => l[x].status # "None"
        /\ l[x].status # "None" => x \in {id} \/ KnownStored(p, x)
  BY <1>3 DEF Known, KnownInv
<1>7. \A m \in msgs' : m \in msgs \/ (/\ m.id \in InstanceID /\ m.id[1] = p
                                      /\ l[m.id].status # "None")
  BY <1>3, <1>5
<1> QED BY <1>1, <1>2, <1>4, <1>6, <1>7, ExecuteRemembers

(* One instance of p changes to a known one, and is stored if it is p's    *)
(* own (onRequest, the Accept of a leader and the handlers of a follower). *)
LEMMA UpdateRemembers ==
  ASSUME TypeOK, KnownInv, NEW p \in Nodes, NEW id \in InstanceID, NEW is,
         is.status # "None", log' = [log EXCEPT ![p][id] = is],
         \/ stored' = [stored EXCEPT ![p][id] = is]
         \/ stored' = stored /\ (p # id[1] \/ Known(p, id)),
         \A m \in msgs' : m \in msgs \/ (m.id = id /\ (p = id[1] \/ Known(id[1], id)))
  PROVE  Remembers
<1>1. /\ log'[p][id] = is
      /\ \A q \in Nodes, x \in InstanceID : q # p \/ x # id => log'[q][x] = log[q][x]
  BY DEF TypeOK
<1>2. \A q \in Nodes, x \in InstanceID :
        \/ stored'[q][x] = stored[q][x] /\ (q = p /\ x = id /\ q = x[1] => Known(p, id))
        \/ q = p /\ x = id /\ stored'[q][x] = is
  BY DEF TypeOK
<1>3. ASSUME NEW x \in InstanceID
      PROVE  /\ Known(x[1], x) => Known(x[1], x)'
             /\ Known(x[1], x)' => KnownStored(x[1], x)'
  <2>1. CASE x[1] = p /\ x = id
    BY <1>1, <1>2, <2>1 DEF Known, KnownStored, KnownInv
  <2>2. CASE ~ (x[1] = p /\ x = id)
    <3>1. log'[x[1]][x] = log[x[1]][x] /\ stored'[x[1]][x] = stored[x[1]][x]
      BY <1>1, <1>2, <2>2, LeaderIsNode
    <3> QED BY <3>1 DEF Known, KnownStored, KnownInv
  <2> QED BY <2>1, <2>2
<1>4. p = id[1] \/ Known(id[1], id) => Known(id[1], id)'
  BY <1>1, <1>3 DEF Known
<1> QED BY <1>3, <1>4 DEF Remembers

(* Nothing changes but that messages are gone.                             *)
LEMMA QuietRemembers ==
  KnownInv /\ UNCHANGED <<log, stored>> /\ msgs' \subseteq msgs => Remembers
BY DEF KnownInv, Remembers, Known, KnownStored

(* onRequest forgets nothing, and stores the new instance before its       *)
(* PreAccepts leave.                                                       *)
LEMMA RequestRemembers ==
  ASSUME TypeOK, KnownInv, NEW p \in Nodes, NEW c \in Command, Request(p, c)
  PROVE  Remembers
<1> DEFINE id == <<p, maxInstanceNum(p) + 1>>
           local == seqAndDepsForCommand(log[p], c, <<0, 0>>)
           is == [status |-> "PreAccepted", cmd |-> c, seq |-> local.maxSeq + 1,
                  deps |-> local.deps]
<1>1. id \in InstanceID /\ id[1] = p BY DEF Request
<1>2. is.status # "None" OBVIOUS
<1> HIDE DEF is, id
<1>3. CASE Panic(p) /\ UNCHANGED msgs BY <1>3, QuietRemembers DEF Panic
<1>4. CASE /\ log' = [log EXCEPT ![p][id] = is]
           /\ stored' = [stored EXCEPT ![p][id] = is]
           /\ msgs' = msgs \cup Broadcast("PreAccept", id, is, epoch[p])
  <2>1. \A m \in msgs' : m \in msgs \/ m.id = id BY <1>4, BroadcastFacts DEF Requests
  <2> QED BY Zenon, <1>1, <1>2, <1>4, <2>1, UpdateRemembers
<1> QED BY <1>3, <1>4 DEF Request, persist, id, is

(* A follower's reply is about the instance of the message it answers.     *)
LEMMA FollowerRemembers ==
  ASSUME TypeOK, KnownInv, NEW m \in msgs, m.to # m.id[1], onPreAccept(m) \/ onAccept(m)
  PROVE  Remembers
<1>1. m.to \in Nodes /\ m.id \in InstanceID /\ log[m.to][m.id] \in InstanceState
  BY DEF TypeOK, Message
<1>2. Known(m.id[1], m.id) BY DEF KnownInv
<1>3. CASE Panic(m.to) /\ msgs' = msgs \ {m} BY <1>3, QuietRemembers DEF Panic
<1>4. ASSUME NEW is, is.status # "None", log' = [log EXCEPT ![m.to][m.id] = is],
             stored' = stored, NEW r, r.id = m.id, msgs' = (msgs \ {m}) \cup {r}
      PROVE  Remembers
  BY Zenon, <1>1, <1>2, <1>4, UpdateRemembers
<1>5. CASE onPreAccept(m)
  <2> DEFINE reply(r) == r.id = m.id /\ msgs' = (msgs \ {m}) \cup {r}
             update(is) == /\ is.status = "PreAccepted"
                           /\ log' = [log EXCEPT ![m.to][m.id] = is]
  <2>1. \/ Panic(m.to) /\ msgs' = msgs \ {m}
        \/ /\ \E is : update(is)
           /\ stored' = stored
           /\ \E r : reply(r)
    BY Zenon, <1>5 DEF onPreAccept, Reply
  <2> QED BY Zenon, <1>3, <1>4, <2>1
<1>6. CASE onAccept(m)
  <2> DEFINE is == [log[m.to][m.id] EXCEPT !.status = "Accepted", !.seq = m.seq, !.deps = m.deps]
             r == Reply(m, "AcceptOK", 0, {})
  <2>1. is.status = "Accepted" /\ r.id = m.id BY <1>1 DEF InstanceState, Reply
  <2>2. /\ log' = [log EXCEPT ![m.to][m.id] = is] /\ stored' = stored
        /\ msgs' = (msgs \ {m}) \cup {r}
    BY <1>6 DEF onAccept
  <2> HIDE DEF is, r
  <2> QED BY Zenon, <1>4, <2>1, <2>2
<1> QED BY <1>5, <1>6

(* A leader that counts a reply to a PreAccept forgets nothing.            *)
LEMMA EitherReplyRemembers ==
  ASSUME TypeOK, KnownInv, NEW m \in msgs, m.to = m.id[1], NEW is \in InstanceState,
         is.status = "PreAccepted", NEW ld, onEitherPreAcceptReply(m, is, ld)
  PROVE  Remembers
<1>1. m.to \in Nodes /\ m.id \in InstanceID BY DEF TypeOK, Message
<1>2. Known(m.to, m.id) BY DEF KnownInv
<1>3. CASE Commit(m.to, m.id, is, msgs \ {m}) BY <1>1, <1>3, CommitRemembers
<1>4. CASE Accept(m.to, m.id, is, msgs \ {m})
  <2> DEFINE accepted == [is EXCEPT !.status = "Accepted"]
  <2>1. accepted.status = "Accepted" BY DEF InstanceState
  <2>2. /\ log' = [log EXCEPT ![m.to][m.id] = accepted]
        /\ stored' = [stored EXCEPT ![m.to][m.id] = accepted]
        /\ msgs' = (msgs \ {m}) \cup Broadcast("Accept", m.id, is, epoch[m.to])
    BY <1>4 DEF Accept, persist
  <2> HIDE DEF accepted
  <2>3. \A n \in msgs' : n \in msgs \/ n.id = m.id BY <2>2, BroadcastFacts DEF Requests
  <2> QED BY Zenon, <1>1, <2>1, <2>2, <2>3, UpdateRemembers
<1>5. CASE /\ log' = [log EXCEPT ![m.to][m.id] = is]
           /\ msgs' = msgs \ {m} /\ UNCHANGED <<stored, executed>>
  BY Zenon, <1>1, <1>2, <1>5, UpdateRemembers
<1> QED BY <1>3, <1>4, <1>5 DEF onEitherPreAcceptReply

(* A Commit of another replica's instance makes nothing own known.         *)
LEMMA CommitMessageRemembers ==
  ASSUME TypeOK, KnownInv, NEW m \in msgs, m.to # m.id[1], onCommit(m)
  PROVE  Remembers
<1> DEFINE l == [log[m.to] EXCEPT ![m.id] = [status |-> "Committed", cmd |-> m.cmd,
                                             seq |-> m.seq, deps |-> m.deps]]
<1>1. m.to \in Nodes /\ m.id \in InstanceID /\ l \in [InstanceID -> InstanceState]
  BY DEF TypeOK, Message, InstanceState, Status
<1>2. \A x \in InstanceID : x # m.id => l[x] = log[m.to][x] BY <1>1 DEF TypeOK
<1>3. prepareToExecute(m.to, l, {}) /\ msgs' = msgs \ {m} BY DEF onCommit
<1> HIDE DEF l
<1>4. \A x \in InstanceID : x[1] = m.to =>
        /\ Known(m.to, x) => l[x].status # "None"
        /\ l[x].status # "None" => x \in {} \/ KnownStored(m.to, x)
  BY <1>2 DEF Known, KnownInv
<1>5. {} \in SUBSET InstanceID /\ \A n \in msgs' : n \in msgs BY <1>3
<1> QED BY <1>1, <1>3, <1>4, <1>5, ExecuteRemembers

(* The timers of p store what they change.                                 *)
LEMMA TickRemembers ==
  ASSUME TypeOK, KnownInv, NEW p \in Nodes, Tick(p)
  PROVE  Remembers
<1> DEFINE fired == {id \in InstanceID : /\ id[1] = p /\ lead[id].slowPathTimer # Paused
                                        /\ Expires(lead[id].slowPathTimer)}
           accepted == [id \in InstanceID |-> [log[p][id] EXCEPT !.status = "Accepted"]]
           sent == UNION {Broadcast("Accept", id, log[p][id], epoch[p]) : id \in fired}
<1>1. /\ log' = [log EXCEPT ![p] =
           [id \in InstanceID |-> IF id \in fired THEN accepted[id] ELSE log[p][id]]]
      /\ stored' = [stored EXCEPT ![p] =
           [id \in InstanceID |-> IF id \in fired THEN accepted[id] ELSE stored[p][id]]]
      /\ msgs' = msgs \cup sent
  BY DEF Tick, TypeOK
<1>2. \A m \in sent : m.id \in fired BY BroadcastFacts DEF Requests
<1>3. \A id \in InstanceID : accepted[id].status = "Accepted"
  BY DEF TypeOK, InstanceState
<1>4. fired \subseteq InstanceID /\ \A id \in fired : id[1] = p OBVIOUS
<1> HIDE DEF fired, accepted, sent
<1>5. \A q \in Nodes, id \in InstanceID :
        IF q = p /\ id \in fired THEN log'[q][id] = accepted[id] /\ stored'[q][id] = accepted[id]
        ELSE log'[q][id] = log[q][id] /\ stored'[q][id] = stored[q][id]
  BY <1>1 DEF TypeOK
<1>6. ASSUME NEW id \in InstanceID
      PROVE  /\ Known(id[1], id) => Known(id[1], id)'
             /\ Known(id[1], id)' => KnownStored(id[1], id)'
             /\ id \in fired => Known(id[1], id)'
  <2>1. CASE id \in fired BY <1>3, <1>4, <1>5, <2>1 DEF Known, KnownStored
  <2>2. CASE id \notin fired BY <1>5, <2>2, LeaderIsNode DEF Known, KnownStored, KnownInv
  <2> QED BY <2>1, <2>2
<1>7. \A m \in msgs' : m \in msgs \/ (m.id \in InstanceID /\ Known(m.id[1], m.id)')
  BY <1>1, <1>2, <1>4, <1>6
<1> QED BY <1>6, <1>7 DEF Remembers

(* A restart finds every own instance in the storage.                      *)
LEMMA RestartRemembers ==
  ASSUME TypeOK, KnownInv, NEW p \in Nodes, Restart(p)
  PROVE  Remembers
<1> DEFINE unfinished == {id \in InstanceID :
                            id[1] = p /\ stored[p][id].status \notin {"None", "Executed"}}
           sent == UNION {restartTransition(id, stored[p][id], epoch[p] + 1) : id \in unfinished}
           l == stored[p]
<1>1. prepareToExecute(p, l, {}) /\ msgs' = msgs \cup sent BY DEF Restart
<1>2. l \in [InstanceID -> InstanceState] /\ {} \in SUBSET InstanceID BY DEF TypeOK
<1>3. \A m \in sent : m.id \in unfinished
  <2> SUFFICES ASSUME NEW id \in unfinished,
                      NEW m \in restartTransition(id, stored[p][id], epoch[p] + 1)
               PROVE  m.id = id
    OBVIOUS
  <2> QED BY DEF restartTransition, Broadcast
<1>4. \A id \in InstanceID : id[1] = p =>
        /\ Known(p, id) => l[id].status # "None"
        /\ l[id].status # "None" => id \in {} \/ KnownStored(p, id)
  BY DEF KnownInv, KnownStored
<1>5. \A id \in unfinished : id \in InstanceID /\ id[1] = p /\ l[id].status # "None"
  OBVIOUS
<1> HIDE DEF unfinished, sent, l
<1>6. \A m \in msgs' : m \in msgs \/ (/\ m.id \in InstanceID /\ m.id[1] = p
                                      /\ l[m.id].status # "None")
  BY <1>1, <1>3, <1>5
<1> QED BY <1>1, <1>2, <1>4, <1>6, ExecuteRemembers

(* Every step keeps the own instances known.                               *)
LEMMA KnownStep == AgreementInv /\ KnownInv /\ [Next]_vars => KnownInv'
<1> SUFFICES ASSUME AgreementInv, KnownInv, [Next]_vars PROVE Remembers
  BY RemembersStep DEF AgreementInv
<1>1. TypeOK /\ DecisionInv BY InvParts
<1>2. \A m \in msgs : /\ m.type \in Requests => m.to # m.id[1]
                      /\ m.type \in Replies => m.to = m.id[1]
  BY <1>1 DEF DecisionInv
<1>3. ASSUME NEW m \in msgs, Ignore(m) PROVE Remembers
  BY <1>3, QuietRemembers DEF Ignore
<1>4. ASSUME NEW m \in msgs, onPreAccept(m) \/ onAccept(m) PROVE Remembers
  <2>1. m.to # m.id[1] BY <1>2, <1>4 DEF onPreAccept, onAccept, Handles, Requests
  <2> QED BY <1>1, <1>4, <2>1, FollowerRemembers
<1>5. ASSUME NEW m \in msgs, onPreAcceptOK(m) \/ onPreAcceptReply(m) PROVE Remembers
  <2> DEFINE is == log[m.to][m.id]
             merged == [is EXCEPT !.seq = Max({@, m.seq}), !.deps = unionDepSlices(@, m.deps)]
  <2>1. /\ is \in InstanceState /\ m.seq \in Nat /\ m.deps \in SUBSET InstanceID
    BY <1>1 DEF TypeOK, Message
  <2>2. is.status = "PreAccepted" /\ m.to = m.id[1]
    BY <1>2, <1>5 DEF onPreAcceptOK, onPreAcceptReply, Handles, HandledIn, Replies
  <2>3. merged \in InstanceState /\ merged.status = "PreAccepted"
    <3>1. Max({is.seq, m.seq}) \in Nat BY <2>1, MaxOfTwo DEF InstanceState
    <3> QED BY ZenonT(30), <2>1, <2>2, <3>1 DEF InstanceState, unionDepSlices
  <2>4. \E ld : onEitherPreAcceptReply(m, is, ld) \/ onEitherPreAcceptReply(m, merged, ld)
    BY <1>5 DEF onPreAcceptOK, onPreAcceptReply
  <2> HIDE DEF merged
  <2> QED BY <1>1, <2>1, <2>2, <2>3, <2>4, EitherReplyRemembers
<1>6. ASSUME NEW m \in msgs, onAcceptOK(m) PROVE Remembers
  <2>1. m.to = m.id[1] BY <1>2, <1>6 DEF onAcceptOK, Handles, Replies
  <2>2. m.id \in InstanceID /\ log[m.to][m.id] \in InstanceState
    BY <1>1 DEF TypeOK, Message
  <2>3. CASE Commit(m.to, m.id, log[m.to][m.id], msgs \ {m})
    BY <1>1, <2>1, <2>2, <2>3, CommitRemembers
  <2>4. CASE msgs' = msgs \ {m} /\ UNCHANGED <<log, stored, executed>>
    BY <2>4, QuietRemembers
  <2> QED BY <1>6, <2>3, <2>4 DEF onAcceptOK
<1>7. ASSUME NEW m \in msgs, onCommit(m) PROVE Remembers
  <2>1. m.to # m.id[1] BY <1>2, <1>7 DEF onCommit, Handles, Requests
  <2> QED BY <1>1, <1>7, <2>1, CommitMessageRemembers
<1>8. ASSUME NEW m \in msgs, Step(m) PROVE Remembers
  BY <1>3, <1>4, <1>5, <1>6, <1>7, <1>8 DEF Step
<1>9. ASSUME NEW p \in Nodes, NEW c \in Command, Request(p, c) PROVE Remembers
  BY <1>1, <1>9, RequestRemembers
<1>10. ASSUME NEW p \in Nodes, Tick(p) \/ Restart(p) PROVE Remembers
  BY <1>1, <1>10, TickRemembers, RestartRemembers
<1>11. CASE UNCHANGED vars BY <1>11, QuietRemembers DEF vars
<1> QED BY <1>8, <1>9, <1>10, <1>11 DEF Next

(* The instances of messages stay known.                                   *)
LEMMA KnownInvariant == Spec => []KnownInv
<1>1. Init => KnownInv
  BY LeaderIsNode DEF Init, KnownInv, Known, NewInstance
<1> QED BY <1>1, KnownStep, AgreementInvariant, PTL DEF Spec

(* A replica knows the instance of every reply it gets, so that Step never *)
(* creates an own instance for a reply, whatever restarts come between the *)
(* broadcast and the reply.                                                *)
THEOREM OwnInstancesKnown == Spec => []RepliesKnown
<1>1. AgreementInv /\ KnownInv => RepliesKnown
  BY DEF AgreementInv, KnownInv, Known, RepliesKnown
<1> QED BY <1>1, KnownInvariant, AgreementInvariant, PTL

=============================================================================
