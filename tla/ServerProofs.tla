---------------------------- MODULE ServerProofs ----------------------------
(***************************************************************************)
(* The nodes of the demo's servers are nodes of module Node, whatever the  *)
(* streams, the channels and the failing servers do to the messages.       *)
(***************************************************************************)
EXTENDS Server, NodeProofs

(* A message that a replica handles was sent.                              *)
LEMMA HandledWasSent == ASSUME NEW m, Step(m) PROVE m \in msgs
BY Zenon DEF Step, Ignore, onPreAccept, onPreAcceptOK, onPreAcceptReply, onAccept, onAcceptOK,
       onCommit, Handles, Deliverable

(* The steps of the demo's servers, with servers that go down, are steps   *)
(* of their nodes.                                                         *)
LEMMA ServerStep == [FailingNext]_serverVars => [NodeNext]_nodeVars
<1> SUFFICES ASSUME [FailingNext]_serverVars PROVE [NodeNext]_nodeVars
  OBVIOUS
<1>1. CASE UNCHANGED serverVars BY <1>1 DEF serverVars
<1>2. ASSUME NEW p \in Nodes, LoopTick(p) PROVE NodeNext
  BY <1>2 DEF LoopTick, NodeNext
<1>3. ASSUME NEW p \in Nodes, LoopMsg(p) PROVE NodeNext
  <2>1. RunStep(Head(msgC[p])) BY <1>3 DEF LoopMsg
  <2>2. Head(msgC[p]) \in msgs BY <2>1, HandledWasSent DEF RunStep
  <2> QED BY <2>1, <2>2 DEF NodeNext
<1>4. ASSUME NEW p \in Nodes, LoopRequest(p) PROVE NodeNext
  <2>1. RunPropose(p, Head(reqC[p])) BY <1>4 DEF LoopRequest
  <2>2. Head(reqC[p]) \in Command BY <2>1, ConstantsAssumption DEF RunPropose, Request
  <2> QED BY <2>1, <2>2 DEF NodeNext
<1>5. ASSUME NEW p \in Nodes, LoopReady(p) PROVE NodeNext
  BY <1>5 DEF LoopReady, NodeNext
<1>6. ASSUME NEW p \in Nodes, NEW q \in Nodes, sendAllTo(p, q) \/ SendFailed(p, q)
      PROVE  UNCHANGED nodeVars
  BY <1>6 DEF sendAllTo, SendFailed
<1>7. ASSUME NEW p \in Nodes, CloseAndRecv(p) \/ handleExecutedCmds(p) \/ Fail(p)
      PROVE  UNCHANGED nodeVars
  BY Zenon, <1>7 DEF CloseAndRecv, handleExecutedCmds, Fail
<1>8. ASSUME NEW p \in Nodes, HandlerStep(p) \/ ClientStep(p)
      PROVE  UNCHANGED nodeVars
  BY Zenon, <1>8 DEF HandlerStep, ClientStep, DeliverMessage, ReadOrWrite
<1>9. ASSUME NEW p \in Nodes, FailingLoopStep(p) PROVE [NodeNext]_nodeVars
  BY <1>2, <1>3, <1>4, <1>5, <1>6, <1>7, <1>9 DEF FailingLoopStep, LoopStep
<1> QED BY <1>1, <1>7, <1>8, <1>9 DEF FailingNext

(* The demo's servers agree and execute every instance at most once, for   *)
(* any number of servers and clients, any capacity of the channels and any *)
(* servers that go down, although sendAll then drops messages.             *)
THEOREM ServersAgree ==
  ServerInit /\ [][FailingNext]_serverVars => [](Agreement /\ ExecutedOnce)
<1>1. ServerInit => NodeInit BY DEF ServerInit
<1>2. ServerInit /\ [][FailingNext]_serverVars => NodeSpec
  BY <1>1, ServerStep, PTL DEF NodeSpec
<1>3. ImplementsEPaxos => Spec BY DEF ImplementsEPaxos
<1> QED BY <1>2, <1>3, NodeImplements, ReplicasAgree, NothingExecutedTwice, PTL

=============================================================================
