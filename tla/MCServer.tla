------------------------------ MODULE MCServer ------------------------------
(***************************************************************************)
(* Instances of Server: three servers, all up or one of them down.         *)
(***************************************************************************)
EXTENDS ServerOrdered, MCEPaxos

OneOfThree == Load(Three, {Write(1, 1)}, {})
OneReadOneWrite == Load(Three, {Write(1, 1)}, {Read(6, 1)})

(* While the channels have room, a loop that proposes, takes a Ready or    *)
(* sends delays nothing but itself, and what it sends may stay in the      *)
(* channels: these steps are taken at once, one server's first.  The       *)
(* client's call of a command and its Propose are thus one step.           *)
Sending(p) == busy[p] /\ (waiting[p] = 0 \/ Last(streams[p]).msgs = <<>>)
Taking(p) == ~ busy[p] /\ (outbox[p] # <<>> \/ executedCmds[p] # <<>> \/ reqC[p] # <<>>)
Eager == {p \in Nodes : Sending(p) \/ Taking(p)}

Local(p) ==
  \/ LoopRequest(p) \/ LoopReady(p) \/ CloseAndRecv(p) \/ handleExecutedCmds(p)
  \/ \E q \in Nodes : sendAllTo(p, q)

EagerNext ==
  \/ Eager # {} /\ Local(Min(Eager))
  \/ Eager = {} /\ \E p \in Nodes : LoopTick(p) \/ LoopMsg(p) \/ HandlerStep(p) \/ ClientStep(p)

(* Some server goes on as long as one can: less than the fairness of every *)
(* loop and every handler.                                                 *)
EagerSpec == ServerInit /\ [][EagerNext]_serverVars /\ WF_serverVars(EagerNext)
=============================================================================
