------------------------------- MODULE MCNode -------------------------------
(***************************************************************************)
(* Instances of Node: three replicas of which one restarts.                *)
(***************************************************************************)
EXTENDS Node, MCEPaxos

(* A replica that will not restart loses nothing, and a message other than *)
(* a Commit that is lost may as well stay in the network: it does not      *)
(* matter when they are taken from the outbox.  They are taken at once,    *)
(* the first replica's first.                                              *)
Commits(p) == {m \in Range(outbox[p]) : m.type = "Commit"}
Eager == {p \in Nodes :
            \/ ~ MayRestart(p) /\ (outbox[p] # <<>> \/ executedCmds[p] # <<>>)
            \/ outbox[p] # <<>> /\ executedCmds[p] = <<>> /\ Commits(p) = {}}
EagerNext ==
  \/ Eager # {} /\ RunReady(Min(Eager))
  \/ Eager = {} /\ NodeNext
EagerSpec == NodeInit /\ [][EagerNext]_nodeVars

(* The order of an outbox does not matter either, nor a message that is    *)
(* lost or will be ignored.                                                *)
NodeView == <<log, Leading, Pending \ lost, Durable, executed, epoch, crashed,
              [p \in Nodes |-> Range(outbox[p]) \cap Pending], executedCmds, taken,
              stored = stored, lead = lead, outbox = outbox>>
=============================================================================
