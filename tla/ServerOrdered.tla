--------------------------- MODULE ServerOrdered ----------------------------
(***************************************************************************)
(* What the transport of the demo's servers promises to their replicas.    *)
(***************************************************************************)
EXTENDS Server

Ordered == INSTANCE EPaxos WITH InOrder <- TRUE

(* The transport keeps the messages of a leader about an instance in       *)
(* order: a stream is opened when the last one has been taken over, and a  *)
(* handler passes its messages on one by one.  The replicas of a cluster   *)
(* without failures are those of EPaxos with InOrder.                      *)
ImplementsOrdered == Ordered!Spec

=============================================================================
