----------------------------- MODULE MCExecutor -----------------------------
(* The first instance of each of three replicas, with every dependency     *)
(* graph over them.                                                        *)
EXTENDS Executor

ThreeReplicas == (1..3) \X {1}
=============================================================================
