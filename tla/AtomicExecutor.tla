--------------------------- MODULE AtomicExecutor ---------------------------
(***************************************************************************)
(* What the executor of a replica promises: when a commit is added, it     *)
(* executes in one step everything that can be executed, in an admissible  *)
(* order.  EPaxos uses this step (prepareToExecute); Executor, the         *)
(* algorithm of epaxos/execute.go, implements it.                          *)
(***************************************************************************)
EXTENDS ExecutionOrder

CONSTANTS Instances, MaxSeq   \* the instances, and a bound on sequence numbers

VARIABLES log, executed

(* Any data the instances may be committed with.                           *)
Init ==
  /\ log \in [Instances -> [status : {"None"}, seq : 1..MaxSeq, deps : SUBSET Instances]]
  /\ \A x \in Instances : x \notin log[x].deps
  /\ executed = <<>>

(* prepareToExecute(x): addExec and run.                                   *)
CommitAndRun(x) ==
  LET committed == [log EXCEPT ![x].status = "Committed"] IN
  /\ log[x].status = "None"
  /\ \E order \in ExecutionOrders(committed) :
       /\ executed' = executed \o order
       /\ log' = [y \in Instances |->
            IF y \in Range(order) THEN [committed[y] EXCEPT !.status = "Executed"]
            ELSE committed[y]]

Next == \E x \in Instances : CommitAndRun(x)

Spec == Init /\ [][Next]_<<log, executed>>

=============================================================================
