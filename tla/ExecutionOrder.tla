--------------------------- MODULE ExecutionOrder ---------------------------
(***************************************************************************)
(* What one run of the executor may execute, and in which orders, stated   *)
(* over the dependency graph of the committed instances of a log           *)
(* (epaxos/execute.go).  The module Executor holds the algorithm itself,   *)
(* Tarjan's, and is checked against these definitions.                     *)
(***************************************************************************)
EXTENDS Integers, Sequences, FiniteSets, Functions

(* instance.ExecutesBefore.                                                *)
ExecutesBefore(log, a, b) ==
  IF log[a].seq # log[b].seq THEN log[a].seq < log[b].seq ELSE a[1] < b[1]

(* The executor's vertices: every instance that was added by               *)
(* prepareToExecute and was not executed since.                            *)
Vertices(log) == {x \in DOMAIN log : log[x].status = "Committed"}

(* The instances a run executes: the largest set of vertices whose         *)
(* dependencies are in the set or already executed.  Early: dependencies   *)
(* that are not committed are not waited for.                              *)
ExecutableEarly(log) == Vertices(log)

Executable(log) ==
  UNION {S \in SUBSET Vertices(log) :
           \A x \in S : \A d \in log[x].deps : d \in S \/ log[d].status = "Executed"}

(* b can be reached from a along dependencies inside E.                    *)
Reaches(log, E, a, b) ==
  \A S \in SUBSET E :
    (\A x \in S \cup {a} : log[x].deps \cap E \subseteq S) => b \in S

SameSCC(log, E, a, b) == a = b \/ (Reaches(log, E, a, b) /\ Reaches(log, E, b, a))

(* Components come in reverse topological order, one after the other, and  *)
(* each is sorted by ExecutesBefore.  sort.Slice leaves instances that     *)
(* ExecutesBefore does not order in any order.                             *)
Admissible(log, order) ==
  LET E == Range(order) IN
  \A i, j \in DOMAIN order : i < j =>
    IF SameSCC(log, E, order[i], order[j])
    THEN /\ ~ ExecutesBefore(log, order[j], order[i])
         /\ \A k \in i..j : SameSCC(log, E, order[i], order[k])
    ELSE ~ Reaches(log, E, order[i], order[j])

(* executor.run: the orders in which a run may execute instances.          *)
ExecutionOrders(log) ==
  LET E == Executable(log)
  IN  {order \in Injection(1..Cardinality(E), E) : Admissible(log, order)}

=============================================================================
