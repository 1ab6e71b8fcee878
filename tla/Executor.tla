------------------------------ MODULE Executor ------------------------------
(***************************************************************************)
(* The executor of a replica, epaxos/execute.go: commits arrive in any     *)
(* order, each starts a run, and a run is Tarjan's algorithm on the        *)
(* committed instances followed by the execution of the components.        *)
(*                                                                         *)
(* The recursion of visit is a stack of frames.  The dependencies of a     *)
(* vertex are visited in the order of its sorted slice; the vertices that  *)
(* start a visit come in any order, the order of a Go map.                 *)
(***************************************************************************)
EXTENDS ExecutionOrder, SequencesExt

CONSTANTS Instances, MaxSeq   \* the instances, and a bound on sequence numbers

VARIABLES
  log,          \* the instances: status, seq and deps
  executed,     \* the instances executed, in order
  running,      \* whether run() is being executed
  index,        \* index[v] of the tarjanNode: -1 before its visit
  lowlink,      \* lowlink[v] of the tarjanNode
  stack,        \* e.stack
  frames,       \* the active calls of visit: the vertex and its depNodes to do
  components,   \* e.components: those that executeSCC was not called with
  settled       \* log and executed at the end of the last run (history)

vars == <<log, executed, running, index, lowlink, stack, frames, components, settled>>

(* InstanceIDs.Less.                                                       *)
Less(a, b) == IF a[1] # b[1] THEN a[1] < b[1] ELSE a[2] < b[2]

(* min.  Larger: the comparison is the wrong way round.                    *)
LargerOf(a, b) == IF a < b THEN b ELSE a

SmallerOf(a, b) == IF a < b THEN a ELSE b

Unvisited == [v \in Instances |-> -1]

Init ==
  /\ log \in [Instances -> [status : {"None"}, seq : 1..MaxSeq, deps : SUBSET Instances]]
  /\ \A x \in Instances : x \notin log[x].deps
  /\ executed = <<>>
  /\ running = FALSE
  /\ index = Unvisited /\ lowlink = Unvisited
  /\ stack = <<>> /\ frames = <<>> /\ components = <<>>
  /\ settled = [log |-> log, executed |-> executed]

(* addExec, and the start of run: strongConnect resets every vertex.       *)
addExec(x) ==
  /\ ~ running
  /\ log[x].status = "None"
  /\ log' = [log EXCEPT ![x].status = "Committed"]
  /\ running' = TRUE
  /\ index' = Unvisited /\ lowlink' = Unvisited
  /\ UNCHANGED <<executed, stack, frames, components, settled>>

(* visit(v), up to its loop: callers are the frames below.                 *)
Visit(v, callers) ==
  LET next == Cardinality({w \in Instances : index[w] >= 0}) IN
  /\ index' = [index EXCEPT ![v] = next]
  /\ lowlink' = [lowlink EXCEPT ![v] = next]
  /\ stack' = Append(stack, v)
  /\ frames' = Append(callers,
       [v |-> v, todo |-> SetToSortSeq(log[v].deps \cap Vertices(log), Less)])
  /\ UNCHANGED <<log, executed, running, components, settled>>

(* strongConnect's loop over the vertices.                                 *)
StrongConnect(v) ==
  /\ running /\ frames = <<>>
  /\ v \in Vertices(log) /\ index[v] = -1
  /\ Visit(v, frames)

(* One turn of visit's loop over depNodes.                                 *)
VisitDep ==
  LET f == Last(frames)
      w == Head(f.todo)
      rest == Append(Front(frames), [f EXCEPT !.todo = Tail(@)])
  IN  /\ frames # <<>> /\ f.todo # <<>>
      /\ \/ index[w] = -1 /\ Visit(w, rest)
         \/ /\ index[w] # -1
            /\ lowlink' = IF w \in Range(stack)
                          THEN [lowlink EXCEPT ![f.v] = SmallerOf(@, index[w])]
                          ELSE lowlink
            /\ frames' = rest
            /\ UNCHANGED <<log, executed, running, index, stack, components, settled>>

(* The end of visit: pop a component, and give lowlink to the caller.      *)
Return ==
  LET v == Last(frames).v
      callers == Front(frames)
      at == CHOOSE i \in DOMAIN stack : stack[i] = v
  IN  /\ frames # <<>> /\ Last(frames).todo = <<>>
      /\ frames' = callers
      /\ lowlink' = IF callers = <<>> THEN lowlink
                    ELSE [lowlink EXCEPT ![Last(callers).v] = SmallerOf(@, lowlink[v])]
      /\ \/ /\ lowlink[v] = index[v]
            /\ components' = Append(components, Reverse(SubSeq(stack, at, Len(stack))))
            /\ stack' = SubSeq(stack, 1, at - 1)
         \/ lowlink[v] # index[v] /\ UNCHANGED <<components, stack>>
      /\ UNCHANGED <<log, executed, running, index, settled>>

(* strongConnect visited every vertex.  All: it waits for every instance.  *)
ConnectedAll == frames = <<>> /\ \A v \in Instances : index[v] >= 0

Connected == frames = <<>> /\ \A v \in Vertices(log) : index[v] >= 0

(* A component must wait for an instance outside of it that was not        *)
(* executed.  Vertex: only for those that are committed.  Member: only one *)
(* member's dependencies are looked at.                                    *)
BlockedVertex(comp) ==
  \E v \in Range(comp) : \E d \in log[v].deps \cap Vertices(log) : d \notin Range(comp)

BlockedMember(comp) ==
  \E d \in log[comp[1]].deps : d \notin Range(comp) /\ log[d].status # "Executed"

Blocked(comp) ==
  \E v \in Range(comp) : \E d \in log[v].deps :
    d \notin Range(comp) /\ log[d].status # "Executed"

(* executeSCC of the first component.  sort.Slice is not stable: any       *)
(* sorted order may come out of it.                                        *)
executeSCC ==
  LET comp == Head(components)
      sorted == {order \in SetToSeqs(Range(comp)) : \A i, j \in DOMAIN order :
                   i < j => ~ ExecutesBefore(log, order[j], order[i])}
  IN  /\ running /\ Connected /\ components # <<>>
      /\ components' = Tail(components)
      /\ \/ Blocked(comp) /\ UNCHANGED <<log, executed>>
         \/ /\ ~ Blocked(comp)
            /\ \E order \in sorted : executed' = executed \o order
            /\ log' = [v \in Instances |-> IF v \in Range(comp)
                         THEN [log[v] EXCEPT !.status = "Executed"] ELSE log[v]]
      /\ UNCHANGED <<running, settled, index, lowlink, stack, frames>>

(* reset, at the end of run.                                               *)
reset ==
  /\ running /\ Connected /\ components = <<>>
  /\ running' = FALSE
  /\ settled' = [log |-> log, executed |-> executed]
  /\ UNCHANGED <<log, executed, index, lowlink, stack, frames, components>>

Next ==
  \/ \E x \in Instances : addExec(x) \/ StrongConnect(x)
  \/ VisitDep \/ Return \/ executeSCC \/ reset

Spec == Init /\ [][Next]_vars /\ WF_vars(Next)

-----------------------------------------------------------------------------
(* Type correctness of the executor's state; between runs nothing is left  *)
(* of the last one.                                                        *)
TypeOK ==
  /\ \A x \in Instances : log[x].status \in {"None", "Committed", "Executed"}
  /\ executed \in Seq(Instances) /\ stack \in Seq(Instances)
  /\ index \in [Instances -> -1..Cardinality(Instances)]
  /\ lowlink \in [Instances -> -1..Cardinality(Instances)]
  /\ running \in BOOLEAN
  /\ ~ running => stack = <<>> /\ frames = <<>> /\ components = <<>>

Atomic == INSTANCE AtomicExecutor WITH log <- settled.log, executed <- settled.executed

(* The runs of Tarjan's algorithm and of executeSCC execute exactly what   *)
(* can be executed, in an admissible order, whatever vertex the map        *)
(* iteration starts from: the executor implements AtomicExecutor.          *)
ImplementsAtomic == Atomic!Spec

(* All that was executed since the start is in an order that only the      *)
(* committed data determines, up to unrelated components, although the     *)
(* commits arrived in any order and were executed by different runs.       *)
HistoryAdmissible == Admissible(log, executed)

(* Every run ends (visit's recursion and the loops of run).                *)
RunEnds == running ~> ~ running
=============================================================================
