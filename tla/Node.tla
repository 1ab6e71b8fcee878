-------------------------------- MODULE Node --------------------------------
(***************************************************************************)
(* The replicas of EPaxos behind the Node interface (epaxos/node.go): what *)
(* a replica sends and executes waits in p.msgs and p.executedCmds until   *)
(* the application takes both with one Ready, and is gone if the process   *)
(* stops before that.  Every step is a step of EPaxos or, like Ready,      *)
(* changes nothing of it.                                                  *)
(*                                                                         *)
(* The run loop owns the replica: Tick, Propose and Step reach it over     *)
(* channels, one at a time.  How many ticks wait in tickc or are dropped   *)
(* does not show, since a Tick may come at any time.                       *)
(***************************************************************************)
EXTENDS EPaxos

VARIABLES
  outbox,        \* outbox[p]: p.msgs, in order
  executedCmds,  \* executedCmds[p]: p.executedCmds, as instances
  taken,         \* taken[p]: what the application of p took, in order
  lost           \* messages that were in p.msgs when the process stopped

nodeVars == <<vars, outbox, executedCmds, taken, lost>>

NodeInit ==
  /\ Init
  /\ outbox = [p \in Nodes |-> <<>>]
  /\ executedCmds = [p \in Nodes |-> <<>>]
  /\ taken = [p \in Nodes |-> <<>>]
  /\ lost = {}

(* The message m has left its process.                                     *)
InNetwork(m) == m \notin lost /\ m \notin Range(outbox[m.from])

(* What p delivered to executedCmds in this step.                          *)
Delivered(p) == SubSeq(executed'[p], Len(executed[p]) + 1, Len(executed'[p]))

(* The messages of M in one order.  Those of a broadcast go to different   *)
(* replicas.                                                               *)
InSomeOrder(M) == CHOOSE s \in Injection(1..Cardinality(M), M) : TRUE

(* p.msgs and p.executedCmds grow by what the step of p added.             *)
Collect(p) ==
  /\ outbox' = [outbox EXCEPT ![p] = @ \o InSomeOrder(msgs' \ msgs)]
  /\ executedCmds' = [executedCmds EXCEPT ![p] = @ \o Delivered(p)]
  /\ UNCHANGED <<taken, lost>>

(* The cases of the select in run.                                         *)
RunTick(p) == Tick(p) /\ Collect(p)

RunPropose(p, c) == Request(p, c) /\ Collect(p)

RunStep(m) == InNetwork(m) /\ Step(m) /\ Collect(m.to)

(* readyc <- rd.  Cleared: the messages are cleared before they are handed *)
(* over.  Kept: the executed commands are not cleared.  Early: the         *)
(* commands are taken a Ready before the messages that were added with     *)
(* them.                                                                   *)
RunReadyCleared(p) ==
  /\ p \notin crashed
  /\ outbox[p] # <<>> \/ executedCmds[p] # <<>>
  /\ taken' = [taken EXCEPT ![p] = @ \o executedCmds[p]]
  /\ executedCmds' = [executedCmds EXCEPT ![p] = <<>>]
  /\ outbox' = [outbox EXCEPT ![p] = <<>>]
  /\ msgs' = msgs \ Range(outbox[p])
  /\ UNCHANGED <<log, lead, stored, executed, epoch, crashed, lost>>

RunReadyKept(p) ==
  /\ p \notin crashed
  /\ outbox[p] # <<>> \/ executedCmds[p] # <<>>
  /\ taken' = [taken EXCEPT ![p] = @ \o executedCmds[p]]
  /\ outbox' = [outbox EXCEPT ![p] = <<>>]
  /\ UNCHANGED <<vars, executedCmds, lost>>

RunReadyEarly(p) ==
  /\ p \notin crashed
  /\ outbox[p] # <<>> \/ executedCmds[p] # <<>>
  /\ taken' = [taken EXCEPT ![p] = @ \o executedCmds[p]]
  /\ executedCmds' = [executedCmds EXCEPT ![p] = <<>>]
  /\ outbox' = [outbox EXCEPT ![p] = IF executedCmds[p] = <<>> THEN <<>> ELSE @]
  /\ UNCHANGED <<vars, lost>>

RunReady(p) ==
  /\ p \notin crashed
  /\ outbox[p] # <<>> \/ executedCmds[p] # <<>>
  /\ taken' = [taken EXCEPT ![p] = @ \o executedCmds[p]]
  /\ executedCmds' = [executedCmds EXCEPT ![p] = <<>>]
  /\ outbox' = [outbox EXCEPT ![p] = <<>>]
  /\ UNCHANGED <<vars, lost>>

(* The process stops, and StartNode runs on its storage.                   *)
StartNode(p) ==
  /\ Restart(p)
  /\ lost' = lost \cup Range(outbox[p])
  /\ outbox' = [outbox EXCEPT ![p] = InSomeOrder(msgs' \ msgs)]
  /\ executedCmds' = [executedCmds EXCEPT ![p] = Delivered(p)]
  /\ UNCHANGED taken

NodeNext ==
  \/ \E p \in Nodes, c \in Command : RunPropose(p, c)
  \/ \E m \in msgs : RunStep(m)
  \/ \E p \in Nodes : RunTick(p) \/ RunReady(p) \/ StartNode(p)

NodeSpec == NodeInit /\ [][NodeNext]_nodeVars

-----------------------------------------------------------------------------
(* Properties.                                                             *)

(* Behind the Node interface the replicas are the replicas of EPaxos: the  *)
(* outbox and Ready add no behaviour, they only delay and lose messages.   *)
ImplementsEPaxos == Spec

(* The application takes the commands in the order of their execution,     *)
(* each at most once; a command that was executed and is not taken, and    *)
(* will not be, was lost with a process that stopped.                      *)
TakenInOrder ==
  \A p \in Nodes :
    LET all == taken[p] \o executedCmds[p] IN
    /\ IsInjective(all)
    /\ \A i, j \in DOMAIN all : i < j => At(p, all[i]) < At(p, all[j])
    /\ epoch[p] = 0 => all = executed[p]

(* Whoever took the command of an own instance, and answers its client,    *)
(* has the Commit out of the outbox: a replica that did not restart        *)
(* committed the instance or finds the Commit in the network.  What a      *)
(* stopping process loses was never answered.                              *)
TakenAnnounced ==
  \A p \in Nodes : \A id \in Range(taken[p]) : \A q \in Nodes :
    (id[1] = p /\ epoch[q] = 0) =>
      \/ Decided(q, id)
      \/ \E m \in msgs : InNetwork(m) /\ m.type = "Commit" /\ m.id = id /\ m.to = q

=============================================================================
