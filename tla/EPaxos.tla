------------------------------- MODULE EPaxos -------------------------------
(***************************************************************************)
(* The replicas of an EPaxos network (epaxos/epaxos.go, instance.go,       *)
(* command.go, messaging.go, timer.go): the state of every epaxos struct,  *)
(* one action per Request, per message handler, per Tick and per restart,  *)
(* and the messages between the replicas.                                  *)
(*                                                                         *)
(* A message stays in msgs until its receiver handles it, in any order; a  *)
(* lost message is one that is never handled.  With InOrder, the messages  *)
(* a leader sends about an instance between two restarts arrive in the     *)
(* order they were sent, as on the streams of the demo's transport.        *)
(***************************************************************************)
EXTENDS Interference, ExecutionOrder

CONSTANTS
  Nodes,            \* the ReplicaIDs of Config.Nodes
  Command,          \* the commands clients propose
  Workload,         \* Workload[p]: the commands proposed at replica p
  MaxInstanceNum,   \* bound: instances per replica
  MaxRestarts,      \* bound: MaxRestarts[p] restarts of replica p
  InOrder           \* whether messages about an instance stay in order

InstanceID == Nodes \X (1..MaxInstanceNum)

ASSUME ConstantsAssumption ==
  /\ Nodes \subseteq Nat /\ IsFiniteSet(Nodes)
  /\ MaxInstanceNum \in Nat /\ MaxRestarts \in [Nodes -> Nat]
  /\ InOrder \in BOOLEAN
  /\ Nil \notin Command
  /\ Workload \in [Nodes -> SUBSET Command]

ASSUME CommandsAssumption == \A c \in Command : IsCommand(c)

VARIABLES
  log,        \* log[p][id]: the pb.InstanceState of id in p.commands
  lead,       \* lead[id]: the command-leader state of id at its own replica
  msgs,       \* the messages sent and not yet handled
  stored,     \* stored[p][id]: the instance state in p's Storage
  executed,   \* executed[p]: the instances delivered in executedCmds, in order
  epoch,      \* epoch[p]: how often p restarted
  crashed     \* the replicas whose process panicked

vars == <<log, lead, msgs, stored, executed, epoch, crashed>>

-----------------------------------------------------------------------------
(* Instance states, command-leader states and messages.                    *)

Status == {"None", "PreAccepted", "Accepted", "Committed", "Executed"}

InstanceState ==
  [status : Status, cmd : Command \cup {Nil}, seq : Nat, deps : SUBSET InstanceID]

(* The state of an instance that does not exist.                           *)
NewInstance == [status |-> "None", cmd |-> Nil, seq |-> 0, deps |-> {}]

slowPathTimout == 2

(* The ticks of a timer that is not set.                                   *)
Paused == -1

LeaderState ==
  [preAcceptReplies : Nat, differentReplies : BOOLEAN,
   slowPathTimer : Paused..(slowPathTimout - 1), acceptReplies : Nat]

NewLeader ==
  [preAcceptReplies |-> 0, differentReplies |-> FALSE,
   slowPathTimer |-> Paused, acceptReplies |-> 0]

Requests == {"PreAccept", "Accept", "Commit"}

Replies == {"PreAcceptOK", "PreAcceptReply", "AcceptOK"}

(* A pb.Message.  from and epoch are not part of it and no handler reads   *)
(* them: they tell apart messages that are equal in the program but are    *)
(* sent by different replicas or in answer to different broadcasts.        *)
Message ==
  [type : Requests \cup Replies, id : InstanceID, from : Nodes, to : Nodes,
   epoch : Nat, cmd : Command \cup {Nil}, seq : Nat, deps : SUBSET InstanceID]

(* instance.broadcast of the data of the leader's instance id to all other *)
(* nodes: an Accept has no command.                                        *)
Broadcast(type, id, is, e) ==
  {[type |-> type, id |-> id, from |-> id[1], to |-> q, epoch |-> e,
    cmd |-> IF type = "Accept" THEN Nil ELSE is.cmd,
    seq |-> is.seq, deps |-> is.deps] : q \in Nodes \ {id[1]}}

(* instance.reply to the message m.                                        *)
Reply(m, type, seq, deps) ==
  [type |-> type, id |-> m.id, from |-> m.to, to |-> m.id[1], epoch |-> m.epoch,
   cmd |-> Nil, seq |-> seq, deps |-> deps]

quorum(val) == val > Cardinality(Nodes) \div 2

(* fastQuorum.  Half: half of the nodes are enough.                        *)
fastQuorumHalf(val) == val >= Cardinality(Nodes) \div 2

fastQuorum(val) == val >= Cardinality(Nodes) - 1

-----------------------------------------------------------------------------
Init ==
  /\ log = [p \in Nodes |-> [id \in InstanceID |-> NewInstance]]
  /\ lead = [id \in InstanceID |-> NewLeader]
  /\ msgs = {}
  /\ stored = log
  /\ executed = [p \in Nodes |-> <<>>]
  /\ epoch = [p \in Nodes |-> 0]
  /\ crashed = {}

(* The persist() of instance id of replica p.  Nothing: it is forgotten.   *)
persistNothing(p, id, is) == UNCHANGED stored

persist(p, id, is) == stored' = [stored EXCEPT ![p][id] = is]

(* transitionTo(Executed) of the instances in order, at replica p whose    *)
(* log became l, and the persist() of these and of the persisted ones.     *)
(* Volatile: the executed ones are not persisted.                          *)
ExecuteVolatile(p, l, order, persisted) ==
  LET l2 == [id \in InstanceID |->
               IF id \in Range(order) THEN [l[id] EXCEPT !.status = "Executed"] ELSE l[id]]
  IN  /\ log' = [log EXCEPT ![p] = l2]
      /\ stored' = [stored EXCEPT ![p] = [id \in InstanceID |->
                      IF id \in persisted THEN l[id] ELSE stored[p][id]]]
      /\ executed' = [executed EXCEPT ![p] = @ \o order]

Execute(p, l, order, persisted) ==
  LET done == Range(order)
      l2 == [id \in InstanceID |->
               IF id \in done THEN [l[id] EXCEPT !.status = "Executed"] ELSE l[id]]
  IN  /\ log' = [log EXCEPT ![p] = l2]
      /\ stored' = [stored EXCEPT ![p] = [id \in InstanceID |->
                      IF id \in done \cup persisted THEN l2[id] ELSE stored[p][id]]]
      /\ executed' = [executed EXCEPT ![p] = @ \o order]

(* prepareToExecute, once the committed instance is in p's log l.  Lazy:   *)
(* the executor does not run.                                              *)
prepareToExecuteLazy(p, l, persisted) == Execute(p, l, <<>>, persisted)

prepareToExecute(p, l, persisted) ==
  \E order \in ExecutionOrders(l) : Execute(p, l, order, persisted)

(* transitionTo(Accepted) and transitionTo(Committed) of the leader's      *)
(* instance id, whose state is is.                                         *)
Accept(p, id, is, rest) ==
  LET accepted == [is EXCEPT !.status = "Accepted"] IN
  /\ log' = [log EXCEPT ![p][id] = accepted]
  /\ persist(p, id, accepted)
  /\ msgs' = rest \cup Broadcast("Accept", id, is, epoch[p])
  /\ UNCHANGED executed

(* Volatile: the committed instance is not persisted.                      *)
CommitVolatile(p, id, is, rest) ==
  /\ prepareToExecute(p, [log[p] EXCEPT ![id] = [is EXCEPT !.status = "Committed"]], {})
  /\ msgs' = rest \cup Broadcast("Commit", id, is, epoch[p])

Commit(p, id, is, rest) ==
  /\ prepareToExecute(p, [log[p] EXCEPT ![id] = [is EXCEPT !.status = "Committed"]], {id})
  /\ msgs' = rest \cup Broadcast("Commit", id, is, epoch[p])

(* The process dies of a nil pointer: what it had in memory is gone.       *)
Panic(p) ==
  /\ crashed' = crashed \cup {p}
  /\ UNCHANGED <<log, lead, stored, executed, epoch>>

maxInstanceNum(p) ==
  MaxSeqNum({id[2] : id \in {x \in InstanceID : x[1] = p /\ log[p][x].status # "None"}})

Proposed(c) == \E id \in InstanceID : log[id[1]][id].cmd = c

(* onRequest.                                                              *)
Request(p, c) ==
  LET id == <<p, maxInstanceNum(p) + 1>>
      local == seqAndDepsForCommand(log[p], c, <<0, 0>>)
      is == [status |-> "PreAccepted", cmd |-> c, seq |-> local.maxSeq + 1,
             deps |-> local.deps]
  IN  /\ p \notin crashed
      /\ c \in Workload[p] /\ ~ Proposed(c)
      /\ id \in InstanceID
      /\ \/ local.nilCmd /\ Panic(p) /\ UNCHANGED msgs
         \/ /\ ~ local.nilCmd
            /\ log' = [log EXCEPT ![p][id] = is]
            /\ persist(p, id, is)
            /\ UNCHANGED <<lead, executed, epoch, crashed>>
            /\ msgs' = msgs \cup Broadcast("PreAccept", id, is, epoch[p])

-----------------------------------------------------------------------------
(* Message handlers.  Step finds the instance, or creates it, and calls    *)
(* the handler of the message's type.                                      *)

Phase(type) == CASE type = "PreAccept" -> 1 [] type = "Accept" -> 2 [] OTHER -> 3

Deliverable(m) ==
  /\ m \in msgs
  /\ m.to \notin crashed
  /\ (InOrder /\ m.type \in Requests) =>
       ~ \E n \in msgs : /\ n.type \in Requests /\ n.id = m.id /\ n.to = m.to
                         /\ n.epoch = m.epoch /\ Phase(n.type) < Phase(m.type)

(* The isStates test of each handler.  Late: PreAccept replies count after *)
(* the Accept.  Early: AcceptOKs count only before it.                     *)
HandledInLate(type) ==
  CASE type = "PreAccept" -> {"None", "PreAccepted"}
    [] type \in {"PreAcceptOK", "PreAcceptReply"} -> {"PreAccepted", "Accepted"}
    [] type = "AcceptOK" -> {"Accepted"}
    [] OTHER -> {"None", "PreAccepted", "Accepted"}

HandledInEarly(type) ==
  CASE type = "PreAccept" -> {"None", "PreAccepted"}
    [] type \in {"PreAcceptOK", "PreAcceptReply", "AcceptOK"} -> {"PreAccepted"}
    [] OTHER -> {"None", "PreAccepted", "Accepted"}

HandledIn(type) ==
  CASE type = "PreAccept" -> {"None", "PreAccepted"}
    [] type \in {"PreAcceptOK", "PreAcceptReply"} -> {"PreAccepted"}
    [] type = "AcceptOK" -> {"Accepted"}
    [] OTHER -> {"None", "PreAccepted", "Accepted"}

Handles(m, type) ==
  /\ m.type = type
  /\ Deliverable(m)
  /\ log[m.to][m.id].status \in HandledIn(type)

(* A handler's early return.                                               *)
Ignore(m) ==
  /\ Deliverable(m)
  /\ log[m.to][m.id].status \notin HandledIn(m.type)
  /\ msgs' = msgs \ {m}
  /\ UNCHANGED <<log, lead, stored, executed, epoch, crashed>>

onPreAccept(m) ==
  LET p == m.to
      local == seqAndDepsForCommand(log[p], m.cmd, m.id)
      seq == Max({m.seq, local.maxSeq + 1})
      deps == local.deps \cup m.deps
      same == seq = m.seq /\ Cardinality(deps) = Cardinality(m.deps)
  IN  /\ Handles(m, "PreAccept")
      /\ \/ local.nilCmd /\ Panic(p) /\ msgs' = msgs \ {m}
         \/ /\ ~ local.nilCmd
            /\ log' = [log EXCEPT ![p][m.id] =
                 [status |-> "PreAccepted", cmd |-> m.cmd, seq |-> seq, deps |-> deps]]
            /\ msgs' = (msgs \ {m}) \cup
                 {IF same THEN Reply(m, "PreAcceptOK", 0, {})
                  ELSE Reply(m, "PreAcceptReply", seq, deps)}
            /\ UNCHANGED <<lead, stored, executed, epoch, crashed>>

(* unregisterTimer of the slow path timer.  Nothing: it stays set.         *)
unregisterNothing(ld) == ld

unregisterTimer(ld) == [ld EXCEPT !.slowPathTimer = Paused]

unionDepSlices(a, b) == a \cup b

(* onEitherPreAcceptReply, after the reply m made the instance is and its  *)
(* leader state ld.                                                        *)
onEitherPreAcceptReply(m, is, ld) ==
  LET p == m.to
      replies == ld.preAcceptReplies + 1
      fast == ~ ld.differentReplies /\ fastQuorum(replies)
      slow == ~ fast /\ quorum(replies) /\ ld.differentReplies
      arm == ~ fast /\ quorum(replies) /\ ~ ld.differentReplies /\ ld.slowPathTimer = Paused
  IN  \/ /\ fast
         /\ Commit(p, m.id, is, msgs \ {m})
         /\ lead' = [lead EXCEPT ![m.id] = unregisterTimer(ld)]
      \/ /\ slow
         /\ Accept(p, m.id, is, msgs \ {m})
         /\ lead' = [lead EXCEPT ![m.id] = unregisterTimer(ld)]
      \/ /\ ~ fast /\ ~ slow
         /\ log' = [log EXCEPT ![p][m.id] = is]
         /\ lead' = [lead EXCEPT ![m.id] =
                       [ld EXCEPT !.slowPathTimer = IF arm THEN 0 ELSE @]]
         /\ msgs' = msgs \ {m}
         /\ UNCHANGED <<stored, executed>>

onPreAcceptOK(m) ==
  /\ Handles(m, "PreAcceptOK")
  /\ UNCHANGED <<epoch, crashed>>
  /\ onEitherPreAcceptReply(m, log[m.to][m.id],
       [lead[m.id] EXCEPT !.preAcceptReplies = @ + 1])

onPreAcceptReply(m) ==
  LET is == log[m.to][m.id]
      merged == [is EXCEPT !.seq = Max({@, m.seq}), !.deps = unionDepSlices(@, m.deps)]
  IN  /\ Handles(m, "PreAcceptReply")
      /\ UNCHANGED <<epoch, crashed>>
      /\ onEitherPreAcceptReply(m, merged,
           [lead[m.id] EXCEPT !.preAcceptReplies = @ + 1,
                              !.differentReplies = @ \/ merged # is])

onAccept(m) ==
  /\ Handles(m, "Accept")
  /\ log' = [log EXCEPT ![m.to][m.id] =
       [@ EXCEPT !.status = "Accepted", !.seq = m.seq, !.deps = m.deps]]
  /\ msgs' = (msgs \ {m}) \cup {Reply(m, "AcceptOK", 0, {})}
  /\ UNCHANGED <<lead, stored, executed, epoch, crashed>>

onAcceptOK(m) ==
  LET replies == lead[m.id].acceptReplies + 1 IN
  /\ Handles(m, "AcceptOK")
  /\ lead' = [lead EXCEPT ![m.id].acceptReplies = replies]
  /\ UNCHANGED <<epoch, crashed>>
  /\ \/ quorum(replies + 1) /\ Commit(m.to, m.id, log[m.to][m.id], msgs \ {m})
     \/ /\ ~ quorum(replies + 1)
        /\ msgs' = msgs \ {m}
        /\ UNCHANGED <<log, stored, executed>>

onCommit(m) ==
  /\ Handles(m, "Commit")
  /\ prepareToExecute(m.to,
       [log[m.to] EXCEPT ![m.id] = [status |-> "Committed", cmd |-> m.cmd,
                                    seq |-> m.seq, deps |-> m.deps]], {})
  /\ msgs' = msgs \ {m}
  /\ UNCHANGED <<lead, epoch, crashed>>

Step(m) ==
  \/ Ignore(m)
  \/ onPreAccept(m)
  \/ onPreAcceptOK(m)
  \/ onPreAcceptReply(m)
  \/ onAccept(m)
  \/ onAcceptOK(m)
  \/ onCommit(m)

-----------------------------------------------------------------------------
(* tickingTimer.tick reaches the timeout.  Late: one tick later.           *)
ExpiresLate(ticks) == ticks >= slowPathTimout

Expires(ticks) == ticks + 1 >= slowPathTimout

(* Tick: every set timer of p counts, and the ones that reach their        *)
(* timeout take their instance to Accepted.                                *)
Tick(p) ==
  LET set == {id \in InstanceID : id[1] = p /\ lead[id].slowPathTimer # Paused}
      fired == {id \in set : Expires(lead[id].slowPathTimer)}
      accepted == [id \in InstanceID |-> [log[p][id] EXCEPT !.status = "Accepted"]]
  IN  /\ p \notin crashed
      /\ set # {}
      /\ lead' = [id \in InstanceID |->
           IF id \notin set THEN lead[id]
           ELSE [lead[id] EXCEPT !.slowPathTimer = IF id \in fired THEN Paused ELSE @ + 1]]
      /\ log' = [log EXCEPT ![p] =
           [id \in InstanceID |-> IF id \in fired THEN accepted[id] ELSE @[id]]]
      /\ stored' = [stored EXCEPT ![p] =
           [id \in InstanceID |-> IF id \in fired THEN accepted[id] ELSE @[id]]]
      /\ UNCHANGED <<executed, epoch, crashed>>
      /\ msgs' = msgs \cup UNION {Broadcast("Accept", id, log[p][id], epoch[p]) : id \in fired}

(* The messages restartTransition broadcasts for a loaded instance.        *)
restartTransition(id, is, e) ==
  Broadcast(CASE is.status = "PreAccepted" -> "PreAccept"
              [] is.status = "Accepted" -> "Accept"
              [] OTHER -> "Commit", id, is, e)

(* newEPaxos on the storage of a process that stopped or panicked:         *)
(* initStorage loads the persisted instances and repeats the last          *)
(* transition of the own ones that were not executed.                      *)
Restart(p) ==
  LET unfinished == {id \in InstanceID : /\ id[1] = p
                                         /\ stored[p][id].status \notin {"None", "Executed"}}
  IN  /\ epoch[p] < MaxRestarts[p]
      /\ epoch' = [epoch EXCEPT ![p] = @ + 1]
      /\ crashed' = crashed \ {p}
      /\ lead' = [id \in InstanceID |-> IF id[1] = p THEN NewLeader ELSE lead[id]]
      /\ prepareToExecute(p, stored[p], {})
      /\ msgs' = msgs \cup UNION {restartTransition(id, stored[p][id], epoch[p] + 1) :
                                    id \in unfinished}

-----------------------------------------------------------------------------
Next ==
  \/ \E p \in Nodes, c \in Command : Request(p, c)
  \/ \E m \in msgs : Step(m)
  \/ \E p \in Nodes : Tick(p) \/ Restart(p)

Spec == Init /\ [][Next]_vars

(* The replicas handle what arrives and their tickers tick.  A proposal    *)
(* causes finitely many of these steps, so that weak fairness of all of    *)
(* them together makes each of them happen.                                *)
Progress == (\E m \in msgs : Step(m)) \/ (\E p \in Nodes : Tick(p))

Fairness == WF_vars(Progress)

FairSpec == Spec /\ Fairness

-----------------------------------------------------------------------------
(* Properties.                                                             *)

(* Type correctness of the replicas' state.                                *)
TypeOK ==
  /\ log \in [Nodes -> [InstanceID -> InstanceState]]
  /\ stored \in [Nodes -> [InstanceID -> InstanceState]]
  /\ lead \in [InstanceID -> LeaderState]
  /\ msgs \subseteq Message
  /\ executed \in [Nodes -> Seq(InstanceID)]
  /\ epoch \in [Nodes -> Nat]
  /\ crashed \subseteq Nodes

IsDecision(is) == is.status \in {"Committed", "Executed"}

Decided(p, id) == IsDecision(log[p][id])

SameData(a, b) == a.cmd = b.cmd /\ a.seq = b.seq /\ a.deps = b.deps

(* Two replicas that committed an instance committed it with the same      *)
(* command, sequence number and dependencies, whatever the order of the    *)
(* messages and the restarts (the Commit broadcast and onCommit).          *)
Agreement ==
  \A p, q \in Nodes, id \in InstanceID :
    Decided(p, id) /\ Decided(q, id) => SameData(log[p][id], log[q][id])

(* x depends on y, directly or on a later interfering instance of y's      *)
(* space, which stands for y in a pruned dependency list.                  *)
DependsOn(x, y) ==
  \E d \in log[x[1]][x].deps :
    \/ d = y
    \/ /\ d[1] = y[1] /\ d[2] > y[2]
       /\ Interferes(log[d[1]][d].cmd, log[y[1]][y].cmd)

(* Of two committed instances with interfering commands one depends on the *)
(* other: every quorum of PreAccepts of one meets that of the other, and   *)
(* what a replica knows ends up in the dependencies (onPreAccept,          *)
(* onPreAcceptReply, the pruning of seqAndDepsForCommand).                 *)
InterferingOrdered ==
  \A x, y \in InstanceID :
    /\ x # y
    /\ Decided(x[1], x) /\ Decided(y[1], y)
    /\ Interferes(log[x[1]][x].cmd, log[y[1]][y].cmd)
    => DependsOn(x, y) \/ DependsOn(y, x)

(* Position of an executed instance.                                       *)
At(p, id) == CHOOSE i \in DOMAIN executed[p] : executed[p][i] = id

(* Any two replicas execute any two interfering commands in the same order *)
(* (executor.run on commits that arrive in different orders).              *)
ExecutionConsistency ==
  \A p, q \in Nodes : \A x, y \in Range(executed[p]) \cap Range(executed[q]) :
    Interferes(log[p][x].cmd, log[p][y].cmd) /\ At(p, x) < At(p, y)
    => At(q, x) < At(q, y)

(* A replica executes an instance at most once, across restarts: what it   *)
(* delivered is what its storage and its memory say was executed, so that  *)
(* neither executor.run nor a restart comes upon an instance again         *)
(* (transitionTo(Executed) and its persist, restartTransition).            *)
ExecutedOnce ==
  \A p \in Nodes :
    /\ IsInjective(executed[p])
    /\ \A id \in InstanceID :
         /\ stored[p][id].status = "Executed" <=> id \in Range(executed[p])
         /\ log[p][id].status = "Executed" <=> id \in Range(executed[p])

(* The executor leaves no executable instance behind: a commit executes    *)
(* everything it unblocks, so no later event is needed to run it.          *)
ExecutorDrained == \A p \in Nodes : Executable(log[p]) = {}

(* All that a replica executed since its first start, by many runs of the  *)
(* executor and across restarts, is in an order that the committed data    *)
(* admits: behind its dependencies, or among an SCC with them, which is    *)
(* executed in one piece and sorted (executor.run, executeSCC).            *)
HistoryAdmissible == \A p \in Nodes : Admissible(log[p], executed[p])

(* A set slow path timer belongs to an instance that is still preaccepted, *)
(* has a quorum and can still take the fast path: its timeout never makes  *)
(* an unexpected state transition, however it races with late replies.     *)
TimerDiscipline ==
  \A id \in InstanceID :
    LET ld == lead[id] IN
    ld.slowPathTimer # Paused =>
      /\ log[id[1]][id].status = "PreAccepted"
      /\ quorum(ld.preAcceptReplies + 1) /\ ~ fastQuorum(ld.preAcceptReplies + 1)
      /\ ~ ld.differentReplies

(* A replica knows the instance of every reply that reaches it ("We should *)
(* always know about our own instances."), across its restarts.            *)
RepliesKnown ==
  \A m \in msgs : m.type \in Replies => log[m.to][m.id].status # "None"

(* A committed instance is held, with the sequence number and dependencies *)
(* it was committed with, by a quorum of replicas: the replies counted on  *)
(* the fast and on the slow path come from that many replicas.             *)
CommittedAtQuorum ==
  \A id \in InstanceID :
    LET is == log[id[1]][id] IN
    Decided(id[1], id) =>
      quorum(Cardinality({p \in Nodes : /\ log[p][id].status # "None"
                                        /\ log[p][id].seq = is.seq
                                        /\ log[p][id].deps = is.deps}))

(* No process panics on an instance without a command.                     *)
NoPanic == crashed = {}

(* A committed instance is never changed: not at its leader, not where it  *)
(* was executed, and elsewhere not until a restart forgets it (the isStates *)
(* tests of the handlers, and persist() before transitionTo's broadcast).  *)
DecisionKept ==
  \A p \in Nodes, id \in InstanceID :
    /\ Decided(p, id)
    /\ p = id[1] \/ log[p][id].status = "Executed" \/ epoch'[p] = epoch[p]
    => Decided(p, id)' /\ SameData(log'[p][id], log[p][id])

DecisionStable == [][DecisionKept]_vars

(* is, a state, a stored state or a Commit of instance id, has the data    *)
(* that the leader of id decided.                                          *)
AsDecided(id, is) == Decided(id[1], id) /\ SameData(is, log[id[1]][id])

(* Why replicas agree, across restarts: every committed state, in memory,  *)
(* in storage or in a Commit on its way, is the one the leader of the      *)
(* instance committed, which the leader finds again in its storage.  A set *)
(* slow path timer belongs to a preaccepted instance, so that a late       *)
(* timeout cannot take a committed one back to Accepted, and requests and  *)
(* replies reach the side they are meant for.                              *)
AgreementInv ==
  /\ TypeOK
  /\ \A p \in Nodes, id \in InstanceID :
       /\ Decided(p, id) => AsDecided(id, log[p][id])
       /\ IsDecision(stored[p][id]) => AsDecided(id, stored[p][id])
       /\ log[p][id].status = "Executed" => stored[p][id] = log[p][id]
  /\ \A id \in InstanceID :
       /\ Decided(id[1], id) => IsDecision(stored[id[1]][id])
       /\ lead[id].slowPathTimer # Paused => log[id[1]][id].status = "PreAccepted"
  /\ \A m \in msgs :
       /\ m.type = "Commit" => AsDecided(m.id, m)
       /\ m.type \in Requests => m.to # m.id[1]
       /\ m.type \in Replies => m.to = m.id[1]

(* Every command that was proposed is, some time later, executed by every  *)
(* replica.                                                                *)
EventuallyExecuted ==
  []<>(\A id \in InstanceID : log[id[1]][id].status # "None" =>
         \A p \in Nodes : log[p][id].status = "Executed")

=============================================================================
