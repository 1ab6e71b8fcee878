------------------------------- MODULE Server -------------------------------
(***************************************************************************)
(* A cluster of demo servers (demo/server/server.go, transport/server.go,  *)
(* transport/internal_client.go): the application loop around every Node,  *)
(* the streams between the servers with the bounded channels behind them,  *)
(* the clients' requests, the key-value store that commands are executed   *)
(* on, and servers that go down.                                           *)
(*                                                                         *)
(* The loop handles one event at a time.  A Ready keeps it busy: first     *)
(* sendAll, one stream after the other, each until the receiving handler   *)
(* has put the last of its messages into the receiver's msgC, and then the *)
(* executed commands.                                                      *)
(***************************************************************************)
EXTENDS Node, SequencesExt

CONSTANTS
  MsgCap,     \* the capacity of msgC, 16 in the program
  ReqCap,     \* the capacity of reqC, 16 in the program
  MayFail     \* bound: the servers that may go down

VARIABLES
  busy,      \* busy[p]: the loop of p handles a Ready
  unsent,    \* unsent[p]: messages of that Ready not handed to a stream
  waiting,   \* waiting[p]: the receiver whose answer sendAllTo waits for, or 0
  streams,   \* streams[p]: what handlers still have to take from p's streams
  toExecute, \* toExecute[p]: the executed commands of that Ready
  msgC,      \* msgC[p]: messages received and not yet passed to the node
  reqC,      \* reqC[p]: clients' requests not yet passed to the node
  pending,   \* pending[p]: p.pendingRequests
  unavail,   \* unavail[p]: p.unavailClients
  kv,        \* kv[p]: the value of every key in the store of p
  calls,     \* the client's Read or Write of every command
  down       \* the servers that went down

serverVars == <<nodeVars, busy, unsent, waiting, streams, toExecute, msgC, reqC, pending, unavail,
                kv, calls, down>>

loopVars == <<busy, unsent, waiting, streams, toExecute>>
clientVars == <<pending, kv, calls>>

Keys == {c.Key : c \in Command}

(* The value of a key that was never written.                              *)
NoValue == 0

(* A call: whether it was made or answered, and with which value.          *)
NotCalled == [at |-> "none", value |-> NoValue]

Answered == {c \in Command : calls[c].at = "answered"}

ServerInit ==
  /\ NodeInit
  /\ busy = [p \in Nodes |-> FALSE]
  /\ unsent = [p \in Nodes |-> <<>>]
  /\ waiting = [p \in Nodes |-> 0]
  /\ streams = [p \in Nodes |-> <<>>]
  /\ toExecute = [p \in Nodes |-> <<>>]
  /\ msgC = [p \in Nodes |-> <<>>]
  /\ reqC = [p \in Nodes |-> <<>>]
  /\ pending = [p \in Nodes |-> {}]
  /\ unavail = [p \in Nodes |-> {}]
  /\ kv = [p \in Nodes |-> [k \in Keys |-> NoValue]]
  /\ calls = [c \in Command |-> NotCalled]
  /\ down = {}

-----------------------------------------------------------------------------
(* Read and Write: a client's request goes into reqC, if there is room.    *)
ReadOrWrite(p, c) ==
  /\ p \notin down
  /\ c \in Workload[p] /\ calls[c] = NotCalled
  /\ Len(reqC[p]) < ReqCap
  /\ reqC' = [reqC EXCEPT ![p] = Append(@, c)]
  /\ calls' = [calls EXCEPT ![c] = [at |-> "waiting", value |-> NoValue]]
  /\ UNCHANGED <<nodeVars, loopVars, msgC, pending, unavail, kv, down>>

(* The cases of the select in Run.                                         *)
LoopTick(p) ==
  /\ p \notin down
  /\ RunTick(p)
  /\ UNCHANGED <<loopVars, clientVars, msgC, reqC, unavail, down>>

(* Any: the channel does not keep the order.                               *)
LoopMsgAny(p) ==
  /\ p \notin down /\ ~ busy[p]
  /\ \E i \in DOMAIN msgC[p] :
       /\ RunStep(msgC[p][i])
       /\ msgC' = [msgC EXCEPT ![p] = RemoveAt(@, i)]
  /\ UNCHANGED <<loopVars, clientVars, reqC, unavail, down>>

LoopMsg(p) ==
  /\ p \notin down /\ ~ busy[p]
  /\ msgC[p] # <<>>
  /\ RunStep(Head(msgC[p]))
  /\ msgC' = [msgC EXCEPT ![p] = Tail(@)]
  /\ UNCHANGED <<loopVars, clientVars, reqC, unavail, down>>

(* registerClientRequest and Propose.                                      *)
LoopRequest(p) ==
  /\ p \notin down /\ ~ busy[p]
  /\ reqC[p] # <<>>
  /\ RunPropose(p, Head(reqC[p]))
  /\ reqC' = [reqC EXCEPT ![p] = Tail(@)]
  /\ pending' = [pending EXCEPT ![p] = @ \cup {Head(reqC[p])}]
  /\ UNCHANGED <<loopVars, kv, calls, msgC, unavail, down>>

(* A Ready: sendAll passes over the clients known to be unavailable.       *)
(* Either: messages that come with executed commands are not sent.         *)
LoopReadyEither(p) ==
  /\ p \notin down /\ ~ busy[p]
  /\ RunReady(p)
  /\ busy' = [busy EXCEPT ![p] = TRUE]
  /\ unsent' = [unsent EXCEPT ![p] = IF executedCmds[p] # <<>> THEN <<>> ELSE outbox[p]]
  /\ toExecute' = [toExecute EXCEPT ![p] = executedCmds[p]]
  /\ UNCHANGED <<waiting, streams, clientVars, msgC, reqC, unavail, down>>

LoopReady(p) ==
  /\ p \notin down /\ ~ busy[p]
  /\ RunReady(p)
  /\ busy' = [busy EXCEPT ![p] = TRUE]
  /\ unsent' = [unsent EXCEPT ![p] =
                  SelectSeq(outbox[p], LAMBDA m : m.to \notin unavail[p])]
  /\ toExecute' = [toExecute EXCEPT ![p] = executedCmds[p]]
  /\ UNCHANGED <<waiting, streams, clientVars, msgC, reqC, unavail, down>>

-----------------------------------------------------------------------------
(* sendAllTo: a stream to q with all of its messages.                      *)
sendAllTo(p, q) ==
  /\ p \notin down /\ busy[p] /\ waiting[p] = 0
  /\ \E m \in Range(unsent[p]) : m.to = q
  /\ q \notin down
  /\ waiting' = [waiting EXCEPT ![p] = q]
  /\ streams' = [streams EXCEPT ![p] =
       Append(@, [to |-> q, msgs |-> SelectSeq(unsent[p], LAMBDA m : m.to = q)])]
  /\ unsent' = [unsent EXCEPT ![p] = SelectSeq(@, LAMBDA m : m.to # q)]
  /\ UNCHANGED <<nodeVars, busy, toExecute, clientVars, msgC, reqC, unavail, down>>

(* The handler of the i-th stream of p receives a message and puts it into *)
(* msgC, when there is room.                                               *)
DeliverMessage(p, i) ==
  LET s == streams[p][i] IN
  /\ s.msgs # <<>>
  /\ s.to \notin down
  /\ Len(msgC[s.to]) < MsgCap
  /\ msgC' = [msgC EXCEPT ![s.to] = Append(@, Head(s.msgs))]
  /\ streams' = [streams EXCEPT ![p][i].msgs = Tail(@)]
  /\ UNCHANGED <<nodeVars, busy, unsent, waiting, toExecute, clientVars, reqC, unavail, down>>

(* CloseAndRecv returns when the handler has passed everything on.         *)
CloseAndRecv(p) ==
  /\ p \notin down /\ waiting[p] # 0
  /\ Last(streams[p]).msgs = <<>>
  /\ waiting' = [waiting EXCEPT ![p] = 0]
  /\ streams' = [streams EXCEPT ![p] = Front(@)]
  /\ UNCHANGED <<nodeVars, busy, unsent, toExecute, clientVars, msgC, reqC, unavail, down>>

(* A stream to q cannot be opened, or breaks: sendAll returns, and what it *)
(* did not send is dropped.  A stream that breaks while the loop sends has *)
(* no status yet, and q is not recorded.                                   *)
SendFailed(p, q) ==
  /\ p \notin down /\ busy[p]
  /\ q \in down
  /\ waiting[p] = q \/ (waiting[p] = 0 /\ \E m \in Range(unsent[p]) : m.to = q)
  /\ \/ unavail' = [unavail EXCEPT ![p] = @ \cup {q}]
     \/ waiting[p] = q /\ UNCHANGED unavail
  /\ unsent' = [unsent EXCEPT ![p] = <<>>]
  /\ waiting' = [waiting EXCEPT ![p] = 0]
  /\ streams' = [streams EXCEPT ![p] = <<>>]
  /\ UNCHANGED <<nodeVars, busy, toExecute, clientVars, msgC, reqC, down>>

-----------------------------------------------------------------------------
(* executeCommand on a store.  Commands of the demo have no EndKey.        *)
executeCommand(store, cmd) == IF cmd.Writing THEN [store EXCEPT ![cmd.Key] = cmd.ID] ELSE store

(* The store after the first n of the executed commands of p.              *)
StoreAfter(p, n) ==
  FoldLeft(LAMBDA store, id : executeCommand(store, log[p][id].cmd), kv[p],
           SubSeq(toExecute[p], 1, n))

(* The result of the i-th of them.  Stale: a read sees none of them.       *)
KVResultStale(p, i) ==
  LET cmd == log[p][toExecute[p][i]].cmd IN
  (IF cmd.Writing THEN StoreAfter(p, i) ELSE kv[p])[cmd.Key]

KVResult(p, i) == StoreAfter(p, i)[log[p][toExecute[p][i]].cmd.Key]

(* handleExecutedCmds, when sendAll has returned: every command is         *)
(* executed, and answered if it is registered.                             *)
handleExecutedCmds(p) ==
  LET cmds == [i \in DOMAIN toExecute[p] |-> log[p][toExecute[p][i]].cmd]
      own == Range(cmds) \cap pending[p]
      value(c) == KVResult(p, CHOOSE i \in DOMAIN cmds : cmds[i] = c)
  IN  /\ p \notin down /\ busy[p]
      /\ unsent[p] = <<>> /\ waiting[p] = 0
      /\ kv' = [kv EXCEPT ![p] = StoreAfter(p, Len(cmds))]
      /\ pending' = [pending EXCEPT ![p] = @ \ own]
      /\ calls' = [c \in Command |->
           IF c \in own THEN [calls[c] EXCEPT !.at = "answered", !.value = value(c)]
           ELSE calls[c]]
      /\ busy' = [busy EXCEPT ![p] = FALSE]
      /\ toExecute' = [toExecute EXCEPT ![p] = <<>>]
      /\ UNCHANGED <<nodeVars, unsent, waiting, streams, msgC, reqC, unavail, down>>

(* A server goes down for good.                                            *)
Fail(p) ==
  /\ p \in MayFail \ down
  /\ down' = down \cup {p}
  /\ UNCHANGED <<nodeVars, loopVars, clientVars, msgC, reqC, unavail>>

-----------------------------------------------------------------------------
LoopStep(p) ==
  \/ LoopTick(p) \/ LoopMsg(p) \/ LoopRequest(p) \/ LoopReady(p)
  \/ \E q \in Nodes : sendAllTo(p, q)
  \/ CloseAndRecv(p) \/ handleExecutedCmds(p)

HandlerStep(p) == \E i \in DOMAIN streams[p] : DeliverMessage(p, i)

ClientStep(p) == \E c \in Command : ReadOrWrite(p, c)

(* A cluster without failures.                                             *)
ServerNext == \E p \in Nodes : LoopStep(p) \/ HandlerStep(p) \/ ClientStep(p)

ServerSpec == ServerInit /\ [][ServerNext]_serverVars

(* A cluster in which servers go down.  The servers that are up go on:     *)
(* every loop takes what is ready and every handler passes on what it      *)
(* receives.                                                               *)
FailingLoopStep(p) == LoopStep(p) \/ \E q \in Nodes : SendFailed(p, q)

FailingNext ==
  \E p \in Nodes : FailingLoopStep(p) \/ HandlerStep(p) \/ ClientStep(p) \/ Fail(p)

FailingSpec ==
  /\ ServerInit /\ [][FailingNext]_serverVars
  /\ \A p \in Nodes :
       /\ WF_serverVars(FailingLoopStep(p))
       /\ WF_serverVars(p \notin down /\ HandlerStep(p))

-----------------------------------------------------------------------------
(* Properties.                                                             *)

(* Every request that was made at a server that stays up is answered some  *)
(* time later: the loops do not wait for each other for ever, over streams *)
(* into channels that only the loops empty.                                *)
RequestsAnswered ==
  <>[](\A p \in Nodes \ down : \A c \in Workload[p] : calls[c].at # "waiting")

(* In the end the stores of all servers are equal and hold the effect of   *)
(* every request: each server receives every Commit, and takes and         *)
(* executes what its node executed.                                        *)
StoresConverge ==
  <>[](\A p \in Nodes :
         /\ kv[p] = kv[1]
         /\ \A c \in Answered : \E i \in DOMAIN taken[p] : log[p][taken[p][i]].cmd = c)

(* What a client is answered is what every server gets that executes the  *)
(* command: its key has the value of the last write executed before it, or *)
(* none.  All the commands of a Ready are executed, in the order of the    *)
(* executor, before the next Ready is taken.                               *)
AnswersConsistent ==
  \A p \in Nodes : \A i \in DOMAIN executed[p] :
    LET cmd(j) == log[p][executed[p][j]].cmd
        writes == {j \in 1..i : cmd(j).Writing /\ cmd(j).Key = cmd(i).Key}
    IN  cmd(i) \in Answered =>
          calls[cmd(i)].value = IF writes = {} THEN NoValue ELSE cmd(Max(writes)).ID

=============================================================================
