------------------------------ MODULE MCEPaxos ------------------------------
(***************************************************************************)
(* Instances of EPaxos for the model checker: clusters of two to five      *)
(* replicas, workloads of writes and range writes, and restarts.           *)
(***************************************************************************)
EXTENDS EPaxos

Write(i, k) == [ID |-> i, Key |-> k, EndKey |-> NoKey, Writing |-> TRUE]
WriteRange(i, k, m) == [ID |-> i, Key |-> k, EndKey |-> m, Writing |-> TRUE]

Read(i, k) == [ID |-> i, Key |-> k, EndKey |-> NoKey, Writing |-> FALSE]

Two == 1..2
Three == 1..3
Four == 1..4
Five == 1..5

(* The commands of replica 1 and of replica 2; the others propose nothing. *)
Load(nodes, first, second) ==
  [p \in nodes |-> CASE p = 1 -> first [] p = 2 -> second [] OTHER -> {}]

AllCommands == {Write(1, 1), Write(2, 1), Write(3, 1), Write(4, 2), WriteRange(5, 1, 3),
                Read(6, 1)}

KeysAndRangeOfTwo ==
  Load(Two, {Write(1, 1), Write(2, 1), Write(4, 2)}, {WriteRange(5, 1, 3)})
OneAndOneOfThree == Load(Three, {Write(1, 1)}, {Write(3, 1)})
TwoAndOneOfThree == Load(Three, {Write(1, 1), Write(2, 1)}, {Write(3, 1)})
OneAndOneOfFour == Load(Four, {Write(1, 1)}, {Write(3, 1)})
OneOfFive == Load(Five, {Write(1, 1)}, {})

NoRestarts == [p \in Nodes |-> 0]
RestartOf(S) == [p \in Nodes |-> IF p \in S THEN 1 ELSE 0]
RestartFifth == RestartOf({5})
RestartFollower == RestartOf({3})
RestartEither == RestartOf({1, 3})

(* Schedules in which one replica restarts.                                *)
OneRestart == \A p, q \in Nodes : p # q => epoch[p] + epoch[q] <= 1

(* Schedules in which replica 3 hears of nothing but instance <<1, 2>>.    *)
SlowThird == \A id \in InstanceID : id # <<1, 2>> => log[3][id].status = "None"

(* A message that its receiver ignores and will go on ignoring, the leader *)
(* state of a decided instance and the storage of a replica that will not  *)
(* restart change nothing any more: states that differ in nothing else     *)
(* have the same future.  In every instance at most one replica restarts.  *)
(* (The two equations only have TLC bring these values into normal form.)  *)
MayRestart(p) == epoch[p] < MaxRestarts[p] /\ \A q \in Nodes \ {p} : epoch[q] = 0
Pending == {m \in msgs : MayRestart(m.to) \/ log[m.to][m.id].status \in HandledIn(m.type)}
Leading == [id \in InstanceID |->
              CASE log[id[1]][id].status = "PreAccepted" -> lead[id]
                [] log[id[1]][id].status = "Accepted" -> <<lead[id].acceptReplies>>
                [] OTHER -> <<>>]
Durable == [p \in Nodes |-> IF MayRestart(p) THEN stored[p] ELSE <<>>]
View == <<log, Leading, Pending, Durable, executed, epoch, crashed,
          stored = stored, lead = lead>>
=============================================================================
