---------------------------- MODULE EPaxosVotes -----------------------------
(***************************************************************************)
(* The votes of the replicas for the dependencies of an instance, as long  *)
(* as no replica restarts: what every replica answers to a PreAccept, what *)
(* the leader counts, and the handlers that keep the votes ordered without *)
(* casting one.  The theorem they serve is in EPaxosOrder.                 *)
(***************************************************************************)
EXTENDS EPaxosProofs

-----------------------------------------------------------------------------
(* The votes for an instance.  As long as no replica restarts, the command *)
(* of an instance is the one its leader proposed, every replica answers    *)
(* its PreAccept at most once, and the leader counts the answers of        *)
(* different replicas.                                                     *)

(* The command, the dependencies and the existence of an instance are what *)
(* its leader says they are.                                               *)
Started(y) == log[y[1]][y].status # "None"

Cmd(y) == log[y[1]][y].cmd

Deps(y) == log[y[1]][y].deps

(* Replica q took instance y and its command into its log.                 *)
Holds(q, y) == log[q][y].status # "None" /\ log[q][y].cmd # Nil

PreAcceptAnswers == {"PreAcceptOK", "PreAcceptReply"}

(* The dependencies that an answer to a PreAccept speaks for: the ones it  *)
(* carries, or the ones the leader has when it carries none.               *)
Said(m) == IF m.type = "PreAcceptOK" THEN Deps(m.id) ELSE m.deps

(* The dependencies D order their instance behind y.                       *)
Covers(D, y) ==
  \E d \in D : /\ Started(d)
               /\ d = y \/ (d[1] = y[1] /\ d[2] > y[2] /\ Interferes(Cmd(d), Cmd(y)))

(* The votes of replica q for instance y, when the leader of each instance *)
(* counted the replicas Q: the leader's dependencies once it counted q,    *)
(* and before that what the answer on its way says.                        *)
Votes(Q, q, y) ==
  {D \in {Deps(y)} : q \in Q[y]} \cup
  {Said(m) : m \in {n \in msgs : n.type \in PreAcceptAnswers /\ n.from = q /\ n.id = y}}

(* An instance has one command, everywhere.                                *)
OneCommand ==
  /\ \A y \in InstanceID :
       /\ ~ Started(y) => /\ \A q \in Nodes : log[q][y].status = "None"
                         /\ \A m \in msgs : m.id # y
       /\ Started(y) => Cmd(y) # Nil
       /\ \A q \in Nodes : log[q][y].cmd # Nil => Started(y) /\ log[q][y].cmd = Cmd(y)
  /\ \A m \in msgs : m.type \in {"PreAccept", "Commit"} => m.cmd = Cmd(m.id)

(* A replica has at most one of: a PreAccept to answer, an answer on its   *)
(* way, a place among the replicas counted.                                *)
OneAnswer(Q) ==
  /\ \A y \in InstanceID :
       /\ ~ Started(y) => Q[y] = {}
       /\ Started(y) => y[1] \in Q[y]
       /\ \A q \in Q[y] : Holds(q, y)
  /\ \A m \in msgs :
       /\ m.type = "PreAccept" => m.to \notin Q[m.id] /\ m.deps \subseteq Deps(m.id)
       /\ m.type \in PreAcceptAnswers => m.from \notin Q[m.id] /\ Holds(m.from, m.id)
  /\ \A m, n \in msgs : m.id = n.id =>
       /\ m.type = "PreAccept" /\ n.type = "PreAccept" /\ m.to = n.to => m = n
       /\ m.type \in PreAcceptAnswers /\ n.type \in PreAcceptAnswers /\ m.from = n.from
            => m = n
       /\ m.type = "PreAccept" /\ n.type \in PreAcceptAnswers => m.to # n.from

(* The count of a preaccepted instance is right, and the others passed a   *)
(* quorum.                                                                 *)
CountedAt(Q, y) ==
  /\ ~ Started(y) => lead[y].preAcceptReplies = 0
  /\ log[y[1]][y].status = "PreAccepted" =>
       Cardinality(Q[y]) = lead[y].preAcceptReplies + 1
  /\ log[y[1]][y].status \in {"Accepted", "Committed", "Executed"} =>
       quorum(Cardinality(Q[y]))

Counted(Q) == \A y \in InstanceID : CountedAt(Q, y)

(* What a replica votes for two interfering instances orders one behind    *)
(* the other: when it voted for the second it knew the first.              *)
VotesOrdered(Q) ==
  \A q \in Nodes, x, y \in InstanceID :
    \A D \in Votes(Q, q, x), E \in Votes(Q, q, y) :
      x # y /\ Interferes(Cmd(x), Cmd(y)) => Covers(D, y) \/ Covers(E, x)

(* A leader orders its own interfering instances as it starts them: the    *)
(* later one depends on the earlier one, or on one between them that       *)
(* interferes with the earlier one.                                        *)
OwnOrdered ==
  \A x, y \in InstanceID :
    /\ x[1] = y[1] /\ y[2] < x[2]
    /\ Started(x) /\ Started(y) /\ Interferes(Cmd(y), Cmd(x))
    => \E d \in Deps(x) : /\ d[1] = y[1] /\ d[2] < x[2] /\ Started(d)
                          /\ d = y \/ (d[2] > y[2] /\ Interferes(Cmd(d), Cmd(y)))

VoteInv(Q) == OneCommand /\ OneAnswer(Q) /\ Counted(Q) /\ VotesOrdered(Q) /\ OwnOrdered

(* Requests go to the followers and replies to the leader.                 *)
Routed ==
  \A m \in msgs : /\ m.type \in Requests => m.to # m.id[1]
                  /\ m.type \in Replies => m.to = m.id[1]

(* The leader of an instance is a replica.                                 *)
LEMMA LeaderNode == \A y \in InstanceID : y[1] \in Nodes
BY DEF InstanceID

(* The members of Votes.                                                   *)
LEMMA VotesMember ==
  ASSUME NEW Q, NEW q, NEW y, NEW D
  PROVE  D \in Votes(Q, q, y) <=>
           \/ q \in Q[y] /\ D = Deps(y)
           \/ \E m \in msgs : /\ m.type \in PreAcceptAnswers /\ m.from = q /\ m.id = y
                              /\ D = Said(m)
BY Zenon DEF Votes

(* The members of Votes after a step.                                      *)
LEMMA VotesMemberNext ==
  ASSUME NEW Q, NEW q, NEW y, NEW D
  PROVE  D \in Votes(Q, q, y)' <=>
           \/ q \in Q[y] /\ D = Deps(y)'
           \/ \E m \in msgs' : /\ m.type \in PreAcceptAnswers /\ m.from = q /\ m.id = y
                               /\ D = Said(m)'
BY Zenon DEF Votes

(* A replica that voted for an instance holds it.                          *)
LEMMA VoterHolds ==
  ASSUME TypeOK, NEW Q, VoteInv(Q), NEW q \in Nodes, NEW y \in InstanceID,
         NEW D \in Votes(Q, q, y)
  PROVE  Holds(q, y) /\ Started(y) /\ log[q][y].cmd = Cmd(y) /\ D \subseteq InstanceID
<1>1. Holds(q, y)
  BY VotesMember DEF VoteInv, OneAnswer
<1>2. Started(y) /\ log[q][y].cmd = Cmd(y)
  BY <1>1 DEF VoteInv, OneCommand, Holds
<1>3. \A m \in msgs : m.deps \subseteq InstanceID BY DEF TypeOK, Message
<1>4. \A z \in InstanceID : Deps(z) \subseteq InstanceID
  BY LeaderNode DEF TypeOK, InstanceState, Deps
<1>5. D \subseteq InstanceID BY <1>3, <1>4, VotesMember DEF Said
<1> QED BY <1>1, <1>2, <1>5

(* Votes stay ordered in a step in which dependencies only grow and a new  *)
(* vote is ordered behind every interfering instance its replica votes for. *)
LEMMA VotesGrow ==
  ASSUME NEW Q, NEW Q2, VotesOrdered(Q),
         \A q \in Nodes, y \in InstanceID : \A D : D \in Votes(Q, q, y) =>
           Started(y) /\ D \subseteq InstanceID,
         \A d \in InstanceID : Started(d) => Started(d)' /\ Cmd(d)' = Cmd(d),
         \A q \in Nodes, y \in InstanceID : \A D : D \in Votes(Q2, q, y)' =>
           \/ \E E \in Votes(Q, q, y) : E \subseteq D
           \/ \A x \in InstanceID : \A E \in Votes(Q2, q, x)' :
                /\ x # y
                /\ Interferes(Cmd(x), Cmd(y))' \/ Interferes(Cmd(y), Cmd(x))'
                => Covers(D, x)'
  PROVE  VotesOrdered(Q2)'
<1> SUFFICES ASSUME NEW q \in Nodes, NEW x \in InstanceID, NEW y \in InstanceID,
                    NEW D \in Votes(Q2, q, x)', NEW E \in Votes(Q2, q, y)',
                    x # y, Interferes(Cmd(x), Cmd(y))'
             PROVE  Covers(D, y)' \/ Covers(E, x)'
  BY DEF VotesOrdered
<1>1. \A z \in InstanceID : \A S, T :
        S \subseteq InstanceID /\ S \subseteq T /\ Started(z) /\ Covers(S, z) => Covers(T, z)'
  BY DEF Covers
<1>2. CASE /\ \E D1 \in Votes(Q, q, x) : D1 \subseteq D
           /\ \E E1 \in Votes(Q, q, y) : E1 \subseteq E
  <2>1. PICK D1 \in Votes(Q, q, x) : D1 \subseteq D BY <1>2
  <2>2. PICK E1 \in Votes(Q, q, y) : E1 \subseteq E BY <1>2
  <2>3. Started(x) /\ Started(y) /\ D1 \subseteq InstanceID /\ E1 \subseteq InstanceID
    BY <2>1, <2>2
  <2>4. Interferes(Cmd(x), Cmd(y)) BY <2>3
  <2>5. Covers(D1, y) \/ Covers(E1, x) BY <2>4 DEF VotesOrdered
  <2> QED BY <1>1, <2>1, <2>2, <2>3, <2>5
<1>3. CASE ~ \E D1 \in Votes(Q, q, x) : D1 \subseteq D
  BY <1>3
<1>4. CASE ~ \E E1 \in Votes(Q, q, y) : E1 \subseteq E
  BY <1>4
<1> QED BY <1>2, <1>3, <1>4

(* The own instances of a leader stay ordered in a step in which           *)
(* dependencies only grow and no instance is started.                      *)
LEMMA OwnGrows ==
  ASSUME TypeOK, OwnOrdered,
         \A y \in InstanceID : /\ Started(y)' <=> Started(y)
                               /\ Cmd(y)' = Cmd(y) /\ Deps(y) \subseteq Deps(y)'
  PROVE  OwnOrdered'
<1> SUFFICES ASSUME NEW x \in InstanceID, NEW y \in InstanceID, x[1] = y[1], y[2] < x[2],
                    Started(x)', Started(y)', Interferes(Cmd(y), Cmd(x))'
             PROVE  \E d \in Deps(x)' :
                      /\ d[1] = y[1] /\ d[2] < x[2] /\ Started(d)'
                      /\ d = y \/ (d[2] > y[2] /\ Interferes(Cmd(d), Cmd(y))')
  BY DEF OwnOrdered
<1>1. Deps(x) \subseteq InstanceID BY LeaderNode DEF TypeOK, InstanceState, Deps
<1>2. Started(x) /\ Started(y) /\ Interferes(Cmd(y), Cmd(x)) OBVIOUS
<1>3. PICK d \in Deps(x) : /\ d[1] = y[1] /\ d[2] < x[2] /\ Started(d)
                           /\ d = y \/ (d[2] > y[2] /\ Interferes(Cmd(d), Cmd(y)))
  BY <1>2 DEF OwnOrdered
<1>4. d \in InstanceID BY <1>1
<1>5. d \in Deps(x)' /\ Started(d)' /\ Cmd(d)' = Cmd(d) /\ Cmd(y)' = Cmd(y) BY <1>3, <1>4
<1> QED BY <1>3, <1>5

(* A step that creates no vote: logs change without losing an instance or  *)
(* its command, leaders' dependencies grow, and a leader that counts a     *)
(* replica does so for an answer that it takes from msgs.                  *)
LEMMA NoNewVote ==
  ASSUME TypeOK, NEW Q \in [InstanceID -> SUBSET Nodes], VoteInv(Q),
         NEW Q2 \in [InstanceID -> SUBSET Nodes],
         \A y \in InstanceID : /\ Started(y)' <=> Started(y)
                               /\ Cmd(y)' = Cmd(y) /\ Deps(y) \subseteq Deps(y)',
         \A q \in Nodes, y \in InstanceID :
           /\ Holds(q, y) => Holds(q, y)'
           /\ log'[q][y].cmd \in {log[q][y].cmd, Cmd(y)}
           /\ ~ Started(y) => log'[q][y].status = "None",
         \A m \in msgs' :
           \/ m \in msgs
           \/ /\ m.type \notin {"PreAccept", "PreAcceptOK", "PreAcceptReply"}
              /\ m.id \in InstanceID /\ Started(m.id)
              /\ m.type = "Commit" => m.cmd = Cmd(m.id),
         \A y \in InstanceID : Q[y] \subseteq Q2[y],
         \A y \in InstanceID : \A q \in Q2[y] :
           \/ q \in Q[y]
           \/ \E m \in msgs : /\ m \notin msgs'
                              /\ m.type \in PreAcceptAnswers /\ m.from = q /\ m.id = y
                              /\ Said(m) \subseteq Deps(y)',
         Counted(Q2)'
  PROVE  VoteInv(Q2)'
<1> USE LeaderNode
<1>1. \A m \in msgs : m.id \in InstanceID /\ m.from \in Nodes /\ m.to \in Nodes
  BY DEF TypeOK, Message
<1>2. OneCommand'
  <2>1. ASSUME NEW y \in InstanceID, ~ Started(y)'
        PROVE  /\ \A q \in Nodes : log'[q][y].status = "None"
               /\ \A m \in msgs' : m.id # y
    BY <2>1 DEF VoteInv, OneCommand
  <2>2. ASSUME NEW y \in InstanceID, Started(y)' PROVE Cmd(y)' # Nil
    BY <2>2 DEF VoteInv, OneCommand
  <2>3. ASSUME NEW y \in InstanceID, NEW q \in Nodes, log'[q][y].cmd # Nil
        PROVE  Started(y)' /\ log'[q][y].cmd = Cmd(y)'
    <3>1. Cmd(y) # Nil => Started(y) BY DEF VoteInv, OneCommand, Cmd
    <3> QED BY <2>3, <3>1 DEF VoteInv, OneCommand
  <2>4. ASSUME NEW m \in msgs', m.type \in {"PreAccept", "Commit"}
        PROVE  m.cmd = Cmd(m.id)'
    BY <1>1, <2>4 DEF VoteInv, OneCommand
  <2> QED BY <2>1, <2>2, <2>3, <2>4 DEF OneCommand
<1>3. \A m \in msgs' : m.type \in {"PreAccept"} \cup PreAcceptAnswers =>
        m \in msgs /\ m.id \in InstanceID /\ m.from \in Nodes /\ m.to \in Nodes
  BY <1>1 DEF PreAcceptAnswers
<1>4. OneAnswer(Q2)'
  <2>1. ASSUME NEW y \in InstanceID
        PROVE  /\ ~ Started(y)' => Q2[y] = {}
               /\ Started(y)' => y[1] \in Q2[y]
               /\ \A q \in Q2[y] : Holds(q, y)'
    <3>1. \A q \in Q2[y] : Holds(q, y)
      BY DEF VoteInv, OneAnswer
    <3>2. \A q \in Q2[y] : Started(y) BY <3>1 DEF VoteInv, OneCommand, Holds
    <3> QED BY <3>1, <3>2 DEF VoteInv, OneAnswer
  <2>2. ASSUME NEW m \in msgs'
        PROVE  /\ m.type = "PreAccept" => m.to \notin Q2[m.id] /\ m.deps \subseteq Deps(m.id)'
               /\ m.type \in PreAcceptAnswers => m.from \notin Q2[m.id] /\ Holds(m.from, m.id)'
    <3>1. CASE m.type = "PreAccept"
      <4>1. m \in msgs /\ m.id \in InstanceID /\ m.from \in Nodes /\ m.to \in Nodes
        BY <1>3, <3>1
      <4>2. m.to \notin Q[m.id] /\ m.deps \subseteq Deps(m.id)
        BY <3>1, <4>1 DEF VoteInv, OneAnswer
      <4>3. \A n \in msgs : n.type \in PreAcceptAnswers /\ n.id = m.id => n.from # m.to
        BY <3>1, <4>1 DEF VoteInv, OneAnswer
      <4> QED BY <3>1, <4>1, <4>2, <4>3 DEF PreAcceptAnswers
    <3>2. CASE m.type \in PreAcceptAnswers
      <4>1. m \in msgs /\ m.id \in InstanceID /\ m.from \in Nodes /\ m.to \in Nodes
        BY <1>3, <3>2
      <4>2. m.from \notin Q[m.id] /\ Holds(m.from, m.id)
        BY <3>2, <4>1 DEF VoteInv, OneAnswer
      <4>3. \A n \in msgs : n.type \in PreAcceptAnswers /\ n.id = m.id /\ n.from = m.from => n = m
        BY <3>2, <4>1 DEF VoteInv, OneAnswer
      <4> QED BY <3>2, <4>1, <4>2, <4>3 DEF PreAcceptAnswers
    <3> QED BY <3>1, <3>2
  <2>3. ASSUME NEW m \in msgs', NEW n \in msgs', m.id = n.id
        PROVE  /\ m.type = "PreAccept" /\ n.type = "PreAccept" /\ m.to = n.to => m = n
               /\ m.type \in PreAcceptAnswers /\ n.type \in PreAcceptAnswers /\ m.from = n.from
                    => m = n
               /\ m.type = "PreAccept" /\ n.type \in PreAcceptAnswers => m.to # n.from
    BY <1>3, <2>3 DEF VoteInv, OneAnswer
  <2> QED BY <2>1, <2>2, <2>3 DEF OneAnswer
<1>5. VotesOrdered(Q2)'
  <2>1. ASSUME NEW q \in Nodes, NEW y \in InstanceID, NEW D, D \in Votes(Q2, q, y)'
        PROVE  \E E \in Votes(Q, q, y) : E \subseteq D
    <3>1. \/ q \in Q2[y] /\ D = Deps(y)'
          \/ \E m \in msgs' : /\ m.type \in PreAcceptAnswers /\ m.from = q /\ m.id = y
                              /\ D = Said(m)'
      BY <2>1, VotesMemberNext
    <3>2. CASE q \in Q[y] /\ D = Deps(y)'
      BY Zenon, <3>2, VotesMember
    <3>3. ASSUME NEW m \in msgs, m.type \in PreAcceptAnswers, m.from = q, m.id = y,
                 Said(m) \subseteq D
          PROVE  \E E \in Votes(Q, q, y) : E \subseteq D
      BY Zenon, <3>3, VotesMember
    <3>4. CASE q \in Q2[y] /\ D = Deps(y)' /\ q \notin Q[y]
      BY <3>3, <3>4
    <3>5. ASSUME NEW m \in msgs', m.type \in PreAcceptAnswers, m.from = q, m.id = y,
                 D = Said(m)'
          PROVE  m \in msgs /\ Said(m) \subseteq D
      BY <1>3, <3>5 DEF Said
    <3> QED BY <3>1, <3>2, <3>3, <3>4, <3>5
  <2>2. \A q \in Nodes, y \in InstanceID : \A D : D \in Votes(Q, q, y) =>
          Started(y) /\ D \subseteq InstanceID
    BY VoterHolds
  <2>3. VotesOrdered(Q) BY DEF VoteInv
  <2>4. \A d \in InstanceID : Started(d) => Started(d)' /\ Cmd(d)' = Cmd(d)
    OBVIOUS
  <2>5. \A q \in Nodes, y \in InstanceID : \A D : D \in Votes(Q2, q, y)' =>
          \/ \E E \in Votes(Q, q, y) : E \subseteq D
          \/ \A x \in InstanceID : \A E \in Votes(Q2, q, x)' :
               /\ x # y
               /\ Interferes(Cmd(x), Cmd(y))' \/ Interferes(Cmd(y), Cmd(x))'
               => Covers(D, x)'
    BY <2>1
  <2> QED BY ONLY <2>2, <2>3, <2>4, <2>5, VotesGrow
<1>6. OwnOrdered' BY OwnGrows DEF VoteInv
<1> QED BY <1>2, <1>4, <1>5, <1>6 DEF VoteInv

(* The steps of a replica p that keep the commands and the existence of    *)
(* the instances in its log, and shrink no dependencies of its own ones.   *)
LEMMA LeaderMoves ==
  ASSUME TypeOK, NEW Q \in [InstanceID -> SUBSET Nodes], VoteInv(Q),
         NEW Q2 \in [InstanceID -> SUBSET Nodes], NEW p \in Nodes,
         \A q \in Nodes : q # p => log'[q] = log[q],
         \A y \in InstanceID :
           /\ log'[p][y].cmd = log[p][y].cmd
           /\ log'[p][y].status = "None" <=> log[p][y].status = "None"
           /\ log[p][y].deps \subseteq log'[p][y].deps,
         \A m \in msgs' :
           \/ m \in msgs
           \/ /\ m.type \notin {"PreAccept", "PreAcceptOK", "PreAcceptReply"}
              /\ m.id \in InstanceID /\ Started(m.id)
              /\ m.type = "Commit" => m.cmd = Cmd(m.id),
         \A y \in InstanceID : Q[y] \subseteq Q2[y],
         \A y \in InstanceID : \A q \in Q2[y] :
           \/ q \in Q[y]
           \/ \E m \in msgs : /\ m \notin msgs'
                              /\ m.type \in PreAcceptAnswers /\ m.from = q /\ m.id = y
                              /\ Said(m) \subseteq Deps(y)',
         Counted(Q2)'
  PROVE  VoteInv(Q2)'
<1>1. \A y \in InstanceID : /\ Started(y)' <=> Started(y)
                            /\ Cmd(y)' = Cmd(y) /\ Deps(y) \subseteq Deps(y)'
  BY LeaderNode DEF Started, Cmd, Deps
<1>2. \A q \in Nodes, y \in InstanceID :
        /\ Holds(q, y) => Holds(q, y)'
        /\ log'[q][y].cmd \in {log[q][y].cmd, Cmd(y)}
        /\ ~ Started(y) => log'[q][y].status = "None"
  <2>1. \A q \in Nodes, y \in InstanceID : ~ Started(y) => log[q][y].status = "None"
    BY DEF VoteInv, OneCommand
  <2> QED BY <2>1 DEF Holds
<1> QED BY <1>1, <1>2, NoNewVote

(* Steps that leave the logs and the counts of answers as they are, and    *)
(* send nothing.                                                           *)
LEMMA VotesUntouched ==
  ASSUME TypeOK, NEW Q \in [InstanceID -> SUBSET Nodes], VoteInv(Q),
         UNCHANGED log, msgs' \subseteq msgs,
         \A y \in InstanceID : lead'[y].preAcceptReplies = lead[y].preAcceptReplies
  PROVE  VoteInv(Q)'
<1>1. Counted(Q)' BY DEF VoteInv, Counted, CountedAt, Started
<1>2. \A y \in InstanceID : /\ Started(y)' <=> Started(y)
                            /\ Cmd(y)' = Cmd(y) /\ Deps(y) \subseteq Deps(y)'
  BY DEF Started, Cmd, Deps
<1>3. \A q \in Nodes, y \in InstanceID :
        /\ Holds(q, y) => Holds(q, y)'
        /\ log'[q][y].cmd \in {log[q][y].cmd, Cmd(y)}
        /\ ~ Started(y) => log'[q][y].status = "None"
  BY DEF VoteInv, OneCommand, Holds
<1> QED BY <1>1, <1>2, <1>3, NoNewVote

(* What transitionTo(Committed) of a leader's instance does to the logs.   *)
LEMMA CommitEffect ==
  ASSUME TypeOK, NEW p \in Nodes, NEW id \in InstanceID, NEW is \in InstanceState,
         NEW rest, Commit(p, id, is, rest)
  PROVE  /\ \A q \in Nodes : q # p => log'[q] = log[q]
         /\ \A y \in InstanceID : y # id =>
              /\ SameData(log'[p][y], log[p][y])
              /\ \/ log'[p][y].status = log[p][y].status
                 \/ log[p][y].status = "Committed" /\ log'[p][y].status = "Executed"
         /\ SameData(log'[p][id], is) /\ log'[p][id].status \in {"Committed", "Executed"}
         /\ msgs' = rest \cup Broadcast("Commit", id, is, epoch[p])
<1> DEFINE l == [log[p] EXCEPT ![id] = [is EXCEPT !.status = "Committed"]]
<1>1. l \in [InstanceID -> InstanceState] BY ZenonT(30) DEF TypeOK, InstanceState, Status
<1>2. prepareToExecute(p, l, {id}) /\ msgs' = rest \cup Broadcast("Commit", id, is, epoch[p])
  BY DEF Commit
<1>3. /\ \A y \in InstanceID : y # id => l[y] = log[p][y]
      /\ l[id].status = "Committed" /\ SameData(l[id], is)
  BY DEF TypeOK, InstanceState, SameData
<1> HIDE DEF l
<1>4. /\ \A q \in Nodes : q # p => log'[q] = log[q]
      /\ \A y \in InstanceID :
           /\ SameData(log'[p][y], l[y])
           /\ \/ log'[p][y] = l[y]
              \/ l[y].status = "Committed" /\ log'[p][y].status = "Executed"
  BY <1>1, <1>2, PrepareToExecute
<1> QED BY <1>2, <1>3, <1>4 DEF SameData

(* The fields of a broadcast message.                                      *)
LEMMA BroadcastFields ==
  ASSUME NEW type, NEW id, NEW is, NEW e, NEW m \in Broadcast(type, id, is, e)
  PROVE  /\ m.type = type /\ m.id = id /\ m.from = id[1] /\ m.to \in Nodes /\ m.to # id[1]
         /\ m.cmd = (IF type = "Accept" THEN Nil ELSE is.cmd)
         /\ m.seq = is.seq /\ m.deps = is.deps /\ m.epoch = e
BY DEF Broadcast

(* onAccept counts nothing and votes for nothing.                          *)
LEMMA VotesAccept ==
  ASSUME TypeOK, Routed, NEW Q \in [InstanceID -> SUBSET Nodes], VoteInv(Q),
         NEW m \in msgs, onAccept(m)
  PROVE  VoteInv(Q)'
<1>1. /\ m.to \in Nodes /\ m.id \in InstanceID /\ m.type = "Accept" /\ m.to # m.id[1]
      /\ m.id[1] \in Nodes
  BY LeaderNode DEF TypeOK, Message, Routed, onAccept, Handles, Requests
<1>2. \A q \in Nodes, y \in InstanceID :
        IF q = m.to /\ y = m.id
        THEN log'[q][y].status = "Accepted" /\ log'[q][y].cmd = log[q][y].cmd
        ELSE log'[q][y] = log[q][y]
  <2> DEFINE is == [log[m.to][m.id] EXCEPT !.status = "Accepted", !.seq = m.seq, !.deps = m.deps]
  <2>1. log[m.to][m.id] \in InstanceState BY <1>1 DEF TypeOK
  <2>2. is.status = "Accepted" /\ is.cmd = log[m.to][m.id].cmd BY <2>1 DEF InstanceState
  <2>3. log' = [log EXCEPT ![m.to][m.id] = is] BY DEF onAccept
  <2> HIDE DEF is
  <2> QED BY <1>1, <2>2, <2>3 DEF TypeOK
<1>3. \A y \in InstanceID : log'[y[1]][y] = log[y[1]][y]
  BY <1>1, <1>2, LeaderNode
<1>4. \A y \in InstanceID : /\ Started(y)' <=> Started(y)
                            /\ Cmd(y)' = Cmd(y) /\ Deps(y) \subseteq Deps(y)'
  BY <1>3 DEF Started, Cmd, Deps
<1>5. Started(m.id) BY <1>1 DEF VoteInv, OneCommand
<1>6. \A q \in Nodes, y \in InstanceID :
        /\ Holds(q, y) => Holds(q, y)'
        /\ log'[q][y].cmd \in {log[q][y].cmd, Cmd(y)}
        /\ ~ Started(y) => log'[q][y].status = "None"
  BY <1>2, <1>5 DEF VoteInv, OneCommand, Holds
<1>7. Counted(Q)'
  BY Zenon, <1>3 DEF VoteInv, Counted, CountedAt, Started, onAccept
<1>8. \A n \in msgs' : \/ n \in msgs
                       \/ /\ n.type \notin {"PreAccept", "PreAcceptOK", "PreAcceptReply"}
                          /\ n.id \in InstanceID /\ Started(n.id)
                          /\ n.type = "Commit" => n.cmd = Cmd(n.id)
  BY <1>1, <1>5 DEF onAccept, Reply
<1> QED BY <1>4, <1>6, <1>7, <1>8, NoNewVote

(* onCommit brings the command of its instance.                            *)
LEMMA VotesCommit ==
  ASSUME TypeOK, Routed, NEW Q \in [InstanceID -> SUBSET Nodes], VoteInv(Q),
         NEW m \in msgs, onCommit(m)
  PROVE  VoteInv(Q)'
<1> DEFINE l == [log[m.to] EXCEPT ![m.id] = [status |-> "Committed", cmd |-> m.cmd,
                                             seq |-> m.seq, deps |-> m.deps]]
<1>1. /\ m.to \in Nodes /\ m.id \in InstanceID /\ m.type = "Commit" /\ m.to # m.id[1]
      /\ m.id[1] \in Nodes
  BY LeaderNode DEF TypeOK, Message, Routed, onCommit, Handles, Requests
<1>2. l \in [InstanceID -> InstanceState] BY DEF TypeOK, Message, InstanceState, Status
<1>3. /\ \A y \in InstanceID : y # m.id => l[y] = log[m.to][y]
      /\ l[m.id].status = "Committed" /\ l[m.id].cmd = m.cmd
  BY <1>1 DEF TypeOK
<1>4. prepareToExecute(m.to, l, {}) /\ msgs' = msgs \ {m} /\ UNCHANGED lead
  BY DEF onCommit
<1> HIDE DEF l
<1>5. /\ \A q \in Nodes : q # m.to => log'[q] = log[q]
      /\ \A y \in InstanceID :
           /\ SameData(log'[m.to][y], l[y])
           /\ \/ log'[m.to][y] = l[y]
              \/ l[y].status = "Committed" /\ log'[m.to][y].status = "Executed"
  BY <1>1, <1>2, <1>4, PrepareToExecute
<1>6. Started(m.id) /\ m.cmd = Cmd(m.id) /\ m.cmd # Nil
  BY <1>1 DEF VoteInv, OneCommand
<1>7. \A y \in InstanceID :
        /\ SameData(log'[y[1]][y], log[y[1]][y])
        /\ \/ log'[y[1]][y].status = log[y[1]][y].status
           \/ log[y[1]][y].status = "Committed" /\ log'[y[1]][y].status = "Executed"
  BY <1>1, <1>3, <1>5, LeaderNode DEF SameData
<1>8. \A y \in InstanceID : /\ Started(y)' <=> Started(y)
                            /\ Cmd(y)' = Cmd(y) /\ Deps(y) \subseteq Deps(y)'
  BY <1>7 DEF Started, Cmd, Deps, SameData
<1>9. ASSUME NEW q \in Nodes, NEW y \in InstanceID
      PROVE  /\ Holds(q, y) => Holds(q, y)'
             /\ log'[q][y].cmd \in {log[q][y].cmd, Cmd(y)}
             /\ ~ Started(y) => log'[q][y].status = "None"
  <2>1. ~ Started(y) => log[q][y].status = "None" BY DEF VoteInv, OneCommand
  <2>2. CASE q # m.to BY <1>5, <2>1, <2>2 DEF Holds
  <2>3. CASE q = m.to /\ y # m.id
    <3>1. /\ log'[q][y].cmd = log[q][y].cmd
          /\ \/ log'[q][y].status = log[q][y].status
             \/ log[q][y].status = "Committed" /\ log'[q][y].status = "Executed"
      BY <1>3, <1>5, <2>3 DEF SameData
    <3> QED BY <2>1, <3>1 DEF Holds
  <2>4. CASE q = m.to /\ y = m.id
    <3>1. log'[q][y].cmd = Cmd(y) /\ log'[q][y].status \in {"Committed", "Executed"}
      BY <1>3, <1>5, <1>6, <2>4 DEF SameData
    <3> QED BY <1>6, <2>4, <3>1 DEF Holds
  <2> QED BY <2>2, <2>3, <2>4
<1>10. Counted(Q)'
  BY <1>4, <1>7 DEF VoteInv, Counted, CountedAt, Started
<1> QED BY <1>4, <1>8, <1>9, <1>10, NoNewVote

(* A fast quorum that the leader and another replica belong to is a        *)
(* quorum.                                                                 *)
LEMMA FastIsQuorum ==
  ASSUME NEW n \in Nat, n >= 2, fastQuorum(n)
  PROVE  quorum(n)
<1>1. Cardinality(Nodes) \in Nat BY ConstantsAssumption, FS_CardinalityType
<1> QED BY <1>1 DEF fastQuorum, quorum

(* Counting a new replica counts one more.                                 *)
LEMMA CountOne ==
  ASSUME NEW S \in SUBSET Nodes, NEW q \in Nodes, q \notin S
  PROVE  /\ Cardinality(S) \in Nat
         /\ Cardinality(S \cup {q}) = Cardinality(S) + 1
<1>1. IsFiniteSet(S) BY Zenon, ConstantsAssumption, FS_Subset
<1> QED BY <1>1, FS_AddElement, FS_CardinalityType

(* onAcceptOK commits an instance that a quorum preaccepted.               *)
LEMMA VotesAcceptOK ==
  ASSUME TypeOK, Routed, NEW Q \in [InstanceID -> SUBSET Nodes], VoteInv(Q),
         NEW m \in msgs, onAcceptOK(m)
  PROVE  VoteInv(Q)'
<1>1. /\ m.to \in Nodes /\ m.id \in InstanceID /\ m.to = m.id[1]
      /\ log[m.to][m.id] \in InstanceState /\ log[m.to][m.id].status = "Accepted"
  BY DEF TypeOK, Message, Routed, onAcceptOK, Handles, HandledIn, Replies
<1>2. \A y \in InstanceID : lead'[y].preAcceptReplies = lead[y].preAcceptReplies
  BY <1>1 DEF onAcceptOK, TypeOK, LeaderState
<1>3. CASE msgs' = msgs \ {m} /\ UNCHANGED log
  BY <1>2, <1>3, VotesUntouched
<1>4. CASE Commit(m.to, m.id, log[m.to][m.id], msgs \ {m})
  <2>1. /\ \A q \in Nodes : q # m.to => log'[q] = log[q]
        /\ \A y \in InstanceID :
             /\ SameData(log'[m.to][y], log[m.to][y])
             /\ y # m.id => \/ log'[m.to][y].status = log[m.to][y].status
                            \/ /\ log[m.to][y].status = "Committed"
                               /\ log'[m.to][y].status = "Executed"
        /\ log'[m.to][m.id].status \in {"Committed", "Executed"}
        /\ msgs' = (msgs \ {m}) \cup Broadcast("Commit", m.id, log[m.to][m.id], epoch[m.to])
    BY <1>1, <1>4, CommitEffect
  <2>2. ASSUME NEW y \in InstanceID
        PROVE  /\ log'[m.to][y].cmd = log[m.to][y].cmd
               /\ log'[m.to][y].status = "None" <=> log[m.to][y].status = "None"
               /\ log[m.to][y].deps \subseteq log'[m.to][y].deps
    <3>1. SameData(log'[m.to][y], log[m.to][y]) BY <2>1
    <3>2. \/ log'[m.to][y].status = log[m.to][y].status
          \/ /\ log[m.to][y].status \in {"Accepted", "Committed"}
             /\ log'[m.to][y].status \in {"Committed", "Executed"}
      BY <1>1, <2>1
    <3> QED BY <3>1, <3>2 DEF SameData
  <2>3. Started(m.id) /\ Cmd(m.id) = log[m.to][m.id].cmd BY <1>1 DEF Started, Cmd
  <2>4. \A n \in msgs' : \/ n \in msgs
                         \/ /\ n.type \notin {"PreAccept", "PreAcceptOK", "PreAcceptReply"}
                            /\ n.id \in InstanceID /\ Started(n.id)
                            /\ n.type = "Commit" => n.cmd = Cmd(n.id)
    BY <1>1, <2>1, <2>3, BroadcastFields
  <2>5. Counted(Q)'
    <3> SUFFICES ASSUME NEW y \in InstanceID PROVE CountedAt(Q, y)'
      BY DEF Counted
    <3>1. \/ log'[y[1]][y].status = log[y[1]][y].status
          \/ /\ log[y[1]][y].status \in {"Accepted", "Committed"}
             /\ log'[y[1]][y].status \in {"Committed", "Executed"}
      BY Zenon, <1>1, <2>1, LeaderNode
    <3> QED BY <1>2, <3>1 DEF VoteInv, Counted, CountedAt, Started
  <2> QED BY Zenon, <1>1, <2>1, <2>2, <2>4, <2>5, LeaderMoves
<1> QED BY <1>3, <1>4 DEF onAcceptOK

(* A slow path timer takes an instance to Accepted that a quorum           *)
(* preaccepted.                                                            *)
LEMMA VotesTick ==
  ASSUME TypeOK, TimerDiscipline, NEW Q \in [InstanceID -> SUBSET Nodes], VoteInv(Q),
         NEW p \in Nodes, Tick(p)
  PROVE  VoteInv(Q)'
<1> DEFINE set == {id \in InstanceID : id[1] = p /\ lead[id].slowPathTimer # Paused}
           fired == {id \in set : Expires(lead[id].slowPathTimer)}
           accepted == [id \in InstanceID |-> [log[p][id] EXCEPT !.status = "Accepted"]]
<1>1. /\ lead' = [id \in InstanceID |->
           IF id \notin set THEN lead[id]
           ELSE [lead[id] EXCEPT !.slowPathTimer = IF id \in fired THEN Paused ELSE @ + 1]]
      /\ log' = [log EXCEPT ![p] =
           [id \in InstanceID |-> IF id \in fired THEN accepted[id] ELSE @[id]]]
      /\ msgs' = msgs \cup UNION {Broadcast("Accept", id, log[p][id], epoch[p]) : id \in fired}
  BY DEF Tick
<1>2. \A id \in fired : /\ id \in InstanceID /\ id[1] = p
                        /\ log[p][id].status = "PreAccepted"
                        /\ quorum(lead[id].preAcceptReplies + 1)
  BY DEF TimerDiscipline
<1>3. \A id \in InstanceID : /\ accepted[id].status = "Accepted"
                             /\ SameData(accepted[id], log[p][id])
  <2> SUFFICES ASSUME NEW id \in InstanceID
               PROVE  accepted[id].status = "Accepted" /\ SameData(accepted[id], log[p][id])
    OBVIOUS
  <2>1. log[p][id] \in InstanceState BY DEF TypeOK
  <2>2. accepted[id] = [log[p][id] EXCEPT !.status = "Accepted"] OBVIOUS
  <2> HIDE DEF accepted
  <2> QED BY <2>1, <2>2 DEF InstanceState, SameData
<1> HIDE DEF fired, accepted
<1>4. \A y \in InstanceID : lead'[y].preAcceptReplies = lead[y].preAcceptReplies
  <2> SUFFICES ASSUME NEW y \in InstanceID
               PROVE  lead'[y].preAcceptReplies = lead[y].preAcceptReplies
    OBVIOUS
  <2> DEFINE t == IF y \in fired THEN Paused ELSE lead[y].slowPathTimer + 1
  <2>1. lead'[y] = IF y \notin set THEN lead[y] ELSE [lead[y] EXCEPT !.slowPathTimer = t]
    BY <1>1
  <2>2. lead[y] \in LeaderState BY DEF TypeOK
  <2> HIDE DEF t, set
  <2> QED BY <2>1, <2>2 DEF LeaderState
<1>5. /\ \A q \in Nodes : q # p => log'[q] = log[q]
      /\ \A y \in InstanceID :
           log'[p][y] = IF y \in fired THEN accepted[y] ELSE log[p][y]
  BY <1>1 DEF TypeOK
<1>6. \A y \in InstanceID :
        /\ log'[p][y].cmd = log[p][y].cmd
        /\ log'[p][y].status = "None" <=> log[p][y].status = "None"
        /\ log[p][y].deps \subseteq log'[p][y].deps
  BY <1>2, <1>3, <1>5 DEF SameData
<1>7. \A n \in msgs' : \/ n \in msgs
                       \/ /\ n.type \notin {"PreAccept", "PreAcceptOK", "PreAcceptReply"}
                          /\ n.id \in InstanceID /\ Started(n.id)
                          /\ n.type = "Commit" => n.cmd = Cmd(n.id)
  <2>1. ASSUME NEW id \in fired, NEW n \in Broadcast("Accept", id, log[p][id], epoch[p])
        PROVE  n.type = "Accept" /\ n.id \in InstanceID /\ Started(n.id)
    BY <1>2, <2>1, BroadcastFields DEF Started
  <2> QED BY <1>1, <2>1
<1>8. Counted(Q)'
  <2> SUFFICES ASSUME NEW y \in InstanceID PROVE CountedAt(Q, y)'
    BY DEF Counted
  <2>1. CASE log'[y[1]][y] = log[y[1]][y] BY <1>4, <2>1 DEF VoteInv, Counted, CountedAt, Started
  <2>2. CASE y \in fired
    <3>1. Cardinality(Q[y]) = lead[y].preAcceptReplies + 1
      BY <1>2, <2>2 DEF VoteInv, Counted, CountedAt
    <3>2. quorum(Cardinality(Q[y])) BY <1>2, <2>2, <3>1
    <3>3. log'[y[1]][y].status = "Accepted" BY <1>2, <1>3, <1>5, <2>2
    <3> QED BY <3>2, <3>3 DEF CountedAt, Started
  <2> QED BY <1>5, <2>1, <2>2, LeaderNode
<1> QED BY <1>5, <1>6, <1>7, <1>8, LeaderMoves

(* Counting an answer to a PreAccept: the answering replica was not        *)
(* counted before, and the leader's dependencies take in what it said.     *)
LEMMA VotesEither ==
  ASSUME TypeOK, Routed, NEW Q \in [InstanceID -> SUBSET Nodes], VoteInv(Q),
         NEW m \in msgs, m.type \in PreAcceptAnswers,
         log[m.to][m.id].status = "PreAccepted",
         NEW is \in InstanceState, is.status = "PreAccepted",
         is.cmd = log[m.to][m.id].cmd,
         log[m.to][m.id].deps \subseteq is.deps, Said(m) \subseteq is.deps,
         NEW ld \in LeaderState, ld.preAcceptReplies = lead[m.id].preAcceptReplies + 1,
         onEitherPreAcceptReply(m, is, ld)
  PROVE  \E Q2 \in [InstanceID -> SUBSET Nodes] : VoteInv(Q2)'
<1> DEFINE p == m.to
           Q2 == [Q EXCEPT ![m.id] = @ \cup {m.from}]
           replies == ld.preAcceptReplies + 1
<1>1. /\ m.from \in Nodes /\ p \in Nodes /\ m.id \in InstanceID /\ p = m.id[1]
      /\ lead[m.id] \in LeaderState
  BY DEF TypeOK, Message, Routed, Replies, PreAcceptAnswers
<1>2. /\ Q2 \in [InstanceID -> SUBSET Nodes]
      /\ \A y \in InstanceID : Q2[y] = IF y = m.id THEN Q[y] \cup {m.from} ELSE Q[y]
  BY Zenon, <1>1
<1> HIDE DEF Q2
<1>3. Cardinality(Q2[m.id]) = replies /\ replies \in Nat /\ replies >= 2
  <2>1. m.from \notin Q[m.id] BY DEF VoteInv, OneAnswer
  <2>2. Cardinality(Q[m.id]) = lead[m.id].preAcceptReplies + 1
    BY <1>1 DEF VoteInv, Counted, CountedAt
  <2>3. Cardinality(Q2[m.id]) = Cardinality(Q[m.id]) + 1 BY <1>1, <1>2, <2>1, CountOne
  <2>4. lead[m.id].preAcceptReplies \in Nat BY <1>1 DEF LeaderState
  <2> QED BY <2>2, <2>3, <2>4
<1>4. Started(m.id) /\ Cmd(m.id) = is.cmd BY <1>1 DEF Started, Cmd
<1>5. ASSUME \A q \in Nodes : q # p => log'[q] = log[q],
             \A y \in InstanceID : y # m.id =>
               /\ SameData(log'[p][y], log[p][y])
               /\ \/ log'[p][y].status = log[p][y].status
                  \/ log[p][y].status = "Committed" /\ log'[p][y].status = "Executed",
             SameData(log'[p][m.id], is),
             \/ log'[p][m.id].status = "PreAccepted"
             \/ /\ log'[p][m.id].status \in {"Accepted", "Committed", "Executed"}
                /\ quorum(replies),
             NEW sent, msgs' = (msgs \ {m}) \cup sent,
             \A n \in sent : /\ n.type \in {"Accept", "Commit"} /\ n.id = m.id
                             /\ n.type = "Commit" => n.cmd = is.cmd,
             \A y \in InstanceID : lead'[y].preAcceptReplies =
               IF y = m.id THEN ld.preAcceptReplies ELSE lead[y].preAcceptReplies
      PROVE  VoteInv(Q2)'
  <2>1. \A y \in InstanceID :
          /\ log'[p][y].cmd = log[p][y].cmd
          /\ log'[p][y].status = "None" <=> log[p][y].status = "None"
          /\ log[p][y].deps \subseteq log'[p][y].deps
    BY Zenon, <1>5 DEF SameData
  <2>2. \A n \in msgs' : \/ n \in msgs
                         \/ /\ n.type \notin {"PreAccept", "PreAcceptOK", "PreAcceptReply"}
                            /\ n.id \in InstanceID /\ Started(n.id)
                            /\ n.type = "Commit" => n.cmd = Cmd(n.id)
    BY Zenon, <1>1, <1>4, <1>5
  <2>3. m \notin msgs' BY <1>5 DEF PreAcceptAnswers
  <2>4. Said(m) \subseteq Deps(m.id)' BY Zenon, <1>1, <1>5 DEF Deps, SameData
  <2>5. \A y \in InstanceID : Q[y] \subseteq Q2[y] BY <1>2
  <2>6. \A y \in InstanceID : \A q \in Q2[y] :
          \/ q \in Q[y]
          \/ \E n \in msgs : /\ n \notin msgs'
                             /\ n.type \in PreAcceptAnswers /\ n.from = q /\ n.id = y
                             /\ Said(n) \subseteq Deps(y)'
    BY <1>2, <2>3, <2>4
  <2>7. Counted(Q2)'
    <3> SUFFICES ASSUME NEW y \in InstanceID PROVE CountedAt(Q2, y)'
      BY DEF Counted
    <3>1. CASE y = m.id
      <4>1. /\ Cardinality(Q2[y]) = replies /\ lead'[y].preAcceptReplies + 1 = replies
            /\ \/ log'[y[1]][y].status = "PreAccepted"
               \/ /\ log'[y[1]][y].status \in {"Accepted", "Committed", "Executed"}
                  /\ quorum(replies)
        BY Zenon, <1>1, <1>3, <1>5, <3>1
      <4> HIDE DEF replies
      <4> QED BY <4>1 DEF CountedAt, Started
    <3>2. CASE y # m.id
      <4>1. \/ log'[y[1]][y].status = log[y[1]][y].status
            \/ /\ log[y[1]][y].status = "Committed"
               /\ log'[y[1]][y].status = "Executed"
        BY Zenon, <1>5, <3>2, LeaderNode
      <4>2. Q2[y] = Q[y] /\ lead'[y].preAcceptReplies = lead[y].preAcceptReplies
        BY Zenon, <1>2, <1>5, <3>2
      <4> QED BY Zenon, <4>1, <4>2 DEF VoteInv, Counted, CountedAt, Started
    <3> QED BY <3>1, <3>2
  <2> QED BY Zenon, <1>1, <1>2, <1>5, <2>1, <2>2, <2>5, <2>6, <2>7, LeaderMoves
<1>6. \A y \in InstanceID : y # m.id => SameData(log[p][y], log[p][y]) BY DEF SameData
<1>7. CASE /\ ~ ld.differentReplies /\ fastQuorum(replies)
           /\ Commit(p, m.id, is, msgs \ {m})
           /\ lead' = [lead EXCEPT ![m.id] = unregisterTimer(ld)]
  <2>1. quorum(replies) BY Zenon, <1>3, <1>7, FastIsQuorum
  <2>2. \A y \in InstanceID : lead'[y].preAcceptReplies =
          IF y = m.id THEN ld.preAcceptReplies ELSE lead[y].preAcceptReplies
    BY <1>1, <1>7 DEF TypeOK, LeaderState, unregisterTimer
  <2>3. /\ \A q \in Nodes : q # p => log'[q] = log[q]
        /\ \A y \in InstanceID : y # m.id =>
             /\ SameData(log'[p][y], log[p][y])
             /\ \/ log'[p][y].status = log[p][y].status
                \/ log[p][y].status = "Committed" /\ log'[p][y].status = "Executed"
        /\ SameData(log'[p][m.id], is) /\ log'[p][m.id].status \in {"Committed", "Executed"}
        /\ msgs' = (msgs \ {m}) \cup Broadcast("Commit", m.id, is, epoch[p])
    BY Zenon, <1>1, <1>7, CommitEffect
  <2>4. \A n \in Broadcast("Commit", m.id, is, epoch[p]) :
          /\ n.type \in {"Accept", "Commit"} /\ n.id = m.id
          /\ n.type = "Commit" => n.cmd = is.cmd
    BY BroadcastFields
  <2>5. VoteInv(Q2)' BY Zenon, <1>5, <2>1, <2>2, <2>3, <2>4
  <2> QED BY <1>2, <2>5
<1>8. CASE /\ quorum(replies)
           /\ Accept(p, m.id, is, msgs \ {m})
           /\ lead' = [lead EXCEPT ![m.id] = unregisterTimer(ld)]
  <2>2. \A y \in InstanceID : lead'[y].preAcceptReplies =
          IF y = m.id THEN ld.preAcceptReplies ELSE lead[y].preAcceptReplies
    BY <1>1, <1>8 DEF TypeOK, LeaderState, unregisterTimer
  <2> DEFINE accepted == [is EXCEPT !.status = "Accepted"]
  <2>3. accepted.status = "Accepted" /\ SameData(accepted, is) BY DEF InstanceState, SameData
  <2>4. /\ log' = [log EXCEPT ![p][m.id] = accepted]
        /\ msgs' = (msgs \ {m}) \cup Broadcast("Accept", m.id, is, epoch[p])
    BY <1>8 DEF Accept
  <2> HIDE DEF accepted
  <2>5. /\ \A q \in Nodes : q # p => log'[q] = log[q]
        /\ \A y \in InstanceID : y # m.id => log'[p][y] = log[p][y]
        /\ log'[p][m.id] = accepted
    BY Zenon, <1>1, <2>4 DEF TypeOK
  <2>6. \A n \in Broadcast("Accept", m.id, is, epoch[p]) :
          /\ n.type \in {"Accept", "Commit"} /\ n.id = m.id
          /\ n.type = "Commit" => n.cmd = is.cmd
    BY BroadcastFields
  <2>7. VoteInv(Q2)' BY Zenon, <1>5, <1>6, <1>8, <2>2, <2>3, <2>4, <2>5, <2>6
  <2> QED BY <1>2, <2>7
<1>9. CASE /\ log' = [log EXCEPT ![p][m.id] = is]
           /\ \E t : lead' = [lead EXCEPT ![m.id] = [ld EXCEPT !.slowPathTimer = t]]
           /\ msgs' = msgs \ {m}
  <2>2. \A y \in InstanceID : lead'[y].preAcceptReplies =
          IF y = m.id THEN ld.preAcceptReplies ELSE lead[y].preAcceptReplies
    BY <1>1, <1>9 DEF TypeOK, LeaderState
  <2>3. /\ \A q \in Nodes : q # p => log'[q] = log[q]
        /\ \A y \in InstanceID : y # m.id => log'[p][y] = log[p][y]
        /\ log'[p][m.id] = is
    BY <1>1, <1>9 DEF TypeOK
  <2>4. /\ \A y \in InstanceID : y # m.id =>
             /\ SameData(log'[p][y], log[p][y])
             /\ \/ log'[p][y].status = log[p][y].status
                \/ log[p][y].status = "Committed" /\ log'[p][y].status = "Executed"
        /\ SameData(log'[p][m.id], is)
        /\ \/ log'[p][m.id].status = "PreAccepted"
           \/ /\ log'[p][m.id].status \in {"Accepted", "Committed", "Executed"}
              /\ quorum(replies)
    BY Zenon, <1>6, <2>3 DEF SameData
  <2> DEFINE sent == {}
  <2>5. /\ msgs' = (msgs \ {m}) \cup sent
        /\ \A n \in sent : /\ n.type \in {"Accept", "Commit"} /\ n.id = m.id
                           /\ n.type = "Commit" => n.cmd = is.cmd
    BY <1>9
  <2> HIDE DEF sent, replies
  <2>6. VoteInv(Q2)' BY Zenon, <1>5, <2>2, <2>3, <2>4, <2>5
  <2> QED BY <1>2, <2>6
<1> QED BY Zenon, <1>7, <1>8, <1>9 DEF onEitherPreAcceptReply

(* onPreAcceptOK speaks for the dependencies the leader has.               *)
LEMMA VotesOK ==
  ASSUME TypeOK, Routed, NEW Q \in [InstanceID -> SUBSET Nodes], VoteInv(Q),
         NEW m \in msgs, onPreAcceptOK(m)
  PROVE  \E Q2 \in [InstanceID -> SUBSET Nodes] : VoteInv(Q2)'
<1> DEFINE ld == [lead[m.id] EXCEPT !.preAcceptReplies = @ + 1]
           is == log[m.to][m.id]
<1>1. /\ m.id \in InstanceID /\ lead[m.id] \in LeaderState /\ is \in InstanceState
      /\ m.type = "PreAcceptOK" /\ is.status = "PreAccepted" /\ m.to = m.id[1]
  BY DEF TypeOK, Message, onPreAcceptOK, Handles, HandledIn, Routed, Replies
<1>2. ld \in LeaderState /\ ld.preAcceptReplies = lead[m.id].preAcceptReplies + 1
  <2>1. lead[m.id].preAcceptReplies + 1 \in Nat BY <1>1 DEF LeaderState
  <2>2. ld \in LeaderState BY ZenonT(30), <1>1, <2>1, LeaderUpdate
  <2> QED BY <1>1, <2>2 DEF LeaderState
<1>3. onEitherPreAcceptReply(m, is, ld) BY DEF onPreAcceptOK
<1>4. Said(m) = is.deps BY <1>1 DEF Said, Deps
<1>5. m.type \in PreAcceptAnswers BY <1>1 DEF PreAcceptAnswers
<1> HIDE DEF ld, is
<1>6. is.cmd = log[m.to][m.id].cmd /\ log[m.to][m.id].deps \subseteq is.deps BY DEF is
<1> QED BY Zenon, <1>1, <1>2, <1>3, <1>4, <1>5, <1>6, VotesEither DEF is

(* onPreAcceptReply merges the dependencies of the reply.                  *)
LEMMA VotesReply ==
  ASSUME TypeOK, Routed, NEW Q \in [InstanceID -> SUBSET Nodes], VoteInv(Q),
         NEW m \in msgs, onPreAcceptReply(m)
  PROVE  \E Q2 \in [InstanceID -> SUBSET Nodes] : VoteInv(Q2)'
<1> DEFINE is == log[m.to][m.id]
           merged == [is EXCEPT !.seq = Max({@, m.seq}), !.deps = unionDepSlices(@, m.deps)]
           ld == [lead[m.id] EXCEPT !.preAcceptReplies = @ + 1,
                                    !.differentReplies = @ \/ merged # is]
<1>1. /\ m.id \in InstanceID /\ lead[m.id] \in LeaderState /\ is \in InstanceState
      /\ m.type = "PreAcceptReply" /\ is.status = "PreAccepted" /\ m.to = m.id[1]
      /\ m.seq \in Nat /\ m.deps \in SUBSET InstanceID
  BY DEF TypeOK, Message, onPreAcceptReply, Handles, HandledIn, Routed, Replies
<1>2. /\ merged \in InstanceState /\ merged.status = is.status /\ merged.cmd = is.cmd
      /\ merged.deps = is.deps \cup m.deps
  <2>1. Max({is.seq, m.seq}) \in Nat BY <1>1, MaxOfTwo DEF InstanceState
  <2>2. merged \in InstanceState
    BY ZenonT(30), <1>1, <2>1 DEF InstanceState, unionDepSlices
  <2> QED BY Zenon, <1>1, <2>2 DEF InstanceState, unionDepSlices
<1>3. ld \in LeaderState /\ ld.preAcceptReplies = lead[m.id].preAcceptReplies + 1
  <2> HIDE DEF merged, is
  <2>1. lead[m.id].preAcceptReplies + 1 \in Nat BY <1>1 DEF LeaderState
  <2>2. (lead[m.id].differentReplies \/ merged # is) \in BOOLEAN OBVIOUS
  <2>3. ld \in LeaderState BY ZenonT(30), <1>1, <2>1, <2>2, LeaderUpdate
  <2> QED BY <1>1, <2>3 DEF LeaderState
<1>4. onEitherPreAcceptReply(m, merged, ld) BY DEF onPreAcceptReply
<1>5. Said(m) = m.deps /\ m.type \in PreAcceptAnswers BY <1>1 DEF Said, PreAcceptAnswers
<1> HIDE DEF ld, merged
<1>6. is.deps \subseteq merged.deps /\ Said(m) \subseteq merged.deps BY <1>2, <1>5
<1> QED BY Zenon, <1>1, <1>2, <1>3, <1>4, <1>5, <1>6, VotesEither

=============================================================================
