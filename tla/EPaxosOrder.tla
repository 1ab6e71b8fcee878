---------------------------- MODULE EPaxosOrder -----------------------------
(***************************************************************************)
(* Committed instances with interfering commands depend on one another, as *)
(* long as no replica restarts: the two handlers that vote, and the proof  *)
(* that two quorums of votes meet.                                         *)
(***************************************************************************)
EXTENDS EPaxosVotes, EPaxosAgreement

(* Overlap, and so interference, is symmetric.                             *)
LEMMA InterferesSymmetric ==
  ASSUME NEW c, NEW o, IsCommand(c), IsCommand(o), Interferes(c, o)
  PROVE  Interferes(o, c)
BY OverlapsIffIntersect DEF Interferes

(* The dependencies a replica computes for a command order it behind every *)
(* interfering instance that the replica holds.                            *)
LEMMA FreshCovers ==
  ASSUME TypeOK, OneCommand, NEW q \in Nodes, NEW c \in Command, NEW ignored,
         NEW x \in InstanceID, x # ignored, Holds(q, x),
         Interferes(Cmd(x), c) \/ Interferes(c, Cmd(x))
  PROVE  Covers(seqAndDepsForCommand(log[q], c, ignored).deps, x)
<1> DEFINE l == log[q]
<1>1. l \in [InstanceID -> InstanceState] BY DEF TypeOK
<1>2. l[x].status # "None" /\ l[x].cmd # Nil /\ l[x].cmd = Cmd(x)
  BY DEF Holds, OneCommand
<1>3. l[x].cmd \in Command BY <1>1, <1>2 DEF InstanceState
<1>4. IsCommand(c) /\ IsCommand(l[x].cmd) BY <1>3, CommandsAssumption
<1>5. Interferes(l[x].cmd, c) BY <1>2, <1>4, InterferesSymmetric
<1>6. seqAndDepsForCommand(l, c, ignored).deps \in SUBSET InstanceID
  BY <1>1, SeqAndDepsType
<1> HIDE DEF l
<1>7. PICK d \in seqAndDepsForCommand(l, c, ignored).deps :
           /\ l[d].status # "None" /\ l[d].cmd # Nil
           /\ d = x \/ (d[1] = x[1] /\ d[2] > x[2] /\ Interferes(l[d].cmd, l[x].cmd))
  BY <1>1, <1>2, <1>4, <1>5, DepsCover
<1>8. d \in InstanceID BY <1>6
<1>9. Started(d) /\ l[d].cmd = Cmd(d) BY <1>7, <1>8 DEF OneCommand, l
<1> QED BY <1>2, <1>7, <1>9 DEF Covers, l

(* A vote with the dependencies a replica q computed from its log orders   *)
(* the instance y behind every interfering instance q voted for.           *)
LEMMA FreshVote ==
  ASSUME TypeOK, NEW Q, VoteInv(Q), NEW q \in Nodes, NEW c \in Command, NEW ignored,
         NEW y \in InstanceID, Cmd(y)' = c,
         \A d \in InstanceID : Started(d) => Started(d)' /\ Cmd(d)' = Cmd(d),
         NEW D, seqAndDepsForCommand(log[q], c, ignored).deps \subseteq D,
         NEW x \in InstanceID, x # ignored, NEW E \in Votes(Q, q, x),
         Interferes(Cmd(x), Cmd(y))' \/ Interferes(Cmd(y), Cmd(x))'
  PROVE  Covers(D, x)'
<1> DEFINE L == seqAndDepsForCommand(log[q], c, ignored).deps
<1>1. Holds(q, x) /\ Started(x) BY VoterHolds
<1>2. Cmd(x)' = Cmd(x) BY <1>1
<1>3. Interferes(Cmd(x), c) \/ Interferes(c, Cmd(x)) BY <1>2
<1>4. OneCommand BY DEF VoteInv
<1>5. Covers(L, x) BY <1>1, <1>3, <1>4, FreshCovers
<1>6. L \in SUBSET InstanceID BY ZenonT(30), SeqAndDepsType DEF TypeOK
<1> HIDE DEF L
<1>7. PICK d \in L : /\ Started(d)
                     /\ d = x \/ (d[1] = x[1] /\ d[2] > x[2] /\ Interferes(Cmd(d), Cmd(x)))
  BY <1>5 DEF Covers
<1>8. d \in D /\ Started(d)' /\ Cmd(d)' = Cmd(d) BY <1>6, <1>7 DEF L
<1> QED BY <1>2, <1>7, <1>8 DEF Covers

(* The leader p of a new instance votes for it with the dependencies L it  *)
(* computed from its log.                                                  *)
LEMMA NewInstanceVote ==
  ASSUME TypeOK, NEW Q \in [InstanceID -> SUBSET Nodes], VoteInv(Q),
         NEW p \in Nodes, NEW c \in Command, NEW id \in InstanceID, id[1] = p,
         log[p][id].status = "None",
         \A x \in InstanceID : x[1] = p /\ log[p][x].status # "None" => x[2] < id[2],
         NEW L, L = seqAndDepsForCommand(log[p], c, <<0, 0>>).deps,
         NEW is, is.status = "PreAccepted", is.cmd = c, is.deps = L, c # Nil,
         log' = [log EXCEPT ![p][id] = is], UNCHANGED lead,
         NEW e, msgs' = msgs \cup Broadcast("PreAccept", id, is, e)
  PROVE  \E Q2 \in [InstanceID -> SUBSET Nodes] : VoteInv(Q2)'
<1> DEFINE Q2 == [Q EXCEPT ![id] = {p}]
<1>1. \A q \in Nodes, y \in InstanceID :
        log'[q][y] = IF q = p /\ y = id THEN is ELSE log[q][y]
  BY DEF TypeOK
<1>2. \A y \in InstanceID : log'[y[1]][y] = IF y = id THEN is ELSE log[y[1]][y]
  BY <1>1, LeaderNode
<1>3. /\ ~ Started(id) /\ Q[id] = {} /\ \A m \in msgs : m.id # id
      /\ \A q \in Nodes : log[q][id].status = "None" /\ log[q][id].cmd = Nil
  <2>1. ~ Started(id) BY DEF Started
  <2> QED BY <2>1 DEF VoteInv, OneCommand, OneAnswer
<1>4. /\ Started(id)' /\ Cmd(id)' = c /\ Deps(id)' = L
      /\ \A y \in InstanceID : y # id =>
           (Started(y)' <=> Started(y)) /\ Cmd(y)' = Cmd(y) /\ Deps(y)' = Deps(y)
  BY <1>2 DEF Started, Cmd, Deps
<1>5. /\ Q2 \in [InstanceID -> SUBSET Nodes]
      /\ Q2[id] = {p} /\ \A y \in InstanceID : y # id => Q2[y] = Q[y]
  OBVIOUS
<1>6. \A n \in msgs' :
        \/ n \in msgs /\ n.id # id
        \/ /\ n \in Broadcast("PreAccept", id, is, e)
           /\ n.type = "PreAccept" /\ n.id = id /\ n.to # p /\ n.cmd = c /\ n.deps = L
  BY <1>3, BroadcastFields
<1> HIDE DEF Q2
<1>7. \A m \in msgs : m.id \in InstanceID /\ m.from \in Nodes /\ m.to \in Nodes
  BY DEF TypeOK, Message
<1>8. OneCommand'
  <2>1. ASSUME NEW y \in InstanceID
        PROVE  /\ ~ Started(y)' => /\ \A q \in Nodes : log'[q][y].status = "None"
                                   /\ \A m \in msgs' : m.id # y
               /\ Started(y)' => Cmd(y)' # Nil
               /\ \A q \in Nodes : log'[q][y].cmd # Nil =>
                    Started(y)' /\ log'[q][y].cmd = Cmd(y)'
    <3>1. CASE y = id BY <1>1, <1>3, <1>4, <3>1
    <3>2. CASE y # id
      <4>1. \A m \in msgs' : m.id = y => m \in msgs BY <1>6, <3>2
      <4> QED BY <1>1, <1>4, <3>2, <4>1 DEF VoteInv, OneCommand
    <3> QED BY <3>1, <3>2
  <2>2. ASSUME NEW m \in msgs', m.type \in {"PreAccept", "Commit"}
        PROVE  m.cmd = Cmd(m.id)'
    BY <1>4, <1>6, <1>7, <2>2 DEF VoteInv, OneCommand
  <2> QED BY <2>1, <2>2 DEF OneCommand
<1>9. \A q \in Nodes, y \in InstanceID : Holds(q, y) => y # id /\ Holds(q, y)'
  BY <1>1, <1>3 DEF Holds
<1>10. OneAnswer(Q2)'
  <2>1. ASSUME NEW y \in InstanceID
        PROVE  /\ ~ Started(y)' => Q2[y] = {}
               /\ Started(y)' => y[1] \in Q2[y]
               /\ \A q \in Q2[y] : Holds(q, y)'
    <3>1. CASE y = id
      <4>1. Holds(p, id)' BY <1>1 DEF Holds
      <4> QED BY <1>4, <1>5, <3>1, <4>1
    <3>2. CASE y # id
      BY <1>4, <1>5, <1>9, <3>2 DEF VoteInv, OneAnswer
    <3> QED BY <3>1, <3>2
  <2>2. ASSUME NEW m \in msgs'
        PROVE  /\ m.type = "PreAccept" => m.to \notin Q2[m.id] /\ m.deps \subseteq Deps(m.id)'
               /\ m.type \in PreAcceptAnswers => m.from \notin Q2[m.id] /\ Holds(m.from, m.id)'
    <3>1. CASE m \in msgs /\ m.id # id
      BY <1>4, <1>5, <1>7, <1>9, <3>1 DEF VoteInv, OneAnswer
    <3>2. CASE m.type = "PreAccept" /\ m.id = id /\ m.to # p /\ m.deps = L
      BY <1>4, <1>5, <3>2 DEF PreAcceptAnswers
    <3> QED BY <1>6, <3>1, <3>2
  <2>3. ASSUME NEW m \in msgs', NEW n \in msgs', m.id = n.id
        PROVE  /\ m.type = "PreAccept" /\ n.type = "PreAccept" /\ m.to = n.to => m = n
               /\ m.type \in PreAcceptAnswers /\ n.type \in PreAcceptAnswers /\ m.from = n.from
                    => m = n
               /\ m.type = "PreAccept" /\ n.type \in PreAcceptAnswers => m.to # n.from
    <3>1. CASE m \in msgs /\ n \in msgs BY <2>3, <3>1 DEF VoteInv, OneAnswer
    <3>2. CASE /\ m \in Broadcast("PreAccept", id, is, e) /\ m.type = "PreAccept"
               /\ n \in Broadcast("PreAccept", id, is, e) /\ n.type = "PreAccept"
      <4>1. m.to = n.to => m = n BY <3>2 DEF Broadcast
      <4> QED BY <3>2, <4>1 DEF PreAcceptAnswers
    <3> QED BY <1>6, <2>3, <3>1, <3>2
  <2> QED BY <2>1, <2>2, <2>3 DEF OneAnswer
<1>11. Counted(Q2)'
  <2> SUFFICES ASSUME NEW y \in InstanceID PROVE CountedAt(Q2, y)'
    BY DEF Counted
  <2>1. CASE y = id
    <3>1. lead[id].preAcceptReplies = 0
      BY <1>3 DEF VoteInv, Counted, CountedAt
    <3>2. Cardinality(Q2[id]) = 1
      <4>1. Cardinality({p}) = 1 BY Zenon, FS_Singleton
      <4> QED BY <1>5, <4>1
    <3>3. log'[y[1]][y].status = "PreAccepted" BY <1>2, <2>1
    <3> QED BY <2>1, <3>1, <3>2, <3>3 DEF CountedAt, Started
  <2>2. CASE y # id
    BY <1>2, <1>5, <2>2 DEF VoteInv, Counted, CountedAt, Started
  <2> QED BY <2>1, <2>2
<1>12. VotesOrdered(Q2)'
  <2>1. ASSUME NEW q \in Nodes, NEW y \in InstanceID, NEW D, D \in Votes(Q2, q, y)', y # id
        PROVE  D \in Votes(Q, q, y)
    <3>1. CASE q \in Q2[y] /\ D = Deps(y)' BY <1>4, <1>5, <2>1, <3>1, VotesMember
    <3>2. ASSUME NEW m \in msgs', m.type \in PreAcceptAnswers, m.from = q, m.id = y,
                 D = Said(m)'
          PROVE  D \in Votes(Q, q, y)
      <4>1. m \in msgs BY <1>6, <2>1, <3>2
      <4>2. D = Said(m) BY <1>4, <2>1, <3>2 DEF Said
      <4> QED BY <3>2, <4>1, <4>2, VotesMember
    <3> QED BY <2>1, <3>1, <3>2, VotesMemberNext
  <2>2. ASSUME NEW q \in Nodes, NEW D, D \in Votes(Q2, q, id)'
        PROVE  q = p /\ D = L
    <3>1. \A m \in msgs' : ~ (m.type \in PreAcceptAnswers /\ m.id = id)
      BY <1>6 DEF PreAcceptAnswers
    <3> QED BY <1>4, <1>5, <2>2, <3>1, VotesMemberNext
  <2>3. \A d \in InstanceID : Started(d) => Started(d)' /\ Cmd(d)' = Cmd(d)
    BY <1>3, <1>4
  <2>4. \A q \in Nodes, y \in InstanceID : \A D : D \in Votes(Q, q, y) =>
          Started(y) /\ D \subseteq InstanceID
    BY VoterHolds
  <2>5. ASSUME NEW x \in InstanceID, x # id, NEW E \in Votes(Q2, p, x)',
               Interferes(Cmd(x), Cmd(id))' \/ Interferes(Cmd(id), Cmd(x))'
        PROVE  Covers(L, x)'
    <3>1. E \in Votes(Q, p, x) BY <2>1, <2>5
    <3>2. x # <<0, 0>> BY DEF InstanceID
    <3>3. L \subseteq L OBVIOUS
    <3> QED BY Zenon, <1>4, <2>3, <2>5, <3>1, <3>2, <3>3, FreshVote
  <2>6. \A q \in Nodes, y \in InstanceID : \A D : D \in Votes(Q2, q, y)' =>
          \/ \E E \in Votes(Q, q, y) : E \subseteq D
          \/ \A x \in InstanceID : \A E \in Votes(Q2, q, x)' :
               /\ x # y
               /\ Interferes(Cmd(x), Cmd(y))' \/ Interferes(Cmd(y), Cmd(x))'
               => Covers(D, x)'
    BY <2>1, <2>2, <2>5
  <2>7. VotesOrdered(Q) BY DEF VoteInv
  <2> QED BY ONLY <2>3, <2>4, <2>6, <2>7, VotesGrow
<1>13. OwnOrdered'
  <2> SUFFICES ASSUME NEW x \in InstanceID, NEW y \in InstanceID, x[1] = y[1], y[2] < x[2],
                      Started(x)', Started(y)', Interferes(Cmd(y), Cmd(x))'
               PROVE  \E d \in Deps(x)' :
                        /\ d[1] = y[1] /\ d[2] < x[2] /\ Started(d)'
                        /\ d = y \/ (d[2] > y[2] /\ Interferes(Cmd(d), Cmd(y))')
    BY DEF OwnOrdered
  <2>1. x # y /\ ~ (x[2] < y[2]) BY DEF InstanceID
  <2>2. CASE y = id
    <3>1. Started(x) /\ x[1] = p BY <1>4, <2>1, <2>2
    <3> QED BY <2>1, <2>2, <3>1 DEF Started
  <2>3. CASE x = id
    <3>1. y # id /\ Started(y) /\ Cmd(y)' = Cmd(y) /\ y[1] = p
      BY <1>4, <2>1, <2>3
    <3>2. Interferes(Cmd(y), c) BY <1>4, <2>3, <3>1
    <3>3. Holds(p, y) BY <3>1 DEF VoteInv, OneCommand, Holds, Started, Cmd
    <3>4. y # <<0, 0>> BY DEF InstanceID
    <3>5. Covers(L, y)
      BY Zenon, <3>2, <3>3, <3>4, FreshCovers DEF VoteInv
    <3>6. PICK d \in L : /\ Started(d)
                         /\ \/ d = y
                            \/ d[1] = y[1] /\ d[2] > y[2] /\ Interferes(Cmd(d), Cmd(y))
      BY <3>5 DEF Covers
    <3>7. d \in InstanceID
      <4>1. log[p] \in [InstanceID -> InstanceState] BY DEF TypeOK
      <4> QED BY <4>1, SeqAndDepsType
    <3>8. d # id /\ d[1] = p /\ d[2] < id[2]
      BY <1>3, <3>1, <3>6, <3>7 DEF Started
    <3>9. Started(d)' /\ Cmd(d)' = Cmd(d) /\ d \in Deps(x)'
      BY <1>4, <2>3, <3>6, <3>7, <3>8
    <3> QED BY <2>3, <3>1, <3>6, <3>8, <3>9
  <2>4. CASE x # id /\ y # id
    <3>1. Started(x) /\ Started(y) /\ Interferes(Cmd(y), Cmd(x)) BY <1>4, <2>4
    <3>2. PICK d \in Deps(x) : /\ d[1] = y[1] /\ d[2] < x[2] /\ Started(d)
                               /\ d = y \/ (d[2] > y[2] /\ Interferes(Cmd(d), Cmd(y)))
      BY <3>1 DEF VoteInv, OwnOrdered
    <3>3. d \in InstanceID BY LeaderNode DEF TypeOK, InstanceState, Deps
    <3>4. d # id BY <1>3, <3>2
    <3>5. d \in Deps(x)' /\ Started(d)' /\ Cmd(d)' = Cmd(d) /\ Cmd(y)' = Cmd(y)
      BY <1>4, <2>4, <3>2, <3>3, <3>4
    <3> QED BY <3>2, <3>5
  <2> QED BY <2>2, <2>3, <2>4
<1> QED BY <1>5, <1>8, <1>10, <1>11, <1>12, <1>13 DEF VoteInv

(* onRequest: the leader votes for its new instance.                       *)
LEMMA VotesRequest ==
  ASSUME TypeOK, NEW Q \in [InstanceID -> SUBSET Nodes], VoteInv(Q),
         NEW p \in Nodes, NEW c \in Command, Request(p, c)
  PROVE  \E Q2 \in [InstanceID -> SUBSET Nodes] : VoteInv(Q2)'
<1> DEFINE id == <<p, maxInstanceNum(p) + 1>>
           local == seqAndDepsForCommand(log[p], c, <<0, 0>>)
           is == [status |-> "PreAccepted", cmd |-> c, seq |-> local.maxSeq + 1,
                  deps |-> local.deps]
<1>1. CASE Panic(p) /\ UNCHANGED msgs
  BY <1>1, VotesUntouched DEF Panic
<1>2. CASE /\ log' = [log EXCEPT ![p][id] = is]
           /\ UNCHANGED lead
           /\ msgs' = msgs \cup Broadcast("PreAccept", id, is, epoch[p])
  <2>1. id \in InstanceID /\ id[1] = p BY DEF Request
  <2>2. /\ log[p][id].status = "None"
        /\ \A x \in InstanceID : x[1] = p /\ log[p][x].status # "None" => x[2] < id[2]
    BY <2>1, FreshInstance
  <2>3. is.status = "PreAccepted" /\ is.cmd = c /\ is.deps = local.deps /\ c # Nil
    BY ConstantsAssumption
  <2> HIDE DEF id, is
  <2> QED BY Zenon, <1>2, <2>1, <2>2, <2>3, NewInstanceVote
<1> QED BY Zenon, <1>1, <1>2 DEF Request

(* A follower p answers the PreAccept m with r, which speaks for the       *)
(* dependencies L that it computed from its log.                           *)
LEMMA AnswerVote ==
  ASSUME TypeOK, Routed, NEW Q \in [InstanceID -> SUBSET Nodes], VoteInv(Q),
         NEW m \in msgs, m.type = "PreAccept",
         NEW L, L = seqAndDepsForCommand(log[m.to], m.cmd, m.id).deps,
         NEW is, is.status = "PreAccepted", is.cmd = m.cmd,
         NEW r, r.type \in PreAcceptAnswers, r.id = m.id, r.from = m.to, L \subseteq Said(r),
         log' = [log EXCEPT ![m.to][m.id] = is], UNCHANGED lead,
         msgs' = (msgs \ {m}) \cup {r}
  PROVE  VoteInv(Q)'
<1> DEFINE p == m.to
           id == m.id
<1>1. p \in Nodes /\ id \in InstanceID /\ p # id[1]
  BY DEF TypeOK, Message, Routed, Requests
<1>2. \A q \in Nodes, y \in InstanceID :
        log'[q][y] = IF q = p /\ y = id THEN is ELSE log[q][y]
  BY <1>1 DEF TypeOK
<1>3. \A y \in InstanceID : log'[y[1]][y] = log[y[1]][y]
  BY <1>1, <1>2, LeaderNode
<1>4. \A y \in InstanceID :
        (Started(y)' <=> Started(y)) /\ Cmd(y)' = Cmd(y) /\ Deps(y)' = Deps(y)
  BY <1>3 DEF Started, Cmd, Deps
<1>5. /\ Started(id) /\ m.cmd = Cmd(id) /\ m.cmd # Nil
      /\ p \notin Q[id]
      /\ \A n \in msgs : n.type \in PreAcceptAnswers /\ n.id = id => n.from # p
      /\ \A n \in msgs : n.type = "PreAccept" /\ n.id = id /\ n.to = p => n = m
  BY <1>1 DEF VoteInv, OneCommand, OneAnswer
<1>6. m.cmd \in Command BY <1>5 DEF TypeOK, Message
<1>7. \A q \in Nodes, y \in InstanceID : Holds(q, y) => Holds(q, y)'
  BY <1>1, <1>2, <1>5 DEF Holds
<1>8. Holds(p, id)' BY <1>1, <1>2, <1>5 DEF Holds
<1>9. /\ \A n \in msgs : n.id \in InstanceID /\ n.from \in Nodes /\ n.to \in Nodes
      /\ r.type # "PreAccept" /\ r.type # "Commit" /\ r # m
  BY DEF TypeOK, Message, PreAcceptAnswers
<1>10. OneCommand'
  <2>1. ASSUME NEW y \in InstanceID
        PROVE  /\ ~ Started(y)' => /\ \A q \in Nodes : log'[q][y].status = "None"
                                   /\ \A n \in msgs' : n.id # y
               /\ Started(y)' => Cmd(y)' # Nil
               /\ \A q \in Nodes : log'[q][y].cmd # Nil =>
                    Started(y)' /\ log'[q][y].cmd = Cmd(y)'
    BY <1>1, <1>2, <1>4, <1>5 DEF VoteInv, OneCommand
  <2>2. ASSUME NEW n \in msgs', n.type \in {"PreAccept", "Commit"}
        PROVE  n.cmd = Cmd(n.id)'
    BY <1>4, <1>9, <2>2 DEF VoteInv, OneCommand
  <2> QED BY <2>1, <2>2 DEF OneCommand
<1>11. OneAnswer(Q)'
  <2>1. ASSUME NEW y \in InstanceID
        PROVE  /\ ~ Started(y)' => Q[y] = {}
               /\ Started(y)' => y[1] \in Q[y]
               /\ \A q \in Q[y] : Holds(q, y)'
    BY <1>4, <1>7 DEF VoteInv, OneAnswer
  <2>2. ASSUME NEW n \in msgs'
        PROVE  /\ n.type = "PreAccept" => n.to \notin Q[n.id] /\ n.deps \subseteq Deps(n.id)'
               /\ n.type \in PreAcceptAnswers => n.from \notin Q[n.id] /\ Holds(n.from, n.id)'
    <3>1. CASE n = r BY <1>1, <1>5, <1>8, <1>9, <3>1
    <3>2. CASE n \in msgs BY <1>4, <1>7, <1>9, <3>2 DEF VoteInv, OneAnswer
    <3> QED BY <3>1, <3>2
  <2>3. ASSUME NEW n \in msgs', NEW k \in msgs', n.id = k.id
        PROVE  /\ n.type = "PreAccept" /\ k.type = "PreAccept" /\ n.to = k.to => n = k
               /\ n.type \in PreAcceptAnswers /\ k.type \in PreAcceptAnswers /\ n.from = k.from
                    => n = k
               /\ n.type = "PreAccept" /\ k.type \in PreAcceptAnswers => n.to # k.from
    <3>1. CASE n \in msgs /\ k \in msgs BY <2>3, <3>1 DEF VoteInv, OneAnswer
    <3>2. CASE n = r BY <1>5, <1>9, <2>3, <3>2
    <3>3. CASE k = r BY <1>5, <1>9, <2>3, <3>3
    <3> QED BY <3>1, <3>2, <3>3
  <2> QED BY <2>1, <2>2, <2>3 DEF OneAnswer
<1>12. Counted(Q)'
  BY Zenon, <1>3 DEF VoteInv, Counted, CountedAt, Started
<1>13. VotesOrdered(Q)'
  <2>1. \A n : n.id \in InstanceID => Said(n)' = Said(n) BY <1>4 DEF Said
  <2>2. ASSUME NEW q \in Nodes, NEW y \in InstanceID, NEW D, D \in Votes(Q, q, y)',
               ~ (q = p /\ y = id)
        PROVE  D \in Votes(Q, q, y)
    <3>1. CASE q \in Q[y] /\ D = Deps(y)' BY <1>4, <3>1, VotesMember
    <3>2. ASSUME NEW n \in msgs', n.type \in PreAcceptAnswers, n.from = q, n.id = y,
                 D = Said(n)'
          PROVE  D \in Votes(Q, q, y)
      <4>1. n \in msgs BY <2>2, <3>2
      <4>2. D = Said(n) BY <2>1, <3>2
      <4> QED BY <3>2, <4>1, <4>2, VotesMember
    <3> QED BY <2>2, <3>1, <3>2, VotesMemberNext
  <2>3. ASSUME NEW D, D \in Votes(Q, p, id)' PROVE L \subseteq D
    <3>1. \A n \in msgs' : n.type \in PreAcceptAnswers /\ n.from = p /\ n.id = id => n = r
      BY <1>5
    <3>2. D = Said(r)' BY <1>5, <2>3, <3>1, VotesMemberNext
    <3> QED BY <1>1, <2>1, <3>2
  <2>4. \A d \in InstanceID : Started(d) => Started(d)' /\ Cmd(d)' = Cmd(d)
    BY <1>4
  <2>5. \A q \in Nodes, y \in InstanceID : \A D : D \in Votes(Q, q, y) =>
          Started(y) /\ D \subseteq InstanceID
    BY VoterHolds
  <2>6. ASSUME NEW D, D \in Votes(Q, p, id)',
               NEW x \in InstanceID, x # id, NEW E \in Votes(Q, p, x)',
               Interferes(Cmd(x), Cmd(id))' \/ Interferes(Cmd(id), Cmd(x))'
        PROVE  Covers(D, x)'
    <3>1. E \in Votes(Q, p, x) BY <1>1, <2>2, <2>6
    <3>2. L \subseteq D BY <2>3, <2>6
    <3>3. Cmd(id)' = m.cmd BY <1>1, <1>4, <1>5
    <3> QED BY Zenon, <1>1, <1>6, <2>4, <2>6, <3>1, <3>2, <3>3, FreshVote
  <2>7. \A q \in Nodes, y \in InstanceID : \A D : D \in Votes(Q, q, y)' =>
          \/ \E E \in Votes(Q, q, y) : E \subseteq D
          \/ \A x \in InstanceID : \A E \in Votes(Q, q, x)' :
               /\ x # y
               /\ Interferes(Cmd(x), Cmd(y))' \/ Interferes(Cmd(y), Cmd(x))'
               => Covers(D, x)'
    BY <2>2, <2>6
  <2>8. VotesOrdered(Q) BY DEF VoteInv
  <2> QED BY ONLY <2>4, <2>5, <2>7, <2>8, VotesGrow
<1>14. OwnOrdered' BY <1>4, OwnGrows DEF VoteInv
<1> QED BY <1>10, <1>11, <1>12, <1>13, <1>14 DEF VoteInv

(* onPreAccept: a PreAcceptOK says that the dependencies the replica       *)
(* computed are among those of the PreAccept, a PreAcceptReply brings them. *)
LEMMA VotesPreAccept ==
  ASSUME TypeOK, Routed, NEW Q \in [InstanceID -> SUBSET Nodes], VoteInv(Q),
         NEW m \in msgs, onPreAccept(m)
  PROVE  VoteInv(Q)'
<1> DEFINE p == m.to
           local == seqAndDepsForCommand(log[p], m.cmd, m.id)
           seq == Max({m.seq, local.maxSeq + 1})
           deps == local.deps \cup m.deps
           is == [status |-> "PreAccepted", cmd |-> m.cmd, seq |-> seq, deps |-> deps]
           same == seq = m.seq /\ Cardinality(deps) = Cardinality(m.deps)
           reply == IF same THEN Reply(m, "PreAcceptOK", 0, {})
                    ELSE Reply(m, "PreAcceptReply", seq, deps)
<1>1. /\ m \in Message /\ p \in Nodes /\ m.id \in InstanceID /\ m.deps \in SUBSET InstanceID
      /\ m.type = "PreAccept"
  BY DEF TypeOK, Message, onPreAccept, Handles
<1>2. CASE Panic(p) /\ msgs' = msgs \ {m}
  BY <1>2, VotesUntouched DEF Panic
<1>3. CASE /\ log' = [log EXCEPT ![p][m.id] = is]
           /\ msgs' = (msgs \ {m}) \cup {reply}
           /\ UNCHANGED lead
  <2>1. local.deps \in SUBSET InstanceID BY ZenonT(30), <1>1, SeqAndDepsType DEF TypeOK
  <2>2. is.status = "PreAccepted" /\ is.cmd = m.cmd OBVIOUS
  <2>3. reply.type \in PreAcceptAnswers /\ reply.id = m.id /\ reply.from = p
    BY DEF Reply, PreAcceptAnswers
  <2>4. local.deps \subseteq Said(reply)
    <3> HIDE DEF local, seq
    <3>1. CASE same
      <4>1. IsFiniteSet(deps) BY <1>1, <2>1, InstanceIDFinite, FS_Subset
      <4>2. m.deps = deps
        <5>1. m.deps \in SUBSET deps OBVIOUS
        <5> HIDE DEF deps
        <5> QED BY <3>1, <4>1, <5>1, FS_Subset
      <4>3. m.deps \subseteq Deps(m.id) BY <1>1 DEF VoteInv, OneAnswer
      <4>4. Said(reply) = Deps(m.id) BY <3>1 DEF Reply, Said
      <4> QED BY <4>2, <4>3, <4>4
    <3>2. CASE ~ same
      BY <3>2 DEF Reply, Said
    <3> QED BY Zenon, <3>1, <3>2
  <2> HIDE DEF is, reply
  <2> QED BY Zenon, <1>1, <1>3, <2>2, <2>3, <2>4, AnswerVote
<1> QED BY ZenonT(30), <1>2, <1>3 DEF onPreAccept

(* As long as no replica restarts, every step has votes for its instances. *)
LEMMA VoteStep ==
  ASSUME TypeOK, Routed, TimerDiscipline, NEW Q \in [InstanceID -> SUBSET Nodes],
         VoteInv(Q), [Next]_vars, NoneRestarted'
  PROVE  \E Q2 \in [InstanceID -> SUBSET Nodes] : VoteInv(Q2)'
<1>1. ASSUME NEW p \in Nodes, NEW c \in Command, Request(p, c)
      PROVE  \E Q2 \in [InstanceID -> SUBSET Nodes] : VoteInv(Q2)'
  BY <1>1, VotesRequest
<1>2. ASSUME NEW m \in msgs, Ignore(m) PROVE VoteInv(Q)'
  BY <1>2, VotesUntouched DEF Ignore
<1>3. ASSUME NEW m \in msgs, Step(m)
      PROVE  \E Q2 \in [InstanceID -> SUBSET Nodes] : VoteInv(Q2)'
  <2>1. CASE onPreAcceptOK(m) BY <2>1, VotesOK
  <2>2. CASE onPreAcceptReply(m) BY <2>2, VotesReply
  <2>3. CASE Ignore(m) BY <1>2, <2>3
  <2>4. CASE onPreAccept(m) BY <2>4, VotesPreAccept
  <2>5. CASE onAccept(m) BY <2>5, VotesAccept
  <2>6. CASE onAcceptOK(m) BY <2>6, VotesAcceptOK
  <2>7. CASE onCommit(m) BY <2>7, VotesCommit
  <2> QED BY <1>3, <2>1, <2>2, <2>3, <2>4, <2>5, <2>6, <2>7 DEF Step
<1>4. ASSUME NEW p \in Nodes, Tick(p) PROVE VoteInv(Q)'
  BY <1>4, VotesTick
<1>5. ASSUME NEW p \in Nodes, Restart(p) PROVE FALSE
  <2>1. epoch'[p] = epoch[p] + 1 /\ epoch[p] \in Nat BY <1>5 DEF Restart, TypeOK
  <2> QED BY <2>1 DEF NoneRestarted
<1>6. CASE UNCHANGED vars BY <1>6, VotesUntouched DEF vars
<1> QED BY <1>1, <1>3, <1>4, <1>5, <1>6 DEF Next

(* In the initial state there are no votes.                                *)
LEMMA NoVotes == Init => VoteInv([y \in InstanceID |-> {}])
<1> SUFFICES ASSUME Init PROVE VoteInv([y \in InstanceID |-> {}])
  OBVIOUS
<1> DEFINE Q == [y \in InstanceID |-> {}]
<1>1. \A q \in Nodes, y \in InstanceID : log[q][y].status = "None" /\ log[q][y].cmd = Nil
  BY DEF Init, NewInstance
<1>2. \A y \in InstanceID : ~ Started(y) /\ Q[y] = {} BY <1>1, LeaderNode DEF Started
<1>3. msgs = {} /\ \A y \in InstanceID : lead[y].preAcceptReplies = 0
  BY DEF Init, NewLeader
<1> HIDE DEF Q
<1>4. OneCommand BY <1>1, <1>2, <1>3 DEF OneCommand
<1>5. OneAnswer(Q) BY <1>2, <1>3 DEF OneAnswer
<1>6. Counted(Q) BY <1>1, <1>3, LeaderNode DEF Counted, CountedAt
<1>7. VotesOrdered(Q) BY <1>2, <1>3, VotesMember DEF VotesOrdered
<1>8. OwnOrdered BY <1>2 DEF OwnOrdered
<1> QED BY <1>4, <1>5, <1>6, <1>7, <1>8 DEF VoteInv, Q

(* Two committed instances have voters in common.                          *)
LEMMA QuorumsMeet ==
  ASSUME NEW S \in SUBSET Nodes, NEW T \in SUBSET Nodes,
         quorum(Cardinality(S)), quorum(Cardinality(T))
  PROVE  S \cap T # {}
<1>1. IsFiniteSet(Nodes) BY ConstantsAssumption
<1>2. /\ Cardinality(Nodes) \in Nat /\ Cardinality(S) \in Nat /\ Cardinality(T) \in Nat
  <2>1. IsFiniteSet(S) /\ IsFiniteSet(T) BY Zenon, <1>1, FS_Subset
  <2> QED BY Zenon, <1>1, <2>1, FS_CardinalityType
<1>3. Cardinality(S) + Cardinality(T) > Cardinality(Nodes) BY <1>2 DEF quorum
<1> QED BY <1>1, <1>3, FS_MajoritiesIntersect

(* Votes order committed interfering instances: a replica voted for both.  *)
LEMMA VotesOrderDecided ==
  ASSUME TypeOK, NEW Q \in [InstanceID -> SUBSET Nodes], VoteInv(Q)
  PROVE  InterferingOrdered
<1> SUFFICES ASSUME NEW x \in InstanceID, NEW y \in InstanceID, x # y,
                    Decided(x[1], x), Decided(y[1], y),
                    Interferes(log[x[1]][x].cmd, log[y[1]][y].cmd)
             PROVE  DependsOn(x, y) \/ DependsOn(y, x)
  BY DEF InterferingOrdered
<1>1. quorum(Cardinality(Q[x])) /\ quorum(Cardinality(Q[y]))
  BY DEF VoteInv, Counted, CountedAt, Decided, IsDecision
<1>2. PICK q \in Nodes : q \in Q[x] /\ q \in Q[y] BY <1>1, QuorumsMeet
<1>3. Deps(x) \in Votes(Q, q, x) /\ Deps(y) \in Votes(Q, q, y) BY <1>2, VotesMember
<1>4. Interferes(Cmd(x), Cmd(y)) BY DEF Cmd
<1>5. Covers(Deps(x), y) \/ Covers(Deps(y), x) BY <1>3, <1>4 DEF VoteInv, VotesOrdered
<1> QED BY <1>5 DEF Covers, Deps, Cmd, DependsOn

(* As long as no replica restarts, the replicas voted.                     *)
HasVotes == \E Q \in [InstanceID -> SUBSET Nodes] : VoteInv(Q)

(* Every step of replicas that do not restart keeps the votes in order.    *)
LEMMA VotesInvariant == Spec => [](NoneRestarted => HasVotes)
<1> DEFINE Inv == NoneRestarted => HasVotes
<1>1. Init => Inv
  <2>1. [y \in InstanceID |-> {}] \in [InstanceID -> SUBSET Nodes] OBVIOUS
  <2> QED BY <2>1, NoVotes DEF HasVotes
<1>2. TypeOK /\ Routed /\ TimerDiscipline /\ Inv /\ [Next]_vars => Inv'
  <2> SUFFICES ASSUME TypeOK, Routed, TimerDiscipline, Inv, [Next]_vars, NoneRestarted'
               PROVE  HasVotes'
    OBVIOUS
  <2>1. HasVotes BY RestartsCounted
  <2>2. PICK Q \in [InstanceID -> SUBSET Nodes] : VoteInv(Q) BY <2>1 DEF HasVotes
  <2> QED BY <2>2, VoteStep DEF HasVotes
<1>3. AgreementInv => TypeOK /\ Routed BY DEF AgreementInv, Routed
<1> QED BY <1>1, <1>2, <1>3, TimersDisciplined, AgreementInvariant, PTL DEF Spec

(* As long as no replica restarts, of two committed instances with         *)
(* interfering commands one depends on the other, for any replicas and     *)
(* commands and any order and loss of messages: the quorums of PreAccepts  *)
(* meet in a replica, and the dependencies that seqAndDepsForCommand       *)
(* computes there, pruned as they are, stand for every interfering         *)
(* instance it knew.                                                       *)
THEOREM CommittedOrdered == Spec => [](NoneRestarted => InterferingOrdered)
<1>1. TypeOK /\ HasVotes => InterferingOrdered BY VotesOrderDecided DEF HasVotes
<1>2. AgreementInv => TypeOK BY DEF AgreementInv
<1> QED BY <1>1, <1>2, VotesInvariant, AgreementInvariant, PTL

=============================================================================
