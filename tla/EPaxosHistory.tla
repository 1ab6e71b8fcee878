--------------------------- MODULE EPaxosHistory ----------------------------
(***************************************************************************)
(* The order in which replicas execute: what one replica executed, in all  *)
(* runs of its executor, is in an order the committed data admits, and as  *)
(* long as no replica restarts two replicas execute interfering commands   *)
(* in the same order.                                                      *)
(***************************************************************************)
EXTENDS EPaxosOrder, EPaxosExecution

-----------------------------------------------------------------------------
(* What is executed is executed in an admissible order.                    *)

(* C holds the dependencies of its members, which are the same in l and k. *)
ClosedIn(l, k, C) ==
  \A x \in C : l[x].deps \subseteq C /\ k[x].deps = l[x].deps /\ k[x].seq = l[x].seq

(* What a member of a closed set reaches is in the set, and is what it     *)
(* reaches in every larger set.                                            *)
LEMMA ReachesClosed ==
  ASSUME NEW l, NEW k, NEW C, NEW E, C \subseteq E, ClosedIn(l, k, C), NEW a \in C, NEW b
  PROVE  /\ Reaches(l, E, a, b) <=> Reaches(k, C, a, b)
         /\ Reaches(l, E, a, b) => b \in C
<1>1. ASSUME Reaches(k, C, a, b) PROVE Reaches(l, E, a, b)
  <2> SUFFICES ASSUME NEW S \in SUBSET E, \A x \in S \cup {a} : l[x].deps \cap E \subseteq S
               PROVE  b \in S
    BY Zenon DEF Reaches
  <2>1. S \cap C \in SUBSET C OBVIOUS
  <2>2. \A x \in (S \cap C) \cup {a} : k[x].deps \cap C \subseteq S \cap C
    BY DEF ClosedIn
  <2>3. b \in S \cap C BY Zenon, <1>1, <2>1, <2>2 DEF Reaches
  <2> QED BY <2>3
<1>2. ASSUME Reaches(l, E, a, b) PROVE Reaches(k, C, a, b)
  <2> SUFFICES ASSUME NEW S \in SUBSET C, \A x \in S \cup {a} : k[x].deps \cap C \subseteq S
               PROVE  b \in S
    BY Zenon DEF Reaches
  <2>1. S \in SUBSET E OBVIOUS
  <2>2. \A x \in S \cup {a} : l[x].deps \cap E \subseteq S
    BY DEF ClosedIn
  <2> QED BY Zenon, <1>2, <2>1, <2>2 DEF Reaches
<1>3. ASSUME Reaches(l, E, a, b) PROVE b \in C
  <2>1. C \in SUBSET E OBVIOUS
  <2>2. \A x \in C \cup {a} : l[x].deps \cap E \subseteq C BY DEF ClosedIn
  <2> QED BY Zenon, <1>3, <2>1, <2>2 DEF Reaches
<1> QED BY <1>1, <1>2, <1>3

(* Outside of a closed set, members of the rest reach one another only     *)
(* inside the rest.                                                        *)
LEMMA ReachesRest ==
  ASSUME NEW l, NEW C, NEW E, C \cap E = {}, \A x \in C : l[x].deps \subseteq C,
         \A x \in E : l[x].deps \subseteq C \cup E, NEW a \in E, NEW b \in E
  PROVE  Reaches(l, C \cup E, a, b) <=> Reaches(l, E, a, b)
<1>1. ASSUME Reaches(l, C \cup E, a, b) PROVE Reaches(l, E, a, b)
  <2> SUFFICES ASSUME NEW S \in SUBSET E, \A x \in S \cup {a} : l[x].deps \cap E \subseteq S
               PROVE  b \in S
    BY Zenon DEF Reaches
  <2>1. S \cup C \in SUBSET (C \cup E) OBVIOUS
  <2>2. \A x \in (S \cup C) \cup {a} : l[x].deps \cap (C \cup E) \subseteq S \cup C
    OBVIOUS
  <2>3. b \in S \cup C BY Zenon, <1>1, <2>1, <2>2 DEF Reaches
  <2> QED BY <2>3
<1>2. ASSUME Reaches(l, E, a, b) PROVE Reaches(l, C \cup E, a, b)
  <2> SUFFICES ASSUME NEW S \in SUBSET (C \cup E),
                      \A x \in S \cup {a} : l[x].deps \cap (C \cup E) \subseteq S
               PROVE  b \in S
    BY Zenon DEF Reaches
  <2>1. S \cap E \in SUBSET E OBVIOUS
  <2>2. \A x \in (S \cap E) \cup {a} : l[x].deps \cap E \subseteq S \cap E
    OBVIOUS
  <2>3. b \in S \cap E BY Zenon, <1>2, <2>1, <2>2 DEF Reaches
  <2> QED BY <2>3
<1> QED BY <1>1, <1>2

(* An order stays admissible when only other instances, or the status of   *)
(* its own, change.                                                        *)
LEMMA AdmissibleData ==
  ASSUME NEW l, NEW k, NEW order \in Seq(InstanceID), Admissible(l, order),
         \A x \in Range(order) : k[x].deps = l[x].deps /\ k[x].seq = l[x].seq
  PROVE  Admissible(k, order)
<1> DEFINE E == Range(order)
<1>1. \A i \in DOMAIN order : order[i] \in E BY DEF Range
<1>2. \A a, b \in E : Reaches(k, E, a, b) <=> Reaches(l, E, a, b)
  <2> SUFFICES ASSUME NEW a \in E, NEW b \in E
               PROVE  Reaches(k, E, a, b) <=> Reaches(l, E, a, b)
    OBVIOUS
  <2> HIDE DEF E
  <2>1. \A S \in SUBSET E :
          (\A x \in S \cup {a} : k[x].deps \cap E \subseteq S)
          <=> (\A x \in S \cup {a} : l[x].deps \cap E \subseteq S)
    BY DEF E
  <2> QED BY Zenon, <2>1 DEF Reaches
<1>3. \A a, b \in E : /\ SameSCC(k, E, a, b) <=> SameSCC(l, E, a, b)
                      /\ ExecutesBefore(k, a, b) <=> ExecutesBefore(l, a, b)
  BY <1>2 DEF SameSCC, ExecutesBefore
<1> SUFFICES ASSUME NEW i \in DOMAIN order, NEW j \in DOMAIN order, i < j
             PROVE  IF SameSCC(k, E, order[i], order[j])
                    THEN /\ ~ ExecutesBefore(k, order[j], order[i])
                         /\ \A n \in i..j : SameSCC(k, E, order[i], order[n])
                    ELSE ~ Reaches(k, E, order[i], order[j])
  BY DEF Admissible
<1>4. \A n \in i..j : n \in DOMAIN order
  <2>1. DOMAIN order = 1..Len(order) /\ Len(order) \in Nat OBVIOUS
  <2> QED BY <2>1
<1>5. IF SameSCC(l, E, order[i], order[j])
      THEN /\ ~ ExecutesBefore(l, order[j], order[i])
           /\ \A n \in i..j : SameSCC(l, E, order[i], order[n])
      ELSE ~ Reaches(l, E, order[i], order[j])
  BY DEF Admissible
<1> QED BY Zenon, <1>1, <1>2, <1>3, <1>4, <1>5

(* Two admissible orders, one after the other: the first is one of a       *)
(* closed set, and the second depends on the first or on itself.           *)
LEMMA AdmissibleConcat ==
  ASSUME NEW l, NEW s \in Seq(InstanceID), NEW t \in Seq(InstanceID),
         Admissible(l, s), Admissible(l, t), Range(s) \cap Range(t) = {},
         \A x \in Range(s) : l[x].deps \subseteq Range(s),
         \A x \in Range(t) : l[x].deps \subseteq Range(s) \cup Range(t)
  PROVE  Admissible(l, s \o t)
<1> DEFINE u == s \o t
           C == Range(s)
           E == Range(t)
<1>1. /\ Len(s) \in Nat /\ Len(t) \in Nat
      /\ DOMAIN s = 1..Len(s) /\ DOMAIN t = 1..Len(t) /\ DOMAIN u = 1..(Len(s) + Len(t))
  OBVIOUS
<1>2. \A i \in DOMAIN u : u[i] = IF i <= Len(s) THEN s[i] ELSE t[i - Len(s)]
  BY <1>1
<1>3. Range(u) = C \cup E
  <2>1. Range(u) \subseteq C \cup E
    <3>1. \A i \in DOMAIN u : i \in DOMAIN s \/ i - Len(s) \in DOMAIN t BY <1>1
    <3> QED BY <1>1, <1>2, <3>1 DEF Range
  <2>2. C \subseteq Range(u)
    <3>1. \A i \in DOMAIN s : i \in DOMAIN u /\ u[i] = s[i] BY <1>1, <1>2
    <3> QED BY <3>1 DEF Range
  <2>3. E \subseteq Range(u)
    <3>1. \A i \in DOMAIN t : i + Len(s) \in DOMAIN u /\ u[i + Len(s)] = t[i] BY <1>1, <1>2
    <3> QED BY Zenon, <3>1 DEF Range
  <2> QED BY <2>1, <2>2, <2>3
<1>4. /\ \A i \in DOMAIN s : s[i] \in C
      /\ \A i \in DOMAIN t : t[i] \in E
  BY DEF Range
<1> HIDE DEF C, E, u
<1>5. C \cap E = {} /\ (\A x \in C : l[x].deps \subseteq C)
      /\ (\A x \in E : l[x].deps \subseteq C \cup E)
  BY DEF C, E
<1>6. \A a, b \in C : Reaches(l, C \cup E, a, b) <=> Reaches(l, C, a, b)
  BY <1>5, ReachesClosed DEF ClosedIn
<1>7. \A a \in C, b \in E : ~ Reaches(l, C \cup E, a, b)
  BY Zenon, <1>5, ReachesClosed DEF ClosedIn
<1>8. \A a, b \in E : Reaches(l, C \cup E, a, b) <=> Reaches(l, E, a, b)
  BY Zenon, <1>5, ReachesRest
<1>9. /\ \A a, b \in C : SameSCC(l, C \cup E, a, b) <=> SameSCC(l, C, a, b)
      /\ \A a, b \in E : SameSCC(l, C \cup E, a, b) <=> SameSCC(l, E, a, b)
      /\ \A a \in C, b \in E : ~ SameSCC(l, C \cup E, a, b)
  BY Zenon, <1>5, <1>6, <1>7, <1>8 DEF SameSCC
<1> SUFFICES Admissible(l, u) BY DEF u
<1> SUFFICES ASSUME NEW i \in DOMAIN u, NEW j \in DOMAIN u, i < j
             PROVE  IF SameSCC(l, Range(u), u[i], u[j])
                    THEN /\ ~ ExecutesBefore(l, u[j], u[i])
                         /\ \A n \in i..j : SameSCC(l, Range(u), u[i], u[n])
                    ELSE ~ Reaches(l, Range(u), u[i], u[j])
  BY DEF Admissible
<1> SUFFICES IF SameSCC(l, C \cup E, u[i], u[j])
             THEN /\ ~ ExecutesBefore(l, u[j], u[i])
                  /\ \A n \in i..j : SameSCC(l, C \cup E, u[i], u[n])
             ELSE ~ Reaches(l, C \cup E, u[i], u[j])
  BY Zenon, <1>3
<1>10. i \in Nat /\ j \in Nat BY <1>1
<1>11. CASE j <= Len(s)
  <2>1. i \in DOMAIN s /\ j \in DOMAIN s /\ u[i] = s[i] /\ u[j] = s[j]
        /\ \A n \in i..j : n \in DOMAIN s /\ u[n] = s[n]
    BY <1>1, <1>2, <1>10, <1>11
  <2>2. IF SameSCC(l, C, s[i], s[j])
        THEN /\ ~ ExecutesBefore(l, s[j], s[i])
             /\ \A n \in i..j : SameSCC(l, C, s[i], s[n])
        ELSE ~ Reaches(l, C, s[i], s[j])
    BY <2>1 DEF Admissible, C
  <2>3. \A n \in i..j : s[n] \in C BY <1>4, <2>1
  <2>4. s[i] \in C /\ s[j] \in C BY <1>4, <2>1
  <2> QED BY Zenon, <1>6, <1>9, <2>1, <2>2, <2>3, <2>4
<1>12. CASE i > Len(s)
  <2> DEFINE f == i - Len(s)
             g == j - Len(s)
  <2>1. /\ f \in DOMAIN t /\ g \in DOMAIN t /\ f < g /\ u[i] = t[f] /\ u[j] = t[g]
        /\ \A n \in i..j : /\ n - Len(s) \in f..g /\ n - Len(s) \in DOMAIN t
                           /\ u[n] = t[n - Len(s)]
    BY <1>1, <1>2, <1>10, <1>12
  <2> HIDE DEF f, g
  <2>2. IF SameSCC(l, E, t[f], t[g])
        THEN /\ ~ ExecutesBefore(l, t[g], t[f])
             /\ \A n \in f..g : SameSCC(l, E, t[f], t[n])
        ELSE ~ Reaches(l, E, t[f], t[g])
    BY <2>1 DEF Admissible, E
  <2>3. \A n \in i..j : u[n] \in E BY <1>4, <2>1
  <2>4. t[f] \in E /\ t[g] \in E BY <1>4, <2>1
  <2> QED BY Zenon, <1>8, <1>9, <2>1, <2>2, <2>3, <2>4
<1>13. CASE i <= Len(s) /\ j > Len(s)
  <2>1. /\ i \in DOMAIN s /\ u[i] = s[i]
        /\ j - Len(s) \in DOMAIN t /\ u[j] = t[j - Len(s)]
    BY <1>1, <1>2, <1>10, <1>13
  <2>2. u[i] \in C /\ u[j] \in E BY <1>4, <2>1
  <2> QED BY Zenon, <1>7, <1>9, <2>2
<1>14. j <= Len(s) \/ i > Len(s) \/ (i <= Len(s) /\ j > Len(s)) BY <1>1, <1>10
<1> QED BY Zenon, <1>11, <1>12, <1>13, <1>14

(* The history of every replica is admissible, and holds what its members  *)
(* depend on.                                                              *)
HistoryInv ==
  \A p \in Nodes :
    /\ Admissible(log[p], executed[p])
    /\ \A x \in Range(executed[p]) : log[p][x].deps \subseteq Range(executed[p])

(* Every step keeps the histories admissible.                              *)
LEMMA HistoryStep ==
  ASSUME AgreementInv, AgreementInv', ExecutedOnce, ExecutedOnce', HistoryInv, [Next]_vars
  PROVE  HistoryInv'
<1>1. TypeOK /\ TypeOK' BY DEF AgreementInv
<1>2. ASSUME NEW q \in Nodes, executed'[q] = executed[q],
             \A x \in Range(executed[q]) : SameData(log'[q][x], log[q][x])
      PROVE  /\ Admissible(log'[q], executed'[q])
             /\ \A x \in Range(executed'[q]) : log'[q][x].deps \subseteq Range(executed'[q])
  <2>1. Admissible(log[q], executed[q]) BY DEF HistoryInv
  <2>2. Admissible(log'[q], executed[q])
    <3>1. executed[q] \in Seq(InstanceID) BY <1>1 DEF TypeOK
    <3> QED BY <1>2, <2>1, <3>1, AdmissibleData DEF SameData
  <2>3. \A x \in Range(executed[q]) : log'[q][x].deps \subseteq Range(executed[q])
    BY <1>2 DEF HistoryInv, SameData
  <2> QED BY <1>2, <2>2, <2>3
<1>3. CASE Idle
  <2>1. \A q \in Nodes : \A x \in Range(executed[q]) :
          x \in InstanceID /\ log[q][x].status = "Executed"
    <3>1. \A q \in Nodes : executed[q] \in Seq(InstanceID) BY <1>1 DEF TypeOK
    <3>2. \A q \in Nodes : \A x \in Range(executed[q]) : x \in InstanceID
      BY <3>1 DEF Range
    <3> QED BY <3>2 DEF ExecutedOnce
  <2>2. \A q \in Nodes : \A x \in Range(executed[q]) : log'[q][x] = log[q][x]
    BY <1>3, <2>1 DEF Idle, IsDecision
  <2>3. \A q \in Nodes : executed'[q] = executed[q] BY <1>3 DEF Idle
  <2> QED BY <1>2, <2>2, <2>3 DEF HistoryInv, SameData
<1>4. ASSUME NEW p, NEW l, NEW persisted, Runs(p, l, persisted) PROVE HistoryInv'
  <2>1. /\ p \in Nodes /\ l \in [InstanceID -> InstanceState]
        /\ \A id \in InstanceID :
             /\ l[id].status = "Executed" <=> id \in Range(executed[p])
             /\ l[id].status = "Executed" => l[id] = log[p][id]
    BY <1>4 DEF Runs
  <2>2. PICK order \in ExecutionOrders(l) :
          /\ \A q \in Nodes : q # p => log'[q] = log[q] /\ executed'[q] = executed[q]
          /\ executed'[p] = executed[p] \o order
          /\ \A id \in InstanceID :
               /\ SameData(log'[p][id], l[id])
               /\ id \in Range(order) => log'[p][id].status = "Executed"
               /\ id \notin Range(order) => log'[p][id] = l[id]
    BY <1>1, <1>4, RunEffect
  <2> DEFINE s == executed[p]
             k == log'[p]
  <2>3. /\ order \in Seq(InstanceID) /\ Range(order) = Executable(l)
        /\ \A id \in Range(order) : id \in InstanceID /\ l[id].status = "Committed"
    BY <2>1, <2>2, ExecutionOrdersType, OrderOfExecutable
  <2>4. s \in Seq(InstanceID) BY <1>1, <2>1 DEF TypeOK
  <2>5. Range(s) \subseteq InstanceID BY <2>4 DEF Range
  <2>6. Range(s) \cap Range(order) = {} BY <2>1, <2>3
  <2>7. \A id \in InstanceID : k[id].deps = l[id].deps /\ k[id].seq = l[id].seq
    BY <2>2 DEF SameData
  <2>8. \A x \in Range(s) : k[x].deps = log[p][x].deps /\ k[x].seq = log[p][x].seq
    BY <2>1, <2>5, <2>7
  <2>9. Admissible(k, s)
    <3>1. Admissible(log[p], s) BY <2>1 DEF HistoryInv
    <3> HIDE DEF s, k
    <3> QED BY <2>4, <2>8, <3>1, AdmissibleData
  <2>10. Admissible(k, order)
    <3>1. Admissible(l, order) BY <2>2 DEF ExecutionOrders
    <3> HIDE DEF k
    <3> QED BY <2>3, <2>7, <3>1, AdmissibleData
  <2>11. \A x \in Range(s) : k[x].deps \subseteq Range(s)
    BY <2>1, <2>8 DEF HistoryInv
  <2>12. \A x \in Range(order) : k[x].deps \subseteq Range(s) \cup Range(order)
    <3> SUFFICES ASSUME NEW x \in Range(order), NEW d \in k[x].deps
                 PROVE  d \in Range(s) \cup Range(order)
      OBVIOUS
    <3>1. x \in InstanceID /\ d \in l[x].deps /\ x \in Executable(l) BY <2>3, <2>7
    <3>2. d \in Executable(l) \/ l[d].status = "Executed" BY <2>1, <3>1, ExecutableClosed
    <3>3. d \in InstanceID BY <2>1, <3>1 DEF InstanceState
    <3> QED BY <2>1, <2>3, <3>2, <3>3
  <2> HIDE DEF s, k
  <2>13. Admissible(k, s \o order)
    BY <2>3, <2>4, <2>6, <2>9, <2>10, <2>11, <2>12, AdmissibleConcat
  <2>14. Range(s \o order) = Range(s) \cup Range(order)
    <3>1. IsInjective(s) BY <2>1 DEF ExecutedOnce, s
    <3>2. IsInjective(s \o order) BY Zenon, <2>1, <2>2 DEF ExecutedOnce, s
    <3>3. IsInjective(order)
      <4>1. /\ \A i \in DOMAIN order : i + Len(s) \in DOMAIN (s \o order)
                                       /\ (s \o order)[i + Len(s)] = order[i]
            /\ Len(s) \in Nat /\ DOMAIN order \subseteq Int
        BY <2>3, <2>4
      <4>2. \A i, j \in DOMAIN order : order[i] = order[j] => i + Len(s) = j + Len(s)
        BY <3>2, <4>1 DEF IsInjective
      <4> QED BY <4>1, <4>2 DEF IsInjective
    <3> QED BY <2>3, <2>4, <2>6, <3>1, <3>3, InjectiveConcat
  <2>15. \A x \in Range(s \o order) : k[x].deps \subseteq Range(s \o order)
    BY <2>11, <2>12, <2>14
  <2>16. executed'[p] = s \o order /\ log'[p] = k BY <2>2 DEF s, k
  <2>17. ASSUME NEW q \in Nodes
         PROVE  /\ Admissible(log'[q], executed'[q])
                /\ \A x \in Range(executed'[q]) :
                     log'[q][x].deps \subseteq Range(executed'[q])
    <3>1. CASE q = p BY Zenon, <2>13, <2>15, <2>16, <3>1
    <3>2. CASE q # p BY <1>2, <2>2, <3>2 DEF SameData
    <3> QED BY <3>1, <3>2
  <2> QED BY <2>17 DEF HistoryInv
<1> QED BY <1>3, <1>4, StepKinds DEF SomeRun

(* The histories are admissible, with what their members depend on.        *)
LEMMA HistoryInvariant == Spec => []HistoryInv
<1>1. Init => HistoryInv
  <2> SUFFICES ASSUME Init, NEW p \in Nodes
               PROVE  Admissible(log[p], executed[p]) /\ Range(executed[p]) = {}
    BY DEF HistoryInv
  <2>1. executed[p] = <<>> BY DEF Init
  <2>2. DOMAIN executed[p] = {} BY <2>1
  <2> QED BY <2>2 DEF Admissible, Range
<1> QED BY <1>1, HistoryStep, NothingExecutedTwice, AgreementInvariant, PTL DEF Spec

(* Everything a replica executed, in all runs of its executor and across   *)
(* its restarts, is in one admissible order of the committed data: later   *)
(* commits never show that something was executed too early.               *)
THEOREM HistoryStaysAdmissible == Spec => []HistoryAdmissible
<1>1. HistoryInv => HistoryAdmissible BY DEF HistoryInv, HistoryAdmissible
<1> QED BY <1>1, HistoryInvariant, PTL

-----------------------------------------------------------------------------
(* Replicas execute interfering commands in the same order.                *)

(* An instance reaches its dependencies.                                   *)
LEMMA ReachesStep ==
  ASSUME NEW l, NEW C, NEW a, NEW d, d \in l[a].deps, d \in C
  PROVE  Reaches(l, C, a, d)
<1> SUFFICES ASSUME NEW S \in SUBSET C, \A x \in S \cup {a} : l[x].deps \cap C \subseteq S
             PROVE  d \in S
  BY Zenon DEF Reaches
<1> QED OBVIOUS

(* Reaching is transitive.                                                 *)
LEMMA ReachesTransitive ==
  ASSUME NEW l, NEW C, NEW a, NEW b, NEW c, Reaches(l, C, a, b), Reaches(l, C, b, c)
  PROVE  Reaches(l, C, a, c)
<1> SUFFICES ASSUME NEW S \in SUBSET C, \A x \in S \cup {a} : l[x].deps \cap C \subseteq S
             PROVE  c \in S
  BY Zenon DEF Reaches
<1>1. b \in S BY Zenon DEF Reaches
<1>2. \A x \in S \cup {b} : l[x].deps \cap C \subseteq S BY <1>1
<1> QED BY Zenon, <1>2 DEF Reaches

(* A nonempty set of instances has one with the lowest number.             *)
LEMMA FirstInstance ==
  ASSUME NEW W \in SUBSET InstanceID, W # {}
  PROVE  \E w \in W : \A v \in W : ~ (v[2] < w[2])
<1> DEFINE S == {w[2] : w \in W}
<1>1. S \subseteq Nat /\ S # {} BY ConstantsAssumption DEF InstanceID
<1>2. \A w \in W : w[2] \in S OBVIOUS
<1>3. \A n \in S : \E w \in W : n = w[2] OBVIOUS
<1> HIDE DEF S
<1>4. PICK n \in S : \A k \in S : ~ (<<k, n>> \in OpToRel(<, Nat))
  BY Zenon, <1>1, NatLessThanWellFounded, WFMin
<1>5. \A k \in S : ~ (k < n) BY Zenon, <1>1, <1>4 DEF OpToRel
<1> QED BY <1>2, <1>3, <1>5

(* C is a set of instances that p executed, with their dependencies and    *)
(* the data their leaders decided.                                         *)
Part(p, C) ==
  /\ C \in SUBSET InstanceID
  /\ \A z \in C : /\ log[p][z].deps \subseteq C /\ Started(z)
                  /\ SameData(log[p][z], log[z[1]][z])

(* The commands of instances that exist are commands.                      *)
LEMMA StartedCommand ==
  ASSUME TypeOK, OneCommand, NEW z \in InstanceID, Started(z)
  PROVE  IsCommand(Cmd(z))
<1>1. Cmd(z) \in Command \cup {Nil} /\ Cmd(z) # Nil
  BY LeaderNode DEF TypeOK, InstanceState, Cmd, OneCommand
<1> QED BY <1>1, CommandsAssumption

(* An executed instance reaches the earlier interfering instances of its   *)
(* own replica, through the instances that stand for them.                 *)
LEMMA OwnReaches ==
  ASSUME TypeOK, OneCommand, OwnOrdered, NEW p \in Nodes, NEW C, Part(p, C),
         NEW x \in C, NEW y \in C, x[1] = y[1], y[2] < x[2], Interferes(Cmd(y), Cmd(x))
  PROVE  Reaches(log[p], C, x, y)
<1> DEFINE stuck(z) == /\ z[1] = y[1] /\ y[2] < z[2] /\ Interferes(Cmd(y), Cmd(z))
                       /\ ~ Reaches(log[p], C, z, y)
           W == {z \in C : stuck(z)}
<1> SUFFICES ASSUME W # {} PROVE FALSE OBVIOUS
<1>1. C \in SUBSET InstanceID BY DEF Part
<1>2. W \in SUBSET InstanceID BY <1>1
<1>3. PICK w \in W : \A v \in W : ~ (v[2] < w[2])
  <2> HIDE DEF W
  <2> QED BY <1>2, FirstInstance
<1>4. w \in C /\ stuck(w) /\ w \in InstanceID /\ y \in InstanceID BY <1>1
<1>5. Started(w) /\ Started(y) BY <1>4 DEF Part
<1>6. PICK d \in Deps(w) : /\ d[1] = y[1] /\ d[2] < w[2] /\ Started(d)
                           /\ d = y \/ (d[2] > y[2] /\ Interferes(Cmd(d), Cmd(y)))
  BY <1>4, <1>5 DEF OwnOrdered
<1>7. d \in C /\ d \in log[p][w].deps /\ d \in InstanceID
  BY <1>1, <1>4, <1>6 DEF Part, SameData, Deps
<1>8. Reaches(log[p], C, w, d) BY <1>7, ReachesStep
<1>9. CASE d = y BY <1>4, <1>8, <1>9
<1>10. CASE d[2] > y[2] /\ Interferes(Cmd(d), Cmd(y))
  <2>1. Interferes(Cmd(y), Cmd(d))
    BY <1>4, <1>5, <1>6, <1>7, <1>10, StartedCommand, InterferesSymmetric
  <2>2. y[2] < d[2] BY <1>4, <1>7, <1>10 DEF InstanceID
  <2>3. Reaches(log[p], C, d, y) BY <1>3, <1>6, <1>7, <2>1, <2>2
  <2>4. Reaches(log[p], C, w, y) BY <1>8, <2>3, ReachesTransitive
  <2> QED BY <1>4, <2>4
<1> QED BY <1>6, <1>9, <1>10

(* Of two executed interfering instances, one reaches the other.           *)
LEMMA InterferingReach ==
  ASSUME TypeOK, OneCommand, OwnOrdered, NEW p \in Nodes, NEW C, Part(p, C),
         NEW x \in C, NEW y \in C, DependsOn(x, y)
  PROVE  Reaches(log[p], C, x, y)
<1>1. C \in SUBSET InstanceID BY DEF Part
<1>2. x \in InstanceID /\ y \in InstanceID /\ Started(y) BY <1>1 DEF Part
<1>3. PICK d \in log[x[1]][x].deps :
        \/ d = y
        \/ d[1] = y[1] /\ d[2] > y[2] /\ Interferes(log[d[1]][d].cmd, log[y[1]][y].cmd)
  BY DEF DependsOn
<1>4. d \in C /\ d \in log[p][x].deps /\ d \in InstanceID /\ Started(d)
  BY <1>1, <1>3 DEF Part, SameData
<1>5. Reaches(log[p], C, x, d) BY <1>4, ReachesStep
<1>6. CASE d = y BY <1>5, <1>6
<1>7. CASE d[1] = y[1] /\ d[2] > y[2] /\ Interferes(Cmd(d), Cmd(y))
  <2>1. Interferes(Cmd(y), Cmd(d))
    BY <1>2, <1>4, <1>7, StartedCommand, InterferesSymmetric
  <2>2. y[2] < d[2] BY <1>2, <1>4, <1>7 DEF InstanceID
  <2>3. Reaches(log[p], C, d, y) BY <1>4, <1>7, <2>1, <2>2, OwnReaches
  <2> QED BY <1>5, <2>3, ReachesTransitive
<1> QED BY <1>3, <1>6, <1>7 DEF Cmd

(* What a replica executed is decided, and so is its data.                 *)
LEMMA ExecutedDecided ==
  ASSUME AgreementInv, ExecutedOnce, NEW p \in Nodes, NEW z \in Range(executed[p])
  PROVE  /\ z \in InstanceID /\ Decided(z[1], z) /\ Started(z)
         /\ SameData(log[p][z], log[z[1]][z])
<1>1. TypeOK BY DEF AgreementInv
<1>2. executed[p] \in Seq(InstanceID) BY <1>1 DEF TypeOK
<1>3. z \in InstanceID BY <1>2 DEF Range
<1>4. log[p][z].status = "Executed" BY <1>3 DEF ExecutedOnce
<1>5. AsDecided(z, log[p][z]) BY <1>3, <1>4 DEF AgreementInv, Decided, IsDecision
<1> QED BY <1>3, <1>5 DEF AsDecided, Decided, IsDecision, Started

(* Positions are where At says.                                            *)
LEMMA PositionOf ==
  ASSUME TypeOK, NEW p \in Nodes, NEW z \in Range(executed[p])
  PROVE  At(p, z) \in DOMAIN executed[p] /\ executed[p][At(p, z)] = z /\ At(p, z) \in Nat
<1>1. executed[p] \in Seq(InstanceID) BY DEF TypeOK
<1>2. \E i \in DOMAIN executed[p] : executed[p][i] = z BY DEF Range
<1>3. At(p, z) \in DOMAIN executed[p] /\ executed[p][At(p, z)] = z
  BY Zenon, <1>2 DEF At
<1>4. DOMAIN executed[p] \subseteq Nat BY <1>1
<1> QED BY <1>3, <1>4

(* What the history of p says of two instances, one executed before the    *)
(* other, in terms of a part C of what p executed.                         *)
LEMMA ExecutedBefore ==
  ASSUME TypeOK, HistoryInv, NEW p \in Nodes, NEW k, NEW C,
         C \subseteq Range(executed[p]), ClosedIn(log[p], k, C),
         NEW x \in C, NEW y \in C, x # y, At(p, x) < At(p, y)
  PROVE  IF Reaches(k, C, x, y) /\ Reaches(k, C, y, x) THEN ~ ExecutesBefore(k, y, x)
         ELSE ~ Reaches(k, C, x, y)
<1> DEFINE E == Range(executed[p])
           l == log[p]
           s == executed[p]
<1>1. /\ At(p, x) \in DOMAIN s /\ s[At(p, x)] = x
      /\ At(p, y) \in DOMAIN s /\ s[At(p, y)] = y
  BY PositionOf
<1>2. Admissible(l, s) BY DEF HistoryInv
<1>3. IF SameSCC(l, E, x, y) THEN ~ ExecutesBefore(l, y, x) ELSE ~ Reaches(l, E, x, y)
  <2> HIDE DEF l, s
  <2> DEFINE i == At(p, x)
             j == At(p, y)
  <2>1. i \in DOMAIN s /\ j \in DOMAIN s /\ i < j /\ s[i] = x /\ s[j] = y BY <1>1
  <2> HIDE DEF i, j
  <2>2. IF SameSCC(l, Range(s), s[i], s[j])
        THEN ~ ExecutesBefore(l, s[j], s[i])
        ELSE ~ Reaches(l, Range(s), s[i], s[j])
    BY <1>2, <2>1 DEF Admissible
  <2> QED BY <2>1, <2>2 DEF s
<1>4. /\ Reaches(l, E, x, y) <=> Reaches(k, C, x, y)
      /\ Reaches(l, E, y, x) <=> Reaches(k, C, y, x)
  <2> HIDE DEF E, l
  <2>1. C \subseteq E /\ ClosedIn(l, k, C) BY DEF E, l
  <2> QED BY <2>1, ReachesClosed
<1>5. ExecutesBefore(l, y, x) <=> ExecutesBefore(k, y, x)
  BY DEF ClosedIn, ExecutesBefore
<1> QED BY Zenon, <1>3, <1>4, <1>5 DEF SameSCC

(* No two interfering instances of one replica were committed with the     *)
(* same sequence number.                                                   *)
TieFree ==
  \A x, y \in InstanceID :
    /\ x # y /\ x[1] = y[1] /\ Decided(x[1], x) /\ Decided(y[1], y)
    /\ Interferes(Cmd(x), Cmd(y))
    => log[x[1]][x].seq # log[y[1]][y].seq

(* Two replicas that execute two interfering instances in different orders *)
(* have committed two instances of one replica with the same number.       *)
LEMMA OrdersAgree ==
  ASSUME AgreementInv, ExecutedOnce, HistoryInv, HasVotes, InterferingOrdered, TieFree
  PROVE  ExecutionConsistency
<1> SUFFICES ASSUME NEW p \in Nodes, NEW q \in Nodes,
                    NEW x \in Range(executed[p]) \cap Range(executed[q]),
                    NEW y \in Range(executed[p]) \cap Range(executed[q]),
                    Interferes(log[p][x].cmd, log[p][y].cmd), At(p, x) < At(p, y),
                    ~ (At(q, x) < At(q, y))
             PROVE  FALSE
  BY DEF ExecutionConsistency
<1> DEFINE C == Range(executed[p]) \cap Range(executed[q])
           l == log[p]
<1>1. TypeOK BY DEF AgreementInv
<1>2. OneCommand /\ OwnOrdered BY DEF HasVotes, VoteInv
<1>3. \A z \in C : /\ z \in InstanceID /\ Decided(z[1], z) /\ Started(z)
                   /\ SameData(log[p][z], log[z[1]][z]) /\ SameData(log[q][z], log[z[1]][z])
  BY ExecutedDecided
<1>4. \A z \in C : l[z].deps \subseteq C /\ SameData(l[z], log[q][z])
  BY <1>3 DEF HistoryInv, SameData
<1>5. Part(p, C) BY <1>3, <1>4 DEF Part
<1>6. ClosedIn(log[p], l, C) /\ ClosedIn(log[q], l, C)
  BY <1>4 DEF ClosedIn, SameData
<1>7. /\ At(p, x) \in Nat /\ At(p, y) \in Nat /\ At(q, x) \in Nat /\ At(q, y) \in Nat
      /\ executed[q][At(q, x)] = x /\ executed[q][At(q, y)] = y
  BY <1>1, PositionOf
<1>8. x # y BY <1>7
<1>9. At(q, y) < At(q, x) BY <1>7, <1>8
<1>10. Interferes(Cmd(x), Cmd(y)) BY <1>3 DEF SameData, Cmd
<1>11. DependsOn(x, y) \/ DependsOn(y, x)
  BY <1>3, <1>8, <1>10 DEF InterferingOrdered, Cmd
<1>12. x \in C /\ y \in C /\ C \subseteq Range(executed[p]) /\ C \subseteq Range(executed[q])
  OBVIOUS
<1> HIDE DEF C, l
<1>13. Reaches(log[p], C, x, y) \/ Reaches(log[p], C, y, x)
  BY <1>1, <1>2, <1>5, <1>11, <1>12, InterferingReach
<1>14. IF Reaches(l, C, x, y) /\ Reaches(l, C, y, x) THEN ~ ExecutesBefore(l, y, x)
       ELSE ~ Reaches(l, C, x, y)
  BY <1>1, <1>6, <1>8, <1>12, ExecutedBefore
<1>15. IF Reaches(l, C, y, x) /\ Reaches(l, C, x, y) THEN ~ ExecutesBefore(l, x, y)
       ELSE ~ Reaches(l, C, y, x)
  BY <1>1, <1>6, <1>8, <1>9, <1>12, ExecutedBefore
<1>16. ~ ExecutesBefore(l, y, x) /\ ~ ExecutesBefore(l, x, y)
  BY Zenon, <1>13, <1>14, <1>15 DEF l
<1>17. /\ x[1] \in Nat /\ y[1] \in Nat /\ l[x].seq \in Nat /\ l[y].seq \in Nat
       /\ l[x].seq = log[x[1]][x].seq /\ l[y].seq = log[y[1]][y].seq
  <2>1. x[1] \in Nodes /\ y[1] \in Nodes /\ x \in InstanceID /\ y \in InstanceID
    BY <1>3, <1>12, LeaderNode
  <2>2. l[x].seq \in Nat /\ l[y].seq \in Nat
    BY Zenon, <1>1, <2>1 DEF TypeOK, InstanceState, l
  <2>3. l[x].seq = log[x[1]][x].seq /\ l[y].seq = log[y[1]][y].seq
    BY <1>3, <1>12 DEF SameData, l
  <2> QED BY Zenon, <2>1, <2>2, <2>3, ConstantsAssumption
<1>18. x[1] = y[1] /\ l[x].seq = l[y].seq BY <1>16, <1>17 DEF ExecutesBefore
<1> QED BY <1>3, <1>8, <1>10, <1>12, <1>17, <1>18 DEF TieFree

(* As long as no replica restarts and no two interfering instances of one  *)
(* replica have the same sequence number, any two replicas execute any two *)
(* interfering commands in the same order, whatever the order in which     *)
(* commits reach them: one of the two instances reaches the other along    *)
(* dependencies that both replicas executed, and where each reaches the    *)
(* other the sequence numbers and the replicas' identifiers decide.  Ties  *)
(* are possible, and sort.Slice may break them either way.                 *)
THEOREM ExecutionConsistent ==
  Spec => [](NoneRestarted /\ TieFree => ExecutionConsistency)
<1>1. AgreementInv /\ ExecutedOnce /\ HistoryInv /\ (NoneRestarted => HasVotes)
        /\ (NoneRestarted => InterferingOrdered)
        => (NoneRestarted /\ TieFree => ExecutionConsistency)
  BY OrdersAgree
<1> QED BY <1>1, AgreementInvariant, NothingExecutedTwice, HistoryInvariant, VotesInvariant,
        CommittedOrdered, PTL

=============================================================================
