--------------------------- MODULE DependencyScan ---------------------------
(***************************************************************************)
(* seqAndDepsForCommand as the loop it is in epaxos/command.go, with the   *)
(* merging of ranges that interval.RangeGroup does, on one instance space. *)
(* The space is filled by its leader; another replica knows any part of    *)
(* it.  The loop is compared with the definition EPaxos uses, and the      *)
(* pruned dependencies with the interference they stand for.               *)
(***************************************************************************)
EXTENDS Interference, SequencesExt

CONSTANTS
  Cmds,        \* the commands
  MaxLen,      \* bound: instances in the space
  Raises       \* by how much replies raise a sequence number

VARIABLE space  \* space[i]: instance i of replica 1

(* interval.RangeGroup as a set of disjoint ranges <<start, end>>.  Start: *)
(* the EndKey is not looked at.                                            *)
rangeOfStart(cmd) == <<2 * cmd.Key, 2 * cmd.Key + 1>>

rangeOf(cmd) ==
  IF cmd.EndKey = NoKey THEN <<2 * cmd.Key, 2 * cmd.Key + 1>>
  ELSE <<2 * cmd.Key, 2 * cmd.EndKey>>

Encloses(g, r) == \E s \in g : s[1] <= r[1] /\ r[2] <= s[2]

OverlapsGroup(g, r) == \E s \in g : s[1] < r[2] /\ r[1] < s[2]

(* Add merges the range with the ranges it overlaps or touches.            *)
Add(g, r) ==
  LET touched == {s \in g : s[1] <= r[2] /\ r[1] <= s[2]} IN
  IF Encloses(g, r) THEN g
  ELSE (g \ touched) \cup
       {<<Min({s[1] : s \in touched \cup {r}}), Max({s[2] : s \in touched \cup {r}})>>}

(* The callback of Descend on the instance i: the state of the scan is the *)
(* maximum sequence number, the dependencies, the group and whether a      *)
(* callback returned false.                                                *)
Callback(scan, i, cmd, ignored) ==
  LET other == space[i].cmd
      r == rangeOf(other)
      g == Add(scan.group, r)
      met == [scan EXCEPT !.maxSeq = Max({@, space[i].seq})]
  IN  IF scan.done \/ i = ignored \/ ~ Interferes(other, cmd) THEN scan
      ELSE IF other.Writing
           THEN IF g = scan.group THEN met
                ELSE [met EXCEPT !.deps = @ \cup {<<1, i>>}, !.group = g,
                        !.done = Cardinality(g) = 1 /\ Encloses(g, rangeOf(cmd))]
           ELSE IF OverlapsGroup(scan.group, r) THEN met
                ELSE [met EXCEPT !.deps = @ \cup {<<1, i>>}]

(* The loop over the known instances, the highest number first.            *)
Scan(known, cmd, ignored) ==
  LET step(scan, i) == IF i \in known THEN Callback(scan, i, cmd, ignored) ELSE scan
  IN  FoldLeft(step, [maxSeq |-> 0, deps |-> {}, group |-> {}, done |-> FALSE],
               Reverse([i \in DOMAIN space |-> i]))

(* The part of the space a replica knows, as a log.                        *)
LogOf(known) ==
  [x \in {1} \X DOMAIN space |->
     IF x[2] \in known THEN space[x[2]]
     ELSE [status |-> "None", cmd |-> Nil, seq |-> 0, deps |-> {}]]

Init == space = <<>>

(* The leader proposes a command, and replies raise its sequence number.   *)
(* Same: its sequence number does not exceed the maximum.                  *)
ProposeSame(c) ==
  \E up \in Raises :
    LET local == Scan(DOMAIN space, c, 0) IN
    /\ Len(space) < MaxLen
    /\ space' = Append(space, [status |-> "PreAccepted", cmd |-> c,
                               seq |-> local.maxSeq + up, deps |-> local.deps])

Propose(c) ==
  \E up \in Raises :
    LET local == Scan(DOMAIN space, c, 0) IN
    /\ Len(space) < MaxLen
    /\ space' = Append(space, [status |-> "PreAccepted", cmd |-> c,
                               seq |-> local.maxSeq + 1 + up, deps |-> local.deps])

Next == \E c \in Cmds : Propose(c)

Spec == Init /\ [][Next]_space

-----------------------------------------------------------------------------
(* Type correctness of the instance space.                                 *)
TypeOK == \A i \in DOMAIN space : /\ space[i].cmd \in Cmds
                                  /\ space[i].seq \in Nat \ {0}
                                  /\ space[i].deps \subseteq {1} \X (1..(i - 1))

(* The definition of seqAndDepsForCommand over sets of points gives what   *)
(* the loop gives, whatever part of the space is known and whatever        *)
(* instance is ignored.                                                    *)
ScanAgrees ==
  \A known \in SUBSET DOMAIN space, cmd \in Cmds, ignored \in {0} \cup DOMAIN space :
    LET loop == Scan(known, cmd, ignored)
        def == seqAndDepsForCommand(LogOf(known), cmd, <<1, ignored>>)
    IN  loop.maxSeq = def.maxSeq /\ loop.deps = def.deps /\ ~ def.nilCmd

(* Pruning is sound: every known interfering instance is a dependency or   *)
(* can be reached from one along the dependencies its leader gave to the   *)
(* later instances of the space ("previous dependencies necessarily        *)
(* already have it as a dependency themself").                             *)
PruningSound ==
  LET reach[i \in DOMAIN space] == {i} \cup UNION {reach[d[2]] : d \in space[i].deps}
  IN  \A known \in SUBSET DOMAIN space, cmd \in Cmds :
        LET deps == Scan(known, cmd, 0).deps IN
        \A i \in known : Interferes(space[i].cmd, cmd) =>
          \E d \in deps : i \in reach[d[2]]

(* Span.Overlaps, on every kind of span, is that the ranges of the two     *)
(* commands have a point in common: the scan prunes with the ranges what   *)
(* Interferes found with the spans.                                        *)
OverlapsIsIntersection ==
  \A i \in DOMAIN space, c \in Cmds :
    Overlaps(space[i].cmd, c) <=> rangeForCmd(space[i].cmd) \cap rangeForCmd(c) # {}

=============================================================================
