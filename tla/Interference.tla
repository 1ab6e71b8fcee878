---------------------------- MODULE Interference ----------------------------
(***************************************************************************)
(* Commands, their key spans, and the sequence number and dependencies a   *)
(* replica computes for a command from its instance spaces                 *)
(* (epaxos/epaxospb/command.go, epaxos/command.go).                        *)
(*                                                                         *)
(* A key is a positive integer.  A command is a record with the fields     *)
(* Key, EndKey, Writing and ID; EndKey = NoKey is the empty EndKey of a    *)
(* single-key span.  An instance identifier is a pair                      *)
(* <<ReplicaID, InstanceNum>>.  A log maps identifiers to instance states  *)
(* with the fields status, cmd, seq and deps; an instance that is not in   *)
(* the B-tree of its space has status "None".                              *)
(***************************************************************************)
EXTENDS Integers, FiniteSets, FiniteSetsExt

CONSTANT Nil    \* the nil *pb.Command

NoKey == 0

(* A command has a key and, for a range, an EndKey behind it: the          *)
(* RangeGroup refuses a range that is empty or inverted.                   *)
IsCommand(c) ==
  /\ c.Key \in Nat /\ c.EndKey \in Nat /\ c.Writing \in BOOLEAN
  /\ c.EndKey = NoKey \/ c.Key < c.EndKey

(* Span.Overlaps.  Closed: a range includes its EndKey.                    *)
OverlapsClosed(s, o) ==
  CASE s.EndKey = NoKey /\ o.EndKey = NoKey -> s.Key = o.Key
    [] s.EndKey = NoKey /\ o.EndKey # NoKey -> s.Key >= o.Key /\ s.Key <= o.EndKey
    [] s.EndKey # NoKey /\ o.EndKey = NoKey -> o.Key >= s.Key /\ o.Key <= s.EndKey
    [] OTHER -> s.EndKey > o.Key /\ s.Key < o.EndKey

Overlaps(s, o) ==
  CASE s.EndKey = NoKey /\ o.EndKey = NoKey -> s.Key = o.Key
    [] s.EndKey = NoKey /\ o.EndKey # NoKey -> s.Key >= o.Key /\ s.Key < o.EndKey
    [] s.EndKey # NoKey /\ o.EndKey = NoKey -> o.Key >= s.Key /\ o.Key < s.EndKey
    [] OTHER -> s.EndKey > o.Key /\ s.Key < o.EndKey

(* Command.Interferes.                                                     *)
Interferes(c, o) == (c.Writing \/ o.Writing) /\ Overlaps(c, o)

(* rangeForCmd, as the set of points of the key space the range covers.    *)
(* Key k is the point 2k and the keys strictly between k and k+1 are the   *)
(* point 2k+1, so a single key [k, k\0) is {2k} and [k, m) is 2k..2m-1.    *)
(* Start: the EndKey is not looked at.                                     *)
rangeForCmdStart(cmd) == {2 * cmd.Key}

rangeForCmd(cmd) ==
  IF cmd.EndKey = NoKey THEN {2 * cmd.Key} ELSE (2 * cmd.Key)..(2 * cmd.EndKey - 1)

(* The interval.RangeGroup p.rangeGroup is the set of points it covers:    *)
(* Add grows it unless the range is already covered, and Len is 1 when the *)
(* covered points are contiguous, because adjacent ranges are merged.      *)
OneRange(group) == \A a, b \in group : a..b \subseteq group

MaxSeqNum(S) == IF S = {} THEN 0 ELSE Max(S)

(* seqAndDepsForCommand.  Every instance space is visited from its highest *)
(* instance number down.  The group collects the ranges of the interfering *)
(* writes met so far; a write that does not grow it and a read that        *)
(* overlaps it are left out of the dependencies, and a write that makes    *)
(* the group one range around the command's ends the visit of its space.   *)
(* nilCmd: the visit meets an instance without a command, and the method   *)
(* call on the nil pointer panics.                                         *)
seqAndDepsForCommand(log, cmd, ignoredInstance) ==
  LET known == {x \in DOMAIN log : log[x].status # "None" /\ x # ignoredInstance}
      interfering == {x \in known : log[x].cmd # Nil /\ Interferes(log[x].cmd, cmd)}
      group(r, i) == UNION {rangeForCmd(log[w].cmd) : w \in
                        {x \in interfering : x[1] = r /\ x[2] >= i /\ log[x].cmd.Writing}}
      above(x) == group(x[1], x[2] + 1)
      dep(x) == IF log[x].cmd.Writing
                THEN ~ (rangeForCmd(log[x].cmd) \subseteq above(x))
                ELSE rangeForCmd(log[x].cmd) \cap above(x) = {}
      ends(x) == /\ log[x].cmd.Writing
                 /\ dep(x)
                 /\ OneRange(group(x[1], x[2]))
                 /\ rangeForCmd(cmd) \subseteq group(x[1], x[2])
      visited == {x \in known :
                    ~ \E y \in interfering : y[1] = x[1] /\ y[2] > x[2] /\ ends(y)}
  IN  [maxSeq |-> MaxSeqNum({log[x].seq : x \in interfering \cap visited}),
       deps   |-> {x \in interfering \cap visited : dep(x)},
       nilCmd |-> \E x \in visited : log[x].cmd = Nil]

=============================================================================
