-------------------------- MODULE MCDependencyScan --------------------------
(* Reads and writes of a key and of the ranges over two adjacent keys. *)
EXTENDS DependencyScan

Spans == {[Key |-> 2, EndKey |-> NoKey], [Key |-> 1, EndKey |-> 2],
          [Key |-> 2, EndKey |-> 3], [Key |-> 1, EndKey |-> 3]}

AllCmds == {[ID |-> 0, Key |-> s.Key, EndKey |-> s.EndKey, Writing |-> w] :
              s \in Spans, w \in BOOLEAN}

NoneOrTwo == {0, 2}
=============================================================================
