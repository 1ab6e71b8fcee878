SPECIFICATION Spec
CHECK_DEADLOCK FALSE
CONSTANTS
  Nil = Nil
  Nodes <- Three
  Command <- AllCommands
  Workload <- TwoAndOneOfThree
  MaxInstanceNum = 2
  MaxRestarts <- NoRestarts
  InOrder = TRUE
VIEW View
CONSTRAINT SlowThird
INVARIANTS ExecutionConsistency
