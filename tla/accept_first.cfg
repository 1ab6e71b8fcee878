SPECIFICATION Spec
CHECK_DEADLOCK FALSE
CONSTANTS
  Nil = Nil
  Nodes <- Three
  Command <- AllCommands
  Workload <- OneAndOneOfThree
  MaxInstanceNum = 1
  MaxRestarts <- NoRestarts
  InOrder = FALSE
VIEW View
INVARIANTS NoPanic
