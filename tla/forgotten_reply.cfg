SPECIFICATION Spec
CHECK_DEADLOCK FALSE
CONSTANTS
  Nil = Nil
  Nodes <- Three
  Command <- AllCommands
  Workload <- OneAndOneOfThree
  MaxInstanceNum = 1
  MaxRestarts <- RestartFollower
  InOrder = TRUE
VIEW View
INVARIANTS InterferingOrdered
