SPECIFICATION Spec
CHECK_DEADLOCK FALSE
CONSTANTS
  Nil = Nil
  Nodes <- Four
  Command <- AllCommands
  Workload <- OneAndOneOfFour
  MaxInstanceNum = 1
  MaxRestarts <- NoRestarts
  InOrder = FALSE
VIEW View
INVARIANTS InterferingOrdered ExecutionConsistency CommittedAtQuorum
