SPECIFICATION Spec
CHECK_DEADLOCK FALSE
CONSTANTS
  Nil = Nil
  Nodes <- Two
  Command <- AllCommands
  Workload <- KeysAndRangeOfTwo
  MaxInstanceNum = 2
  MaxRestarts <- NoRestarts
  InOrder = FALSE
VIEW View
INVARIANTS InterferingOrdered ExecutionConsistency ExecutorDrained HistoryAdmissible
