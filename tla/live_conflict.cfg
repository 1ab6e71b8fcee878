SPECIFICATION EagerSpec
CHECK_DEADLOCK FALSE
CONSTANTS
  Nil = Nil
  Nodes <- Three
  Command <- AllCommands
  Workload <- OneReadOneWrite
  MaxInstanceNum = 1
  MaxRestarts <- NoRestarts
  InOrder = FALSE
  MsgCap = 3
  ReqCap = 1
  MayFail = {}
INVARIANTS NoPanic AnswersConsistent
PROPERTIES ImplementsOrdered  StoresConverge
