SPECIFICATION FailingSpec
CHECK_DEADLOCK FALSE
CONSTANTS
  Nil = Nil
  Nodes <- Three
  Command <- AllCommands
  Workload <- OneOfThree
  MaxInstanceNum = 1
  MaxRestarts <- NoRestarts
  InOrder = FALSE
  MsgCap = 3
  ReqCap = 1
  MayFail = {3}
PROPERTIES RequestsAnswered
