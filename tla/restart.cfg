SPECIFICATION EagerSpec
CHECK_DEADLOCK FALSE
CONSTANTS
  Nil = Nil
  Nodes <- Three
  Command <- AllCommands
  Workload <- OneAndOneOfThree
  MaxInstanceNum = 1
  MaxRestarts <- RestartEither
  InOrder = TRUE
VIEW NodeView
CONSTRAINT OneRestart
INVARIANTS AgreementInv Agreement ExecutedOnce RepliesKnown ExecutorDrained HistoryAdmissible TakenInOrder TakenAnnounced
PROPERTIES DecisionStable 
