SPECIFICATION FairSpec
CHECK_DEADLOCK FALSE
CONSTANTS
  Nil = Nil
  Nodes <- Five
  Command <- AllCommands
  Workload <- OneOfFive
  MaxInstanceNum = 1
  MaxRestarts <- RestartFifth
  InOrder = FALSE
INVARIANTS TypeOK TimerDiscipline
PROPERTIES EventuallyExecuted
