SPECIFICATION Spec
CHECK_DEADLOCK FALSE
CONSTANTS
  Nil = Nil
  Cmds <- AllCmds
  MaxLen = 3
  Raises <- NoneOrTwo
INVARIANTS TypeOK ScanAgrees PruningSound OverlapsIsIntersection
