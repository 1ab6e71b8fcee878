SPECIFICATION Spec
CHECK_DEADLOCK FALSE
CONSTANTS
  Instances <- ThreeReplicas
  MaxSeq = 2
INVARIANTS TypeOK HistoryAdmissible
PROPERTIES ImplementsAtomic RunEnds
