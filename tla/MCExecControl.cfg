SPECIFICATION FairSpec
CONSTANTS
  Code <- MCCode
  Data <- MCData
  Vectors <- MCVectors
  Params <- MCParams
  Predicates <- MCPredicates
  Retained = 1
  MaxOps = 2
  MaxBps = 2
  MaxCycles = 2
  MaxTrace = 1
INVARIANTS
  OperationLedger
  RunUntilOwned
  ObserversArmed
  CurrentRevisionIsTruth
PROPERTIES
  StopReasonsKept
  HitsStop
  StepsComplete
  LimitsBoundRuns
\* The emulator may leave its main loop.
CHECK_DEADLOCK FALSE
