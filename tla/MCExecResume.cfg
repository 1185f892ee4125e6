SPECIFICATION HistorySpec
CONSTANTS
  Code <- MCCode
  Data <- MCData
  Vectors <- MCVectors
  Params <- MCParams
  Predicates <- MCPredicates
  Retained = 2
  MaxOps = 3
  MaxBps = 2
  MaxCycles = 1
  MaxTrace = 1
PROPERTIES
  SkippedForOneTick
CHECK_DEADLOCK FALSE
