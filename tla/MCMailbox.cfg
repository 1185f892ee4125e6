SPECIFICATION Spec
CONSTANTS
  Commands <- MCCommands
  MaxJobs = 3
  MaxQueue = 4
INVARIANTS
  RerunIsSafe
  MessagesWhole
  NotLeftPaused
PROPERTIES
  ImplementsJobs
\* The controller may have no more jobs.
CHECK_DEADLOCK FALSE
