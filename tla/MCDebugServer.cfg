SPECIFICATION FairSpec
CONSTANTS
  Clients = {c1, c2}
  Cpu = Cpu
  NoOne = NoOne
  MaxBatch <- MCMaxBatch
  MaxInbox <- MCMaxInbox
INVARIANTS
  NoStrandedRequest
PROPERTIES
  MachineKeepsRunning
  EveryRequestAnswered
  ImplementsService
