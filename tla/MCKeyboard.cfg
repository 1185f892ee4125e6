SPECIFICATION FairSpec
CONSTANTS
  Lines = 2
  Wired <- MCWired
  Hosts = {h1, h2}
  NoOne = NoOne
  Delay = 2
  MaxCodes = 3
  MaxTimer = 1
INVARIANTS
  ScheduleAnnounced
  EveryIrqHasItsCode
PROPERTIES
  SchedulesFire
