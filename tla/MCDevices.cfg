SPECIFICATION DevicesSpec
CONSTANTS
  Byte = 2
  Channels <- MCChannels
  Counters <- MCCounters
  Prescale = 2
  None = None
  Widths <- MCWidths
  Modes <- MCModes
  Portions <- MCPortions
  MaxPit = 3
  MaxDma = 2
  MaxAccesses = 4
  Lines = 3
  Wired <- MCWired
  Cylinders = 2
  Heads = 2
  Sectors = 1
  SectorBytes = 1
  MaxCount = 2
  Drives <- MCDrives
  Blank = 0
  Identity = 99
  Absent = 255
  MaxCommands = 2
  MaxData = 2
  UartCapacity = 3
  Recorders <- MCRecorders
  MaxSize = 2
  MaxEvents = 6
  MaxRuns = 2
  Limits <- MCLimits
  NoCursor = NoCursor
  MemSize = 3
  Programs <- MCPrograms
  Machines <- MCMachines
  MaxIrqs = 2
  Modulus = 16
  Digits <- MCDigits
  Decimals <- MCDecimals
INVARIANTS
  LatchHeld
  FullyNested
  XtCheckpointable
  ConditionAnnounced
  PagesWhole
  AluExact
PROPERTIES
  PeriodsExact
  RefreshExact
  RequestsKept
  XtReadsInPlace
  XtStoresWhatWasSent
  ImplementsProgram
CHECK_DEADLOCK FALSE
