SPECIFICATION Spec
CONSTANTS
  Lines = 2
  Wired <- MCWired
  Hosts = {h1}
  NoOne = NoOne
  Delay = 2
  MaxCodes = 2
  MaxTimer = 0
INVARIANTS
  AvailableRaisesIrq
