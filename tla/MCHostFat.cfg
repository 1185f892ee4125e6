SPECIFICATION Spec
CONSTANTS
  Names = {a, b}
  Slots = 2
  MaxCluster = 3
  Free = Free
  End = End
  Bytes = {x, y}
  Listing = Listing
  HostBytes = HostBytes
  MaxWrites = 3
  MaxEdits = 1
SYMMETRY MCSymmetry
CHECK_DEADLOCK FALSE
INVARIANTS MirroredUnlessLost NothingLeftBehind
PROPERTIES EditsKept
