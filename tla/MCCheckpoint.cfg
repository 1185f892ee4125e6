SPECIFICATION CheckpointSpec
CONSTANTS
  Names = {x1}
  Boot = boot
  Roots = {r1, r2}
  Absent = Absent
  Part = Part
  Damaged = Damaged
  Gone = Gone
  Nobody = Nobody
  MaxFresh = 2
  MaxEdits = 1
CHECK_DEADLOCK FALSE
INVARIANT OneMachine
INVARIANT PublishedIsWhole
PROPERTY FilesAreKept
PROPERTY RequestsEnd
