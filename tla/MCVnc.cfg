SPECIFICATION FairSpec
CONSTANTS
  Viewers = {v1, v2}
  Slow = {v2}
  NoOne = NoOne
  Width = 2
  Colors = {0, 1}
  Unknown = Unknown
  None = None
  History = 2
  MaxChanges = 2
  MaxRestores = 1
INVARIANTS CoveredByNextUpdate
PROPERTIES ViewersCatchUp
