SPECIFICATION FairSpec
CONSTANTS
  Viewers = {v1}
  Slow = {}
  NoOne = NoOne
  Width = 1
  Colors = {0, 1}
  Unknown = Unknown
  None = None
  History = 1
  MaxChanges = 1
  MaxRestores = 0
PROPERTIES ViewersShowDisplay
