CONSTANTS
  Keys = {1, 2, 3}
  NumLevels = 4
  L0Trigger = 4
  MemLevel = 2
  FileSize = 2
  GrandLimit = 20
  ExpandLimit = 50
  LevelLimit = 10
  Manual = {1}
  Types = {1}
  MaxSeq = 5
  MaxSnapshots = 0
  MaxManual = 1
SPECIFICATION Spec
INVARIANT
  LevelsDisjoint
CHECK_DEADLOCK FALSE
