CONSTANTS
  Keys = {1, 2}
  NumLevels = 3
  L0Trigger = 1
  MemLevel = 0
  FileSize = 2
  GrandLimit = 20
  ExpandLimit = 50
  LevelLimit = 10
  Manual = {}
  Types = {0, 1}
  MaxSeq = 4
  MaxSnapshots = 1
  MaxManual = 0
SPECIFICATION Spec
INVARIANTS
  DeletedStaysDeleted
CHECK_DEADLOCK FALSE
