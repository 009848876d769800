CONSTANTS
  Keys = {1, 2}
  NumLevels = 3
  L0Trigger = 2
  MemLevel = 2
  FileSize = 1
  GrandLimit = 1
  ExpandLimit = 6
  LevelLimit = 2
  Manual = {1}
  Types = {0, 1}
  MaxSeq = 4
  MaxSnapshots = 1
  MaxManual = 1
SPECIFICATION FairSpec
INVARIANTS
  TreeOrdered
  ReadsAreHistory
PROPERTY
  CompactionSettles
CHECK_DEADLOCK FALSE
