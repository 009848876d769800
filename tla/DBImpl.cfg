CONSTANTS
  MaxWrites = 2
  MemLimit = 1
  MaxGroup = 2
  L0Trigger = 1
  L0Stop = 2
  MaxCrashes = 2
  MaxFaults = 2
  MaxReaders = 1
SPECIFICATION Spec
INVARIANTS
  Durable
  TablesThere
  OpensAgain
  FreshSequence
  WaitersAreWoken
CHECK_DEADLOCK FALSE
