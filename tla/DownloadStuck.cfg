CONSTANTS
  NumEntries = 2
  Directories = {1}
  Faults = FALSE
  MaxPresses = 3
  MaxRestarts = 0
SPECIFICATION FairSpec
PROPERTY
  SetupEnds
CHECK_DEADLOCK FALSE
