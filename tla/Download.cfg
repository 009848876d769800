CONSTANTS
  NumEntries = 2
  Directories = {1}
  Faults = TRUE
  MaxPresses = 4
  MaxRestarts = 1
SPECIFICATION FairSpec
INVARIANTS
  TypeOK
  NextMeansFiles
  TwiceOnlyByTwo
PROPERTY
  SpinnerStops
CHECK_DEADLOCK FALSE
