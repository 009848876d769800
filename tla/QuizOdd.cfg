CONSTANTS
  NumImages = 4
  Title <- OddTitle
  Malformed <- OddMalformed
  Letter <- Letters
  Alpha <- Letters
  RowSize = 1
  TimeLimit = 2
  MaxPresses = 2
SPECIFICATION Spec
INVARIANT
  IInv
CHECK_DEADLOCK FALSE
