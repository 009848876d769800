CONSTANTS
  NumImages = 2
  Title <- ZipTitle
  Malformed <- ZipMalformed
  Letter <- Letters
  Alpha <- Letters
  RowSize = 1
  TimeLimit = 1
  MaxPresses = 1
SPECIFICATION FairSpec
PROPERTY
  NewLogoAppears
CHECK_DEADLOCK FALSE
