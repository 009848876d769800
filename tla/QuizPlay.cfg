CONSTANTS
  NumImages = 4
  Title <- PlayTitle
  Malformed <- PlayMalformed
  Letter <- Letters
  Alpha <- Letters
  RowSize = 1
  TimeLimit = 2
  MaxPresses = 3
SPECIFICATION FairSpec
INVARIANTS
  TypeOK
  OneTimer
  AtMostOneThanks
  ScoreBelowTotal
  Solvable
  SolvedNeverLingers
  NoHang
PROPERTIES
  LogoTime
  GameEnds
  PlaysTheGame
CHECK_DEADLOCK FALSE
