CONSTANTS
  MaxRoutes = 5
  MaxCalls = 2
SPECIFICATION Spec
INVARIANTS
  TypeOK
  QuizOnHome
  HomesPileUp
  StraysOnlyByRace
CHECK_DEADLOCK FALSE
