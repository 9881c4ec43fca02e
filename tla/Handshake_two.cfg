SPECIFICATION FairSpec
CONSTANTS
  a1 = a1
  a2 = a2
  None = None
  Callers = {a1, a2}
  MaxCrashes = 1
INVARIANTS
  TypeOK
  IdsDistinct
  RightFile
  AnsweredIsPaired
PROPERTIES
  NewerIsLarger
  AskEnds
CHECK_DEADLOCK FALSE
