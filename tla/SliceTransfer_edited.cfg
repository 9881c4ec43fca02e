SPECIFICATION FairSpec
CONSTANTS
  Lenth = 2
  ErrNum = 2
  Units <- SomeUnits
  Source0 <- Source
  Edits <- Edited
  Hole = 0
  PushExpires = TRUE
  WriteFaults = TRUE
  MaxStarts = 2
INVARIANTS
  DeliveredOnce
  AnswersOwed
PROPERTIES
  WorkerStops
CHECK_DEADLOCK FALSE
