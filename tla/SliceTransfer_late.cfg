SPECIFICATION FairSpec
CONSTANTS
  Lenth = 2
  ErrNum = 5
  Units <- SomeUnits
  Source0 <- Source
  Edits <- Unedited
  Hole = 0
  PushExpires = FALSE
  WriteFaults = FALSE
  MaxStarts = 3
INVARIANTS
  TypeOK
  ResumePointSafe
  DeliveredHoldsSource
  RetiredAtTheEnd
  ExactWhenNeverLate
  CompleteHasFile
PROPERTIES
  ResumeNeverRegresses
  RoundsPay
  IsResumableCopy
  WorkerStops
CHECK_DEADLOCK FALSE
