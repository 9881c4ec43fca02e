SPECIFICATION Spec
CONSTANTS
  Lenth = 2
  ErrNum = 1
  Units <- SomeUnits
  Source0 <- Source
  Edits <- Unedited
  Hole = 0
  PushExpires = FALSE
  WriteFaults = FALSE
  MaxStarts = 2
INVARIANTS
  Resumable
CHECK_DEADLOCK FALSE
