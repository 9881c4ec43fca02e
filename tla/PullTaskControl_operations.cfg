SPECIFICATION FairSpec
CONSTANTS
  h1 = h1
  h2 = h2
  w1 = w1
  w2 = w2
  Handlers = {h1, h2}
  Workers = {w1, w2}
  DialFails = TRUE
  OpenFails = TRUE
  MaxStarts = 3
INVARIANTS
  TypeOK
  AtRestAgree
  OneWorker
  StoppedIsQuiet
PROPERTIES
  WaitingIsTaken
CHECK_DEADLOCK FALSE
