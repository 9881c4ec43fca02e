SPECIFICATION Spec
CONSTANTS
  h1 = h1
  w1 = w1
  Handlers = {h1}
  Workers = {w1}
  DialFails = FALSE
  OpenFails = FALSE
  MaxStarts = 2
SYMMETRY Goroutines
PROPERTIES
  DeletedStaysDeleted
CHECK_DEADLOCK FALSE
