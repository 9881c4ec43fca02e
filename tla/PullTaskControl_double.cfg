SPECIFICATION Spec
CONSTANTS
  h1 = h1
  h2 = h2
  w1 = w1
  w2 = w2
  Handlers = {h1, h2}
  Workers = {w1, w2}
  DialFails = FALSE
  OpenFails = FALSE
  MaxStarts = 3
SYMMETRY Goroutines
INVARIANTS
  NeverTwoWorkers
CHECK_DEADLOCK FALSE
