SPECIFICATION Spec
CONSTANTS
  p1 = p1
  p2 = p2
  k1 = k1
  k2 = k2
  v1 = v1
  v2 = v2
  None = None
  Nobody = Nobody
  Procs = {p1, p2}
  Keys = {k1, k2}
  Values = {v1, v2}
  Kinds = {"settings"}
  Crashes = FALSE
  MaxCalls = 2
SYMMETRY Sym
INVARIANTS
  AddedIsListed
CHECK_DEADLOCK FALSE
