SPECIFICATION Spec
CONSTANTS
  d1 = d1
  d2 = d2
  c1 = c1
  c2 = c2
  Device = {d1}
  Call = {c1, c2}
  CharCode <- AllPlain
  Routed <- OnlyD1
  MaxReports = 2
SYMMETRY Calls
INVARIANTS HeldIsHeld
CHECK_DEADLOCK FALSE
