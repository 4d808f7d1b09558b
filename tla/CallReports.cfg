SPECIFICATION Spec
CONSTANTS
  d1 = d1
  d2 = d2
  c1 = c1
  c2 = c2
  Device = {d1, d2}
  Call = {c1, c2}
  CharCode <- CodeOf
  Routed <- OnlyD1
  MaxReports = 3
SYMMETRY Calls
INVARIANTS TypeOK OwnCallsOnly 
CONSTRAINT Slice
CHECK_DEADLOCK FALSE
