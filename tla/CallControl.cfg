SPECIFICATION Spec
CONSTANTS
  d1 = d1
  d2 = d2
  a1 = a1
  c1 = c1
  Device = {d1, d2}
  Agent = {a1}
  Call = {c1}
  Ops <- CallOps
  AgtModes = {"Ready", "Busy", "unknown"}
  MaxInvokeID = 3
  MaxModal = 1
SYMMETRY Extensions
INVARIANTS TypeOK BindingFaithful LatestKept
PROPERTIES RecordFaithful IDsAreFresh
CONSTRAINT ReadyEarly
CHECK_DEADLOCK FALSE
