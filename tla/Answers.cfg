SPECIFICATION FairSpec
CONSTANTS
  d1 = d1
  d2 = d2
  a1 = a1
  c1 = c1
  Device = {d1, d2}
  Agent = {a1}
  Call = {c1}
  Ops <- ActNames
  AgtModes = {}
  MaxInvokeID = 3
  MaxModal = 1
INVARIANTS LeftoversAreLeaky ConfirmationIsFiled
PROPERTIES BindingReleased Correlates
CHECK_DEADLOCK FALSE
