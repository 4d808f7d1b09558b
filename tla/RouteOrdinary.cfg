SPECIFICATION MCSpec
CONSTANTS
  d1 = d1
  d2 = d2
  n1 = n1
  x1 = x1
  x2 = x2
  Device = {d1}
  Number = {n1}
  Types = {"VIP", "blacklist", "alarm", ""}
  RegID <- TwoIDs
  CrossRef = {x1}
  MaxInvokeID = 4
  MaxEvents = 2
  MaxRows = 2
INVARIANTS OrdinaryIsRouted
CHECK_DEADLOCK FALSE
