SPECIFICATION MCSpec
CONSTANTS
  d1 = d1
  d2 = d2
  n1 = n1
  x1 = x1
  x2 = x2
  Device = {d1, d2}
  Number = {n1}
  Types = {"VIP", "blacklist", "alarm", ""}
  RegID <- TwoIDs
  CrossRef = {x1, x2}
  MaxInvokeID = 4
  MaxEvents = 2
  MaxRows = 2
INVARIANTS TypeOK EntriesKept
PROPERTIES FiledForItsDevice RequestsDecided
CHECK_DEADLOCK FALSE
