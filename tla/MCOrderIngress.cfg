SPECIFICATION Spec
CONSTANTS
  w1 = w1
  c1 = c1
  None = None
  Updates <- MCUpdates
  Zones <- MCZones
  Loops = {w1}
  Operators = {c1}
  Stock = 1
  MaxBegun = 4
  MaxFaults = 1
INVARIANTS
  NoUpdateIsLost
  PaidIsReserved
CHECK_DEADLOCK FALSE
