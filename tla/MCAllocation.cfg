SPECIFICATION AllocSpec
CONSTANTS
  a = a
  b = b
  w1 = w1
  w2 = w2
  o1 = o1
  o2 = o2
  l1 = l1
  l2 = l2
  l3 = l3
  l4 = l4
  None = None
  Skus = {a, b}
  Locations = {w1, w2}
  Orders = {o1, o2}
  Lines = {l1, l2, l3, l4}
  LineOrder <- MCLineOrder
  LineSku <- MCLineSku
  LineQty <- MCLineQty
  InitialStock <- MCInitialStock
  MaxUnits = 1
  MaxInflow = 1
  t1 = t1
  t2 = t2
  Threads = {t1, t2}
  ExplicitLocation <- MCExplicitLocation
  PriorityRank <- MCPriorityRank
  NameRank <- MCNameRank
  InflowSlots <- MCInflowSlots
SYMMETRY MCSymmetry
INVARIANTS
  NeverSplit
  ReservedMarkerIsTrue
PROPERTIES
  ImplementsStockPool
CHECK_DEADLOCK FALSE
