SPECIFICATION Spec
CONSTANTS
  a = a
  b = b
  w1 = w1
  w2 = w2
  o1 = o1
  o2 = o2
  o3 = o3
  l1 = l1
  l2 = l2
  l3 = l3
  l4 = l4
  None = None
  Skus = {a, b}
  Locations = {w1}
  Orders = {o1, o2}
  Lines = {l1, l2, l3}
  LineOrder <- MCLineOrder
  LineSku <- MCLineSku
  LineQty <- MCLineQty
  InitialStock <- MCInitialStock
  MaxUnits = 2
  MaxInflow = 1
INVARIANTS
  ReservedIsOutstanding
  NeverOversold
  AvailableIsAts
  StockConserved
CHECK_DEADLOCK FALSE
