SPECIFICATION LifecycleSpec
CONSTANTS
  a = a
  b = b
  w1 = w1
  o1 = o1
  l1 = l1
  l2 = l2
  x = x
  ex = ex
  c1 = c1
  c2 = c2
  None = None
  Skus = {a, b}
  Locations = {w1}
  Orders = {o1, ex}
  Lines = {l1, l2, x}
  LineOrder <- MCLineOrder
  LineSku <- MCLineSku
  LineQty <- MCLineQty
  InitialStock <- MCInitialStock
  MaxUnits = 1
  MaxInflow = 4
  TheOrder = o1
  Replacement = x
  ExchangeLocation = w1
  MaxCancellations = 2
  MaxReturns = 2
  CancellationMode = "REQUIRE_APPROVAL"
  Calls = {c1, c2}
  MaxBegun = 4
SYMMETRY MCSymmetry
INVARIANTS
  ExecutedByOne
  ReleasedOnlyWhenCancelled
  MarkedWasRestocked
PROPERTIES
  NeverRegresses
  EndsHoldingNothing
CHECK_DEADLOCK FALSE
