SPECIFICATION Spec
CONSTANTS
  l1 = l1
  l2 = l2
  sku = sku
  ack1 = ack1
  ack2 = ack2
  ship1 = ship1
  grn1 = grn1
  grn2 = grn2
  c1 = c1
  c2 = c2
  None = None
  Lines = {l1, l2}
  Skus = {sku}
  LineSku <- MCLineSku
  Ordered <- MCOrdered
  Acks = {ack1, ack2}
  Shipments = {ship1}
  Receipts = {grn1, grn2}
  Sequence <- MCSequence
  Rejecting = {}
  Contents <- MCContents
  Calls = {c1, c2}
  MaxBegun = 7
  MaxAttempts = 2
INVARIANTS
  OneExternalOrder
  SubmittedWasAuthorized
  EventsCountOnce
CHECK_DEADLOCK FALSE
