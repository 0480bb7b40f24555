SPECIFICATION FinanceSpec
CONSTANTS
  o = o
  p = p
  r = r
  b1 = b1
  b2 = b2
  c1 = c1
  c2 = c2
  None = None
  Orders = {o}
  Payments = {p}
  Refunds = {r}
  Entries = {1, 2, 3, 4}
  Batches = {b1, b2}
  Calls = {c1, c2}
  Total <- MCTotal
  Pays <- MCPays
  Refunded <- MCRefunded
  Entry <- MCEntry
  Payload <- MCPayload
  Currency <- MCCurrency
  Expected <- MCExpected
  Local = "INR"
  Tolerance = 0
  MaxBegun = 5
INVARIANTS
  OverSettlementIsSeen
  EveryEntryIsJudged
CHECK_DEADLOCK FALSE
