SPECIFICATION Spec
CONSTANTS
  r1 = r1
  r2 = r2
  c1 = c1
  c2 = c2
  reason = reason
  none = none
  None = None
  Returns = {r1, r2}
  MaxRefunds = 3
  Calls = {c1, c2}
  Amounts = {1, 2}
  TotalAmount = 2
  AutomaticLimit = 1
  AboveLimit = "REQUIRE_APPROVAL"
  Reasons = {reason}
  DefaultReason = reason
  NoReason = none
  MaxAttempts = 2
  MaxBegun = 4
INVARIANTS
  ReturnsWithinTotal
  ConfirmedWasPaid
  DirectRefundsAreAuthorized
PROPERTIES
  CallsEnd
CHECK_DEADLOCK FALSE
