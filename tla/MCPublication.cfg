SPECIFICATION Spec
CONSTANTS
  c1 = c1
  c2 = c2
  None = None
  Calls = {c1, c2}
  Prices = {1}
  Policies = {"always", "category", "auto"}
  OnIngest = TRUE
  MaxBegun = 3
  MaxFaults = 1
INVARIANTS
  AnswerIsTrue
  ListedOnce
CHECK_DEADLOCK FALSE
