SPECIFICATION Spec
CONSTANTS
  k1 = k1
  k2 = k2
  None = None
  Channels = {"own_website"}
  NDrafts = 2
  Calls = {k1, k2}
  OriginKnown = FALSE
  CorrectionAllowed = FALSE
  DefaultPack = FALSE
  MaxFaults = 2
INVARIANTS
  PublishedOnce
  HeldForOwner
PROPERTIES
  NeverReopened
  RunsEnd
CHECK_DEADLOCK FALSE
