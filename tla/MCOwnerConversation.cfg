SPECIFICATION ConversationSpec
CONSTANTS
  s1 = s1
  p1 = p1
  s2 = s2
  m1 = m1
  m2 = m2
  m3 = m3
  c1 = c1
  c2 = c2
  None = None
  Approvals = {s1, s2, p1}
  Shortages = {s1, s2}
  OrderFlow = {s1, s2}
  Order <- MCOrder
  Requested = {p1}
  Sendable = {s1, s2}
  Calls = {c1, c2}
  MaxBegun = 3
  Messages = {m1, m2}
  Texts <- MCTexts
  Drafts = {1}
  Questions = 2
INVARIANTS
  ContextHasObject
  OneDecisionPerMessage
  NeverStranded
  ApprovedWasDispatched
CHECK_DEADLOCK FALSE
