SPECIFICATION Spec
CONSTANTS
  t1 = t1
  t2 = t2
  r1 = r1
  r2 = r2
  tenant = tenant
  other = other
  None = None
  Mails = {1, 2}
  Letter <- MCLetter
  Tenants = {tenant, other}
  Threads = {t1, t2}
  Requests = {r1, r2}
  MaxDeliveries = 4
  MaxFaults = 2
INVARIANTS
  IngestedOnce
  CheckpointCovers
  NoMailLost
PROPERTIES
  DeliveriesEnd
CHECK_DEADLOCK FALSE
