SPECIFICATION ServiceSpec
CONSTANTS
  n1 = n1
  n2 = n2
  p = p
  q = q
  k = k
  a = a
  None = None
  Node = {n1, n2}
  Key = {k}
  Call = {c1, c2, c3}
  Requests = {}
  Clerk = {p}
  Servers <- Order
  Program <- Alone
  MaxAttempts = 2
  MaxFailures = 1
  ChanCap = 1
  MaxPending = 2
  CacheCap = 1
  SnapshotThreshold = 0
  MaxChanges = 2
  MaxRestarts = 0
  MaxKills = 1
  MaxExpiries = 0
INVARIANT NoLostResult
 
CHECK_DEADLOCK FALSE
