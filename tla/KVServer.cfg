SPECIFICATION Spec
CONSTANTS
  n1 = n1
  n2 = n2
  c1 = c1
  c2 = c2
  c3 = c3
  k = k
  a = a
  b = b
  None = None
  Node = {n1, n2}
  Key = {k}
  Call = {c1, c2, c3}
  Requests <- Mixed
  ChanCap = 1
  MaxPending = 2
  CacheCap = 1
  SnapshotThreshold = 2
  MaxChanges = 1
  MaxRestarts = 1
  MaxKills = 1
  MaxExpiries = 1
INVARIANTS  AnswersRight PendingBounded 
CHECK_DEADLOCK FALSE
CONSTRAINT OneEvent
SYMMETRY Symmetry
