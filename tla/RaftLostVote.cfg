SPECIFICATION Spec
CONSTANTS
  n1 = n1
  n2 = n2
  n3 = n3
  None = None
  Server = {n1, n2, n3}
  Campaigns <- FirstOrSecond
  MaxCommands = 0
  MaxRestarts = 1
  MaxFaults = 0
  MaxVoteCalls = 3
  MaxCalls = 0
  Compaction = FALSE
  DurableRestarts = FALSE
  PromptPromotion = TRUE
INVARIANTS VoteOnce
CHECK_DEADLOCK FALSE
SYMMETRY Symmetry
VIEW View
