SPECIFICATION Spec
CONSTANTS
  n1 = n1
  n2 = n2
  n3 = n3
  None = None
  Server = {n1, n2, n3}
  Campaigns <- Succession
  MaxCommands = 2
  MaxRestarts = 0
  MaxFaults = 0
  MaxVoteCalls = 1
  MaxCalls = 1
  Compaction = FALSE
  DurableRestarts = TRUE
  PromptPromotion = TRUE
INVARIANTS AckSound
CHECK_DEADLOCK FALSE
SYMMETRY Symmetry
VIEW View
