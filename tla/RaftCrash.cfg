SPECIFICATION Spec
CONSTANTS
  n1 = n1
  n2 = n2
  n3 = n3
  None = None
  Server = {n1, n2}
  Campaigns <- Succession
  MaxCommands = 2
  MaxRestarts = 1
  MaxFaults = 1
  MaxVoteCalls = 1
  MaxCalls = 1
  Compaction = TRUE
  DurableRestarts = TRUE
  PromptPromotion = TRUE
INVARIANTS TypeOK IndexOrder TermsBounded
CHECK_DEADLOCK FALSE
SYMMETRY Symmetry
VIEW View
