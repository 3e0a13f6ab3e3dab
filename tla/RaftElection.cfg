SPECIFICATION Spec
CONSTANTS
  n1 = n1
  n2 = n2
  n3 = n3
  None = None
  Server = {n1, n2, n3}
  Campaigns <- AnyoneTwice
  MaxCommands = 0
  MaxRestarts = 1
  MaxFaults = 1
  MaxVoteCalls = 3
  MaxCalls = 0
  Compaction = FALSE
  DurableRestarts = TRUE
  PromptPromotion = TRUE
INVARIANTS ElectionSafety VoteOnce  SomeoneCampaigns
CHECK_DEADLOCK FALSE
SYMMETRY Symmetry
VIEW View
