SPECIFICATION FairSpec
CONSTANTS
  n1 = n1
  n2 = n2
  n3 = n3
  None = None
  Server = {n1, n2}
  Campaigns <- OnlyFirst
  MaxCommands = 2
  MaxRestarts = 0
  MaxFaults = 0
  MaxVoteCalls = 1
  MaxCalls = 2
  Compaction = FALSE
  DurableRestarts = TRUE
  PromptPromotion = TRUE
VIEW ProgressView
PROPERTIES ReplicationCompletes
CHECK_DEADLOCK FALSE
