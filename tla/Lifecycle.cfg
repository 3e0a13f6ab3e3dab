SPECIFICATION Spec
CONSTANTS
  t1 = t1
  t2 = t2
  r1 = r1
  Configs <- Started
  Images <- Files
  MaxIndex = 2
  ChanCap = 1
  Callback = {t1, t2}
  MaxCampaigns = 2
  Rpc = {r1}
  Overtaking = FALSE
INVARIANTS InOrder NoMissedCommit LoadedIsAccepted
PROPERTIES NoCampaignAfterShutdown NothingSentAfterShutdown ShutdownCompletes
CHECK_DEADLOCK FALSE
