CONSTANTS
  Invocation = {i1, i2}
  MaxAttempt = 2
  Nobody = Nobody
  MaxBuild = 2
SPECIFICATION JobSpec
INVARIANTS OneOwner RejectedByAnother BreakageIsAnnounced NoHookLeftBehind ReuseExplainsLoss
PROPERTY OwnerFinalizes
CHECK_DEADLOCK FALSE
