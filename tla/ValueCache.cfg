CONSTANTS
  Writer = {w1, w2}
  MaxName = 1
  MaxTime = 3
  MaxInterval = 1
  timeout_g = 1
  MaxBack = 1
  MaxSlots = 2
SPECIFICATION LiveSpec
INVARIANTS TypeOK MissingStillCached CacheHoldsNewest NewFirst
PROPERTIES UpdatesReachSubscribers SilentExpires
