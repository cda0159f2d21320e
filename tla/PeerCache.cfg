CONSTANTS
  ih1 = ih1
  ih2 = ih2
  Shards <- mc_Shards
  Addr = {a1,a2}
  Task = {t1,t2}
  max_peers = 1
  max_per_infohash = 1
  Limit = 1
  PeerTTL = 0
  FailLimit = 2
  MaxAttempts = 2
  MaxTime = 1
SPECIFICATION Spec
SYMMETRY Symmetry
INVARIANTS BoundedAtRest FailureBudget
PROPERTY LiveDropsExplained
