CONSTANTS
  IdBits = 3
  own_id <- mc_own_id
  Nodes <- mc_Nodes
  K = 2
  MaxBuckets = 3
  NodeTTL = 0
  MaxFailures = 2
  U8Max = 2
  RefreshAge = 0
  MaxTime = 1
  MaxTotal = 4
  a1 = a1
  a2 = a2
  a3 = a3
  a4 = a4
SPECIFICATION Spec
INVARIANTS BucketsWellFormed CountCoversNodes FindClosestNearest
PROPERTY LiveNodeKept
