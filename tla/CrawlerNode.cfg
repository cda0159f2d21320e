CONSTANTS
  ip1 = ip1
  ip2 = ip2
  ip3 = ip3
  p1 = p1
  p2 = p2
  ih1 = ih1
  ih2 = ih2
  IP = {ip1, ip2, ip3}
  Port = {p1, p2}
  Remote <- mc_Remote
  Bootstrap <- mc_Bootstrap
  Infohash = {ih1, ih2}
  PeerTTL = 1
  MaxPeers = 2
  RotationInterval = 1
  hash_pair <- mc_hash_pair
  HashSpace = 8
  num_bits = 4
  num_hashes = 2
  IdBits = 1
  own_id <- mc_own_id
  NodeIds <- mc_NodeIds
  K = 2
  MaxBuckets = 1
  NodeTTL = 1
  MaxFailures = 1
  U8Max = 1
  RefreshAge = 1
  MaxTotal = 3
  BootstrapInterval = 3
  MaintenanceInterval = 1
  SleepTime = 1
  MinGap = 2
  MaxTime = 4
SPECIFICATION Spec
INVARIANTS OnlyVerifiedEnter CollectedOnce 
CHECK_DEADLOCK FALSE
