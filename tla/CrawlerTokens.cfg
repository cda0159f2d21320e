CONSTANTS
  ip1 = ip1
  ip2 = ip2
  ip3 = ip3
  p1 = p1
  p2 = p2
  ih1 = ih1
  ih2 = ih2
  IP = {ip1, ip2, ip3}
  Port = {p1}
  Remote <- mc_Remote
  Bootstrap <- mc_Bootstrap
  Infohash = {ih1}
  PeerTTL = 1
  MaxPeers = 2
  RotationInterval = 2
  hash_pair <- mc_hash_pair
  HashSpace = 8
  num_bits = 4
  num_hashes = 2
  IdBits = 1
  own_id <- mc_own_id
  NodeIds <- mc_NodeIds
  K = 1
  MaxBuckets = 1
  NodeTTL = 1
  MaxFailures = 1
  U8Max = 1
  RefreshAge = 1
  MaxTotal = 1
  BootstrapInterval = 99
  MaintenanceInterval = 1
  SleepTime = 1
  MinGap = 2
  MaxTime = 9
SPECIFICATION Spec
INVARIANT FreshTokenVerifies
PROPERTY RefusedForGood
CHECK_DEADLOCK FALSE
