CONSTANTS
  IP = {ip1, ip2, ip3}
  Port = {1}
  Remote = {}
  Bootstrap = {}
  Infohash = {ih1, ih2}
  PeerTTL = 1
  MaxPeers = 2
  RotationInterval = 1
  hash_pair <- mc_hash_pair
  HashSpace = 8
  num_bits = 4
  num_hashes = 2
  IdBits = 1
  own_id <- mc_own_id
  NodeIds = {}
  K = 1
  MaxBuckets = 1
  NodeTTL = 1
  MaxFailures = 1
  U8Max = 1
  RefreshAge = 1
  MaxTotal = 1
  BootstrapInterval = 1
  MaintenanceInterval = 1
  SleepTime = 1
  MinGap = 1
  MaxTime = 4
SYMMETRY Symmetry
SPECIFICATION StoreSpec
INVARIANTS CountersExact
PROPERTY ActsAsDirectory
