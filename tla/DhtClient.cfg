CONSTANTS
  c1 = c1
  c2 = c2
  b1 = b1
  r1 = r1
  r2 = r2
  Call = {c1, c2}
  kind <- mc_kind
  infohash <- mc_infohash
  bootstrap_nodes <- mc_bootstrap
  Remote = {r1, r2}
  real_id <- mc_real_id
  Contacts <- mc_Contacts
  RandomIds <- mc_RandomIds
  Verified <- mc_Verified
  Peer = {p1}
  limit = 1
  max_concurrent_requests = 2
  max_query_rounds = 3
  LookupWidth = 4
  AnnounceWidth = 2
  IdBits = 2
  own_id <- mc_own_id
  K = 1
  MaxBuckets = 2
  NodeTTL = 0
  MaxFailures = 1
  U8Max = 1
  RefreshAge = 1
  MaxTime = 2
  MaxTotal = 8
SPECIFICATION FairSpec
  
PROPERTIES EndsAtNearest CallsEnd
CHECK_DEADLOCK FALSE
