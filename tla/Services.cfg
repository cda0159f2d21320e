CONSTANTS
  Caller = {c1}
  MaxLoops = 5
  TCP = TCP
  UDP = UDP
  Ports <- mc_Ports
  MaxPort = 3
  max_retries = 2
  lease_duration = 4
  MinLease = 2
  Us = us
  Other = other
  MaxOther = 1
  MaxCrashes = 1
  reconnect_interval = 3
  heartbeat_interval = 5
  MaxConnections = 3
  Service = {s1}
  Asker = {a1, a2}
  cache_ttl_secs = 2
  failure_cooldown_secs = 1
  max_consecutive_failures = 2
  query_timeout = 1
  ResolverMaxTime = 3
  Node <- mc_Node
  PeerV4 = {v4}
  PeerV6 = {v6}
  interval = 1
  SaveMaxTime = 1
  MaxRestarts = 1
  Ip = {i1}
  max_requests_per_second = 1
  window_secs = 1
  max_token_failures = 2
  max_unique_infohashes = 1
  initial_ban_secs = 2
  max_ban_secs = 5
  MaxDoublings = 2
  record_ttl_secs = 3
  FilterMaxTime = 5
  MaxCalls = 6
  Client = {x1}
  k1 = k1
  k2 = k2
  Key <- mc_Key
  AuthConfig <- mc_AuthConfig
  rate_limit_window_secs = 2
  AuthMaxTime = 7
  MaxAdmitted = 6
SPECIFICATION ServicesSpec
INVARIANTS
  RunningHasLoop
  
  AnswersRecent
  RestoredIsLastSaved
  
PROPERTIES
  ReleasedGoes
  HeartbeatsStop
  BansHold
CHECK_DEADLOCK FALSE
