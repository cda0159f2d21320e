CONSTANTS
  Peer = {p1, p2}
  Addr = {a1}
  Task = {t1, t2}
  max_connected_peers = 1
  pex_request_interval = 1
  PeerTTL = 0
  MaxSkipped = 2
  OurId = 1
  PeerIds = {2}
  MaxTime = 1
  Call = {c1, c2}
  Infohash = {h1, h2}
  Neighbour = {n1}
  min_broadcast_interval = 2
  query_wait_time = 1
  peer_ttl = 2
  LpdMaxTime = 3
  overall_timeout = 4
  INITIAL_TIMEOUT = 1
  MAX_RETRIES = 3
  Id = {7, 8}
  Junk = 9
  MaxDelay = 1
  V4Node = {"n1", "n2"}
  V6Node = {"n6"}
  Target = {"h1", "h2"}
  Port = {0, 65535}
  MaxAnnounced = 2
  first = first
  second = second
  trackers <- mc_trackers
  max_concurrent_requests = 2
  max_consecutive_failures = 2
  cooldown_duration = 2
  MaxFailures = 4
SPECIFICATION Spec
INVARIANTS
  DisconnectedStayOut
  
  CallInTime
  Understood
  DisabledIffFailing
PROPERTIES
  ExchangesEnd
  DisabledRecovers
  
CHECK_DEADLOCK FALSE
