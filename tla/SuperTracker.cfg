CONSTANTS
  ip1 = ip1
  ip2 = ip2
  ip3 = ip3
  localhost = localhost
  p1 = p1
  p2 = p2
  UdpClient <- mc_UdpClient
  HttpClient <- mc_HttpClient
  HttpAddr <- mc_HttpAddr
  Infohash = {ih1}
  PeerTTL = 1
  ConnTTL = 1
  SweepInterval = 2
  MaxConn = 2
  MaxTasks = 2
  MaxTime = 4
SPECIFICATION Spec
INVARIANTS StoredIpConnected 
PROPERTY ActsAsSwarm
