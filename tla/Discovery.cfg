CONSTANTS
  tracker = tracker
  dht = dht
  Default <- mc_Default
  Other = {}
  Usable = {tracker}
  Addr = {a1, a2}
  Task = {t1, t2}
  Consumer = {c1}
  Filtered = {c1}
  MaxConcurrent = 2
  Limit = 1
  Capacity = 2
  MaxUpdates = 1
  MaxRegistered = 2
SPECIFICATION Spec
INVARIANT LostOnlyByLag
PROPERTIES PutBackExplained RequestsReturn
CHECK_DEADLOCK FALSE
