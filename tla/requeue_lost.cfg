SPECIFICATION FairSpec
CONSTANTS
  i1 = i1
  a1 = a1
  d1 = d1
  r1 = r1
  NoOwner = NoOwner
  Gone = Gone
  Items = {i1}
  Workers = {a1, d1}
  Analyzers = {a1}
  Dispatchers = {d1}
  Admins = {r1}
  Undeliverable = {}
  MayCrash = {}
  MaxFaults = 0
  MaxCrashes = 0
  MaxRemovals = 0
  MaxRequeues = 1
  AnalyzerRetries = 1
  DispatcherRetries = 1
  MaxDeliveryAttempts = 1
  RawCountCap = 2
  DispatchCountCap = 0
  MaxTrouble = 1
PROPERTIES
  RequeueIsDelivered
\* All work can be done and all budgets spent: the pipeline may come to rest.
CHECK_DEADLOCK FALSE
