SPECIFICATION Spec
CONSTANTS
  i1 = i1
  a1 = a1
  d1 = d1
  NoOwner = NoOwner
  Gone = Gone
  Items = {i1}
  Workers = {a1, d1}
  Analyzers = {a1}
  Dispatchers = {d1}
  Admins = {}
  Undeliverable = {}
  MayCrash = {}
  MaxFaults = 0
  MaxCrashes = 0
  MaxRemovals = 0
  MaxRequeues = 0
  AnalyzerRetries = 1
  DispatcherRetries = 1
  MaxDeliveryAttempts = 1
  RawCountCap = 2
  DispatchCountCap = 0
  MaxTrouble = 0
PROPERTIES
  OnlyRequeueMakesNew
\* All work can be done and all budgets spent: the pipeline may come to rest.
CHECK_DEADLOCK FALSE
