SPECIFICATION Spec
CONSTANTS
  i1 = i1
  a1 = a1
  a2 = a2
  d1 = d1
  d2 = d2
  NoOwner = NoOwner
  Gone = Gone
  Items = {i1}
  Workers = {a1, a2, d1, d2}
  Analyzers = {a1, a2}
  Dispatchers = {d1, d2}
  Admins = {}
  Undeliverable = {}
  MayCrash = {"job-analyzer", "message-dispatcher"}
  MaxFaults = 0
  MaxCrashes = 2
  MaxRemovals = 0
  MaxRequeues = 0
  AnalyzerRetries = 1
  DispatcherRetries = 1
  MaxDeliveryAttempts = 1
  RawCountCap = 2
  DispatchCountCap = 0
  MaxTrouble = 2
SYMMETRY Interchangeable
INVARIANTS
  NothingStranded
  LeaseHolderAtWork
  HandedOver
  StatusBacked
\* All work can be done and all budgets spent: the pipeline may come to rest.
CHECK_DEADLOCK FALSE
