SPECIFICATION Spec
CONSTANTS
  i1 = i1
  a1 = a1
  d1 = d1
  r1 = r1
  r2 = r2
  NoOwner = NoOwner
  Gone = Gone
  Items = {i1}
  Workers = {a1, d1}
  Analyzers = {a1}
  Dispatchers = {d1}
  Admins = {r1, r2}
  Undeliverable = {}
  MayCrash = {"rss-reader", "job-analyzer", "message-dispatcher", "web-admin"}
  MaxFaults = 2
  MaxCrashes = 2
  MaxRemovals = 1
  MaxRequeues = 2
  AnalyzerRetries = 2
  DispatcherRetries = 2
  MaxDeliveryAttempts = 1
  RawCountCap = 4
  DispatchCountCap = 0
  MaxTrouble = 2
SYMMETRY Interchangeable
INVARIANTS
  TypeOK
  HandedOver
  DoneMeansSent
  SentAtMostOnce
  DeliveryInv
  DeliveriesAccounted
  QuarantineLosesNothing
  NothingStranded
  StatusBacked
PROPERTIES
  ImplementsContract
  DispatchedStays
\* All work can be done and all budgets spent: the pipeline may come to rest.
CHECK_DEADLOCK FALSE
