SPECIFICATION AnalysisFairSpec
CONSTANTS
  NoOwner = NoOwner
  Gone = Gone
  Items = {i1}
  Workers = {a1}
  Analyzers = {a1}
  Dispatchers = {}
  MayCrash = {"job-analyzer"}
  MaxFaults = 1
  MaxCrashes = 1
  MaxRemovals = 0
  AnalyzerRetries = 2
  MaxDeliveryAttempts = 2
  RawCountCap = 3
  LimiterGap = 1
  RetryBaseDelay = 2
  BasicTimeout = 2
  ScraplingTimeout = 1
  SourceMinChars = 220
  SourceMaxChars = 2500
  Lengths = {0, 219, 2500}
  LLMTimeout = 1
  LLMTimeoutMax = 4
  LLMTimeoutPer1KChars = 1
  LLMTimeoutPer256Tokens = 1
  LLMMaxTokens = 200
  PromptChars = 70
  CompactChars = 60
  MaxTrouble = 1
INVARIANTS
  AnalysisTypeOK
  SpentInBudget
  TextIsKept
  QuarantineHasReason
PROPERTIES
  EveryJobDecided
\* The worker rests when its job is done and the budgets are spent.
CHECK_DEADLOCK FALSE
