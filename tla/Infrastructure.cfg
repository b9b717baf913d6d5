SPECIFICATION MCSpec
CONSTANTS
  Focuses = {"tx", "lock", "token", "idempotency", "cache", "calls", "money", "store", "connections", "statistics", "algorithms"}
  Configured <- MCConfigured
  Nest = {}
  HealthCheck = TRUE
  Users = {"u"}
  None = None
  Branches = {b1, b2}
  Callers = {c1, c2}
  Faulty = {b1, b2}
  Clients = {l1, l2, l3}
  Retries = 2
  Ttl = 2
  MaxTime = 4
  Requests = {r1, r2}
  TokenLife = 5
  Margin = 2
  TokenDelay = 2
  TokenEnd = 11
  Tries = {a1, a2, a3}
  Writers = {w1, w2}
  RowKeys = {"k", "m", "n"}
  RowStatuses = {"open", "done"}
  Dialects = {"mongo", "postgres"}
  StoreJobs <- MCStoreJobs
  FirstRows <- MCFirstRows
  MaxRows = 9
  BatchSize = 2
  PageLimit = 2
  MaxHistory = 1
  MaxChecks = 3
  MaxFaults = 1
  Currencies = {"JPY", "USD", "ZZZ", "KWD"}
  Decimals <- MCDecimals
  RateScale = 100
  Mantissa = 5
  Amounts <- MCAmounts
  Parts = {1, 2, 3}
  Percents = {15, 50}
  Rates <- MCRates
  MaxPurse = 3
  ReportedQueries <- MCReportedQueries
  WorthCaching = 1
  SlowQuery = 2
  SlowJoin = 3
  VerySlowQuery = 4
  KeptQueries = 3
  MaxSuggestions = 4
  MaxReported = 2
  MaxRecorded = 4
  Batches <- MCBatches
  Concurrency = 2
  MaxAttempts = 2
  DelayMs = 1
  Processes = {"a", "b"}
  CacheKeys = {"n", "c", "v", "q"}
  CachePrograms <- MCCachePrograms
  Cached = {"c"}
  Channels = {"d", "e"}
  Default = 2
  CacheEnd = 2
INVARIANTS
  AllTypesOK
  Exclusive
  DoneOnce
  CacheTruthful
  PoolFaithful
  ToolsRight
  
  OneRowPerKey
  StoreTruthful
  HealthTruthful
  AdviceTrue
PROPERTIES
  CommitTruthful
  NeverExpired
  MoneyKept
  AllAnswered
CHECK_DEADLOCK FALSE
