SPECIFICATION WorkerSpec
CONSTANTS
  Codes = {k1}
  NoCode = NoCode
  Clients = {c1}
  MaxStage = 3
  MaxJobs = 1
  MaxBacklog = 3
  MaxFaults = 2
  SlowRuns = TRUE
  Subjects = {a, b}
  Visitors = {v1}
  MaxStudies = 2
  MaxQueued = 2
  MaxLosses = 1
  Quoted = {q1, q2}
  Streams = {s1, s2}
  MaxSubscriptions = 2
  KisLimit = 1             \* below MaxSubscriptions: a KIS that refuses with two codes already
  MaxWire = 2
  MaxBreaks = 1
  N = 3
  Troubled = {1}
  Reports = {r1, r2}
  PerRun = 2
  Share = 3
  Whole = 5
  Pairs <- TwoAtOnce
  MaxFailures = 1
  MaxDeaths = 1
  MaxEarly = 1
  MaxQuarters = 1
PROPERTIES JobsMoveBacked StudiesConclude KisServesStreams StocksAreServed
CHECK_DEADLOCK FALSE
