SPECIFICATION CompanySpec
CONSTANTS
  Codes = {k1}
  NoCode = NoCode
  Clients = {c1}
  MaxStage = 3
  MaxJobs = 2
  MaxBacklog = 1
  MaxFaults = 1
  SlowRuns = TRUE
  Terms = {q1}
  Visits = {v1, v2}
  MaxFilings = 1
  MaxFailed = 1
  Unfiled = {q1}
  Quarters = 5
  Sales = {1, 2}
  MaxSpoilt = 1
  NoFigure = NoFigure
  IncomeRows <- IncomeKinds
  BalanceRows <- BalanceKinds
  MaxRows = 4
  NoAmount = NoAmount
INVARIANTS PublishedIsComplete AnswerIsCurrent TtmIsFourQuarters EveryRowOnce
SYMMETRY Requests
CHECK_DEADLOCK FALSE
