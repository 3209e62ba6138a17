\* The worker and a manual batch run poll the same table.
SPECIFICATION Spec
CONSTANTS
  Codes = {k1, k2}
  NoCode = NoCode
  Clients = {c1}
  Pollers = {worker, manual}
  Lanes = {l1, l2}
  MaxJobs = 2
  MaxCrashes = 0
  StaleAfter = 2
  MaxMissed = 1
  CounterRace = FALSE
INVARIANTS OneExecution
