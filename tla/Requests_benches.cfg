\* Overlapping requests and deletions of one code next to another code, a death
\* of the worker; two threads refused together, batches that begin, a midnight.
SPECIFICATION RequestsSpec
CONSTANTS
  Codes = {a, b}
  Clients = {k1, k2}
  MaxJobs = 3
  MaxCrashes = 1
  Threads = {t1, t2}
  RingSize = 2
  Budget = 2
  Reconfigures = TRUE
  MaxDays = 1
INVARIANTS DoneHasReport KeysServeInTurn
PROPERTIES NeverOlder ConcludesInALife EveryRequestEnds
CHECK_DEADLOCK FALSE
