\* One poller, three request threads that cross, the decrement not interrupted.
SPECIFICATION FairSpec
CONSTANTS
  Codes = {k1}
  NoCode = NoCode
  Clients = {c1, c2, c3}
  Pollers = {worker}
  Lanes = {l1, l2}
  MaxJobs = 4
  MaxCrashes = 1
  StaleAfter = 2
  MaxMissed = 1
  CounterRace = FALSE
INVARIANT StaleIsOrphan
PROPERTIES QueueIsOrderly ImplementsLease EveryJobConcludes
