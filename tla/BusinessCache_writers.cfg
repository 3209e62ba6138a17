\* All writers at once.
SPECIFICATION FairSpec
CONSTANTS
  Batches = {b1}
  MaxFilings = 2
  MaxResearch = 1
  MaxInvalidations = 1
  MaxCrashes = 1
INVARIANTS SectionsMatchHash
PROPERTY EventuallyFresh
CHECK_DEADLOCK FALSE
