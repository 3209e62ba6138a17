\* A research merge against the batch.
SPECIFICATION Spec
CONSTANTS
  Batches = {b1}
  MaxFilings = 2
  MaxResearch = 1
  MaxInvalidations = 0
  MaxCrashes = 0
PROPERTY NeverOlder
CHECK_DEADLOCK FALSE
