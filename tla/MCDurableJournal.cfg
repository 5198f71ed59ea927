SPECIFICATION JournalSpec
CONSTANTS
  Owners = {a, b}
  FreshOwners = TRUE
  Ttl = 1
  MaxClock = 3
  MaxGrants = 2
  MaxPrunes = 1
  MaxBatch = 2
  MaxFrames = 1
  Transients = FALSE
  MaxFaults = 0
  MaxLeaves = 0
  MaxCrashes = 0
  StoredFences = {0, 2}
INVARIANTS
  PersistBeforePublish
  EndMeansFree
PROPERTIES
  OneLegAtATime
SYMMETRY Producer
CHECK_DEADLOCK FALSE
