SPECIFICATION JournalSpec
CONSTANTS
  Owners = {a, b, c}
  FreshOwners = TRUE
  Ttl = 1
  MaxClock = 3
  MaxGrants = 3
  MaxPrunes = 0
  MaxBatch = 2
  MaxFrames = 1
  Transients = FALSE
  MaxFaults = 0
  MaxLeaves = 0
  MaxCrashes = 0
  StoredFences = {2}
PROPERTIES
  StaleCommitIsRefused
SYMMETRY Producer
CHECK_DEADLOCK FALSE
