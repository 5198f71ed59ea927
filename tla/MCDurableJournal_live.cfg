SPECIFICATION FairJournalSpec
CONSTANTS
  Owners = {a}
  FreshOwners = TRUE
  Ttl = 1
  MaxClock = 3
  MaxGrants = 1
  MaxPrunes = 1
  MaxBatch = 2
  MaxFrames = 2
  Transients = TRUE
  MaxFaults = 1
  MaxLeaves = 1
  MaxCrashes = 1
  StoredFences = {0, 2}
INVARIANTS
  WireKeepsOrder
PROPERTIES
  EverythingIsCommitted
  EndedLegCloses
  StaleProducerStops
CHECK_DEADLOCK FALSE
