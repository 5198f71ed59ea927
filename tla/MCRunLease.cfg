SPECIFICATION FairRunSpec
CONSTANTS
  Owners = {a, b}
  FreshOwners = FALSE
  Ttl = 1
  MaxClock = 2
  MaxGrants = 2
  MaxPrunes = 1
  Sent = {"cancel", "drain"}
  Providers = {TRUE, FALSE}
  MaxSaves = 1
  MaxSignals = 1
  MaxFaults = 1
  MaxCrashes = 1
INVARIANTS
  DrainConcernsTheHolder
  CancelSurvives
  DrivesAlone
  HolderIsAlone
  OnlyTheLastLeaseCounts
PROPERTIES
  EndedIsFinal
  StaleDriverStops
  CancelStops
CHECK_DEADLOCK FALSE
