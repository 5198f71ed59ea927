SPECIFICATION StoreFairSpec
CONSTANTS
  Requests = {1, 2}
  Keys = {"org", "user"}
  Models = {"m1"}
  Inputs <- TwoScopes
  Actuals = {0, 2}
  LifetimeBucketMs = 1
  MaxTime = 3
  MaxReserves = 2
  ClockMayGoBack = TRUE
  Repeats = TRUE
  PruneCutoffs = {2}
  SweepCutoffs = {2}
  SweepPage = 1
  SweepLimit = 2
  Resolutions = {"settle", "release", "custom"}
  NoLimit = NoLimit
INVARIANTS
  TotalsMatchHistory
  AdmissionCountsWhatIsOwed
  HeldRowsKept
PROPERTIES
  ClosedIsFinal
  StaleHoldsClose
CHECK_DEADLOCK FALSE
