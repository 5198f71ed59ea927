SPECIFICATION Spec
CONSTANTS
  Schedulers = {x, y}
  NumSchedules = 2
  MaxParties = 3
  Specs <- Varied
  Grace = 1
  MaxDeliveries = 1
  MaxScan = 2
  MaxConflicts = 3
  MaxClock = 3
  MaxChanges = 3
  MaxFaults = 1
  MaxCrashes = 1
  MaxApplies = 1
  MaxPrunes = 1
  MaxEvents = 3
INVARIANTS
  DeliveredOnce
  NothingForgotten
  CancelledIsQuiet
  LatestDeliversTheNewest
  TurnsAreFair
SYMMETRY Scheduler
CHECK_DEADLOCK FALSE
