SPECIFICATION SupervisorFairSpec
CONSTANTS
  Supervisors = {s1}
  Nobody = nobody
  MaxRuns = 1
  MaxRetries = 1
  MaxConflicts = 2
  MaxEntries = 1
  MaxSpend = 0
  Outcomes = {"completed", "suspended", "failed"}
  Verdicts = {"open"}
  HasDeadline = FALSE
  MaxCommands = 1
  MaxCrashes = 1
  MaxLapses = 0
  MaxRestarts = 1
  MaxDrains = 1
PROPERTIES
  EverythingSettles
CHECK_DEADLOCK FALSE
