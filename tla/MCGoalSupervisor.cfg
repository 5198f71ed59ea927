SPECIFICATION SupervisorSpec
CONSTANTS
  Supervisors = {s1, s2}
  Nobody = nobody
  MaxRuns = 1
  MaxRetries = 0
  MaxConflicts = 2
  MaxEntries = 1
  MaxSpend = 1
  Outcomes = {"completed", "failed"}
  Verdicts = {"pass"}
  HasDeadline = TRUE
  MaxCommands = 1
  MaxCrashes = 0
  MaxLapses = 1
  MaxRestarts = 0
  MaxDrains = 0
INVARIANTS
  WorkIsNamed
PROPERTIES
  ChargedBeforeItCompletes
  KeepsContract
SYMMETRY Supervisor
CHECK_DEADLOCK FALSE
