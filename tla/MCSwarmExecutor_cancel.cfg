SPECIFICATION SwarmSpec
CONSTANTS
  Executors = {e1, e2}
  Nobody = nobody
  Tasks = {1}
  Roots = {1}
  Agents = {1}
  Manual = {1}
  DependsOn <- None
  After <- None
  Kids <- NoKids
  MaxTasks = 1
  Concurrency = 1
  Outcomes = {"completed", "suspended"}
  Providers = {TRUE}
  MaxBegins = 1
  MaxResumes = 0
  MaxCancels = 1
  MaxDrains = 0
  MaxFaults = 0
  MaxCrashes = 1
  MaxLapses = 0
  MaxTroubles = 3
INVARIANTS
  CancelIsKept
CHECK_DEADLOCK FALSE
