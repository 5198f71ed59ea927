SPECIFICATION SwarmSpec
CONSTANTS
  Executors = {e1}
  Nobody = nobody
  Tasks = {1, 2, 3}
  Roots = {1, 2, 3}
  Agents = {}
  Manual = {1, 2, 3}
  DependsOn <- None
  After <- None
  Kids <- NoKids
  MaxTasks = 3
  Concurrency = 2
  Outcomes = {"completed"}
  Providers = {TRUE}
  MaxBegins = 1
  MaxResumes = 0
  MaxCancels = 0
  MaxDrains = 0
  MaxFaults = 0
  MaxCrashes = 0
  MaxLapses = 0
  MaxTroubles = 0
INVARIANTS
  EffectsAreAllowed
CHECK_DEADLOCK FALSE
