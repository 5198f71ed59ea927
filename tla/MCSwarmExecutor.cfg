SPECIFICATION SwarmSpec
CONSTANTS
  Executors = {e1, e2}
  Nobody = nobody
  Tasks = {1, 2, 3, 4}
  Roots = {1, 2}
  Agents = {4}
  Manual = {4}
  DependsOn <- NeedsSecond
  After <- AfterFirst
  Kids <- OneEach
  MaxTasks = 3
  Concurrency = 2
  Outcomes = {"completed", "suspended"}
  Providers = {TRUE, FALSE}
  MaxBegins = 1
  MaxResumes = 1
  MaxCancels = 1
  MaxDrains = 1
  MaxFaults = 1
  MaxCrashes = 1
  MaxLapses = 1
  MaxTroubles = 2
INVARIANTS
  StoppedIsQuiet
  SettledAgrees
  SpawnsFit
PROPERTIES
  CancelIsHandedOn
  ResultsStay
SYMMETRY Executor
CHECK_DEADLOCK FALSE
