SPECIFICATION SafetySpec
CONSTANTS
  NTasks = 5
  Kind <- AllPlugins
  Volume = 1
  Threshold = 1
  ActionFaults = FALSE
INVARIANTS TrafficNeedsEverybody ServerOutlivesWorkers ResultIsComplete OffloadCountsToTheEnd NobodyWaitsInVain
