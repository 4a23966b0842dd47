SPECIFICATION SafetySpec
CONSTANTS
  NTasks = 3
  Kind <- OnePower
  Volume = 0
  Threshold = 1
  ActionFaults = FALSE
INVARIANTS NotKilled
