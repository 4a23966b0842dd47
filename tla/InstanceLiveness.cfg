SPECIFICATION Spec
CONSTANTS
  NTasks = 4
  Kind <- PowerAndOffload
  Volume = 0
  Threshold = 1
  ActionFaults = TRUE
PROPERTIES InstanceEnds NoWorkerStranded OperationsAsSpecified
