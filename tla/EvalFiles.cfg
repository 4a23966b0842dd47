SPECIFICATION FilesSpec
CONSTANTS
  t1 = t1
  t2 = t2
  l1 = l1
  l2 = l2
  Nothing = Nothing
  Configs <- TheConfigs
  Logs <- TheLogs
  Jobs <- AllJobs
  MaxLevel = 2
INVARIANTS
  FilesTypeOK
  FailureChangesNothing
