SPECIFICATION Spec
CONSTANTS
  Tests <- OneNamespace
  Check = TRUE
  OutputBase = TRUE
  MaxRuns = 1
INVARIANTS NumberedFilesOrPersistentPods
