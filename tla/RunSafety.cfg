SPECIFICATION Spec
CONSTANTS
  Tests <- OneNamespace
  Check = TRUE
  OutputBase = FALSE
  MaxRuns = 2
INVARIANTS
  OwnNamespace
  CleanAtEnd
  FilesComplete
  ExitCodeTruthful
