SPECIFICATION Spec
CONSTANTS
  Conns <- MCConns
  Index = 1
  Environ = TRUE
  TestPrivileged = FALSE
  None = None
INVARIANTS
  FindsItsServer
  OneServerRuns
  OwnManifests
