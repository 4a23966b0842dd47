SPECIFICATION Spec
CONSTANTS
    Clients = {c1, c2}
    Server = server
    Durations = {{c1}, {server}}
    NumClients = 2
    Bufsize = 3
    SockBuf = 1
    Altering = TRUE
INVARIANTS
  EveryByteAccounted
  HungUpOnlyAtTheEnd
PROPERTIES
  TimedRunsEnd
  ServerEndsAfterItsClients
  ChunkAnswered
