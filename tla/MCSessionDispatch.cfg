\* The dispatch loops in conversation, one fault of any kind.
CONSTANTS
  c1 = c1
  c2 = c2
  Clients = {c1, c2}
  Server = server
  NoClient = NoClient
  NoByte = NoByte
  PW_BUFFER_SIZE = 3
  Cells <- MCCells
  Token <- MCToken
  ConnectingFirst = TRUE
  Faults = {"spurious", "poll_error", "crash"}
  MaxFaults = 1
SPECIFICATION FairSpec
INVARIANTS PipesWellFramed LockStep ClientNeverAhead KilledOnlyAnsweringClose
PROPERTIES RepliesQueuedWhenDrained EveryClientEnds ServerComesBack EveryClientServed
CHECK_DEADLOCK FALSE
