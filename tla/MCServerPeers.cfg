\* Two peers with up to three messages each, a spurious wake-up, and a server that gets as far as HANDSHAKING.
CONSTANTS
  p1 = p1
  p2 = p2
  Clients = {p1, p2}
  Server = server
  NoClient = NoClient
  NoByte = NoByte
  PW_BUFFER_SIZE = 3
  Cells <- MCCells
  Frames <- MCFrames
  MaxMessages = 4
  ConnectingFirst = TRUE
  Faults = {"spurious"}
  MaxFaults = 1
SPECIFICATION FairSpec
INVARIANTS ServedOnlyAuthenticated WaitsForPeer
PROPERTIES ComesBackWhenPeersLeave
CHECK_DEADLOCK FALSE
