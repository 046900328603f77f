\* The server as it is, no faults: does any handshake complete?
CONSTANTS
  c1 = c1
  c2 = c2
  Clients = {c1, c2}
  Server = server
  NoClient = NoClient
  NoByte = NoByte
  PW_BUFFER_SIZE = 3
  Cells <- MCCells
  Token <- MCToken
  ConnectingFirst = FALSE
  Faults = {}
  MaxFaults = 0
SPECIFICATION FairSpec
PROPERTIES HandshakeCompletes
CHECK_DEADLOCK FALSE
