\* A two-byte token; on each connection three frames from the peer (the answer to AUTH and two more), one message sent,
\* and up to two places, anywhere, where the bytes on their way are cut.
CONSTANTS
  token <- MCToken
  Payloads <- MCPayloads
  PeerFrames <- MCPeerFrames
  ShortWrites = FALSE
  MaxSends = 1
  MaxPeerFrames = 3
  MaxCuts = 2
SPECIFICATION Spec
INVARIANTS Delivered TokenAfterAcceptance  DaemonShutOut
