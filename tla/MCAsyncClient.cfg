\* Backoffs 2, 3, 3: multiplier 1.5, capped. onConnect may call tick() again.
CONSTANTS
  autoReconnect = TRUE
  maxReconnectAttempts = 3
  initialBackoffMs = 2
  maxBackoffMs = 3
  MultNum = 3
  MultDen = 2
  WORD = 64
  Handlers = {"connect", "close"}
  Ticking = {"connect"}
  MaxDepth = 3
  MaxCallback = 2
SPECIFICATION FairSpec
INVARIANTS TypeOK CallbacksAlternate ScheduleDropped
PROPERTIES BackoffHolds ToldInTheEnd RetriesRunOut
