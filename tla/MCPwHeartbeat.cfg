\* Timeout = Interval + TickPeriod + RoundTrip, the least that is enough.
CONSTANTS
  UINT64 = 64
  Interval = 3
  Timeout = 7
  TickPeriod = 2
  RoundTrip = 2
  Start = 1
  MaxTime = 18
SPECIFICATION Spec
INVARIANTS OnePing LivePeerKept SilentPeerGivenUp IdlePeerPinged
PROPERTIES PingsOnlyWhenIdle
CHECK_DEADLOCK FALSE
