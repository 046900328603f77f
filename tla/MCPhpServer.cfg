\* Three connections compete for two places; callbacks nest two deep.
CONSTANTS
  s1 = s1
  s2 = s2
  s3 = s3
  Session <- MCSession
  Id <- MCId
  maxSessions = 2
  idleTimeoutMs = 1
  Handlers = {"connect", "close", "error"}
  MaxTime = 3
  MaxDepth = 3
SYMMETRY Symmetry
SPECIFICATION Spec
INVARIANTS TypeOK QuotaHolds Balanced SweepComplete
 
CHECK_DEADLOCK FALSE
