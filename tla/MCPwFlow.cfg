\* Limit plus request always fits the word.
CONSTANTS
  UINT32 = 16
  Limits = {0, 1, 6, 9}
  MaxRequest = 6
  MaxHeld = 20
SPECIFICATION FlowSpec
INVARIANTS LimitHolds Accounted EmptyQueueAccepts
CHECK_DEADLOCK FALSE
