\* Limit plus request may exceed the word, as uint32_t arguments may.
CONSTANTS
  UINT32 = 16
  Limits = {10}
  MaxRequest = 8
  MaxHeld = 20
SPECIFICATION FlowSpec
INVARIANTS LimitHolds
CHECK_DEADLOCK FALSE
