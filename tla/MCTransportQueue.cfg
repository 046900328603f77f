\* Output queued at write_buffer + write_len while an earlier send was short.
CONSTANTS
  PW_BUFFER_SIZE = 3
  NoByte = NoByte
  Byte = {0, 1}
  MaxBytes = 4
  QueueAtFront = FALSE
SPECIFICATION Spec
INVARIANTS WireInOrder
CHECK_DEADLOCK FALSE
