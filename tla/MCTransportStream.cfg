\* Short reads and writes in every interleaving; output queued at write_pos = 0.
CONSTANTS
  PW_BUFFER_SIZE = 3
  NoByte = NoByte
  Byte = {0, 1}
  MaxBytes = 4
  QueueAtFront = TRUE
SPECIFICATION Spec
INVARIANTS TypeOK  ReadIntact WriteIntact
PROPERTIES ReadFifo WriteFifo
CHECK_DEADLOCK FALSE
