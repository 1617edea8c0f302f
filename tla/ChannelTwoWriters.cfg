SPECIFICATION ChannelSpec
CONSTANTS
  Writers = {w1, w2}
  Readers = {r1}
  NoHolder = NoHolder
  NULL = NULL
  BufLen = 2
  MaxMessages = 2
  MaxSpurious = 0
INVARIANTS
  FIFO
CHECK_DEADLOCK FALSE
