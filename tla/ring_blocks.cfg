SPECIFICATION Spec
CONSTANTS
  Writers = {w1}
  Readers = {r1}
  Kind = "block"
  HeaderSize = 2
  DEFAULT_SIZE_1 = 1
  DEFAULT_SIZE_2 = 4
  max_buffer_size = 12
  FirstFlags <- BlockFlags
  LaterFlags <- ClosedOnly
  WriteSizes = {0,1,3}
  ReadSizes = {1,3}
  MaxWrites = 4
  MaxClears = 1
  MaxSettings = 1
CHECK_DEADLOCK FALSE
INVARIANTS BlocksAreWhole MessagesAreEnough NobodyIsForgotten
PROPERTY RingIsFifo
