SPECIFICATION FairSpec
CONSTANTS
  Writers = {w1,w2}
  Readers = {r1}
  Kind = "raw"
  HeaderSize = 2
  DEFAULT_SIZE_1 = 4
  DEFAULT_SIZE_2 = 4
  max_buffer_size = 4
  FirstFlags <- PipeFlags
  LaterFlags <- ClosedOnly
  WriteSizes = {1,3}
  ReadSizes = {1,2}
  MaxWrites = 3
  MaxClears = 0
  MaxSettings = 1
CHECK_DEADLOCK FALSE
PROPERTIES WritersGetThrough ClosedIsLeft
