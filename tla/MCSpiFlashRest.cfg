\* one write, after the chip was opened
CONSTANTS
  d1 = d1
  d2 = d2
  FF = FF
  Data = {d1, d2, FF}
  SECSIZE = 4
  PAGESIZE = 2
  Sectors = 2
  Buffers <- MCBuffers
  Lengths = {0, 1, 3}
  ChipId = "id"
  Junk = {"junk"}
  MaxCalls = 2
SPECIFICATION Spec
INVARIANT KeepsRest
CHECK_DEADLOCK FALSE
