\* a chip that may be done in time, late, or never
CONSTANTS
  d1 = d1
  d2 = d2
  FF = FF
  Data = {d1, d2, FF}
  SECSIZE = 4
  PAGESIZE = 2
  Sectors = 2
  Buffers <- MCBuffers
  Lengths = {0, 1, 3}
  ChipId = "id"
  Junk = {"junk"}
  MaxCalls = 3
SPECIFICATION FairSpec
INVARIANTS
  TypeOK
  WriteLands
  ReadReturns
  LatchClosed
PROPERTY Returns
CHECK_DEADLOCK FALSE
