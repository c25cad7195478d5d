\* a call that may fail in an operation, and lose power
CONSTANTS
  d1 = d1
  d2 = d2
  FFFF = FFFF
  Words = {d1, d2, FFFF}
  Buffers <- MCBuffers
  SectorWords = 2
  Sectors = 3
  BANK1 = 2
  MaxCalls = 1
  MaxFaults = 1
  MaxReboots = 1
SPECIFICATION FairSpec
INVARIANTS
  TypeOK
  NoErrorOfItsOwn
  AtMostOneSectorTorn
PROPERTIES
  ImplementsStore
  Returns
CHECK_DEADLOCK FALSE
