\* a chip that may be late or lose its place, and calls round its end
CONSTANTS
  Bits = 3
  DevWrite = 4
  ChipCells = 4
  Bytes = {5, 6}
  EEPROM_ENDADDR = 3
  IndexWrap = 4
  Buffers <- MCBuffers
  Lengths = {0, 2}
  Probe = 6
  MaxCalls = 1
  MaxResets = 2
SPECIFICATION FairSpec
INVARIANTS
  TypeOK
  NoDisputedBit
  BusFree
  WriteLands
  ReadReturns
PROPERTIES
  ImplementsStore
  Returns
CHECK_DEADLOCK FALSE
