\* a chip of half the size the driver is built for
CONSTANTS
  Bits = 3
  DevWrite = 4
  ChipCells = 2
  Bytes = {5, 6}
  EEPROM_ENDADDR = 3
  IndexWrap = 4
  Buffers <- MCProbeBuffers
  Lengths = {0}
  Probe = 6
  MaxCalls = 2
  MaxResets = 0
SPECIFICATION Spec
INVARIANT CheckTellsSize
CHECK_DEADLOCK FALSE
