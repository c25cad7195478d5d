\* lengths from 0 to 15 against a buffer of 4 bytes
CONSTANTS
  Radix = 4
  First = 1
  Second = 2
  MAX_PACKET_LEN = 4
  Crc <- MCCrc
SPECIFICATION Spec
INVARIANTS
  TypeOK
  DeliveredWhole
