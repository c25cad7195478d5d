\* every branch of the packet type, one byte of payload
CONSTANTS
  Radix = 8
  Bytes = {0, 1, 2, 3, 4, 5, 6}
  Ack = 0
  StartByte = 1
  Command = 2
  Data = 3
  PingResponse = 4
  Ping = 5
  Nak = 6
  AckAbort = 7
  LENGTH = 1
  packet_size = 1
  Crc <- MCCrc
  StackJunk <- MCJunk
SPECIFICATION FairSpec
INVARIANTS
  TypeOK
  DispatchIntegrity
PROPERTIES
  StrayStores
  PacketEnds
CHECK_DEADLOCK FALSE
