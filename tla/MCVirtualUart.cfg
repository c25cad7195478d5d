\* two lines, or one with a byte too many, echoed while the host talks on
CONSTANTS
  Bits = 3
  CR <- MCCR
  LF <- MCLF
  NUL <- MCNUL
  Chars <- MCChars
  UART_SIZE = 3
  MaxSent = 8
SPECIFICATION Spec
INVARIANTS
  TypeOK
  DelayNotShared
  EchoIsLine
CHECK_DEADLOCK FALSE
