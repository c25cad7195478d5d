\* two images of different sizes, a patient host that may never come, losses and
\* a power cycle
CONSTANTS
  A = A
  B = B
  None = None
  Versions = {A, B}
  ImageBytes <- BytesAB
  Uint32 <- MCUint32
  app_address = 32
  flash_sector_size = 4
  packet_size = 4
  FlashCells = 8
  VectorCell = 1
  Or <- MCOr
  PatientHost = TRUE
  MaxLosses = 2
  MaxReboots = 1
  MaxFaults = 0
SPECIFICATION FairSpec
PROPERTIES
  BootsWithoutHost
  UpdateCompletes
CHECK_DEADLOCK FALSE
