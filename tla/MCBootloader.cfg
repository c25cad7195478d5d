\* two images, losses, noise, damage, power cycles and a flash operation that
\* fails, an impatient host
CONSTANTS
  A = A
  B = B
  None = None
  Versions = {A, B}
  ImageBytes <- BytesAB
  Uint32 <- MCUint32
  app_address = 32
  flash_sector_size = 4
  packet_size = 4
  FlashCells = 8
  VectorCell = 1
  Or <- MCOr
  PatientHost = FALSE
  MaxLosses = 2
  MaxReboots = 2
  MaxFaults = 1
SPECIFICATION Spec
INVARIANTS
  TypeOK
  PacketsLandInOrder
  ProgramsErased
  FlashedOnSuccess
  HostDoneSound
  ConfirmedAtItsSize
  NoMixedImage
  StartsWithItsVector
CHECK_DEADLOCK FALSE
