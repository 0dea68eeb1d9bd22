\* A write on a healthy disk, as the Makefile builds the driver.
SPECIFICATION Spec
CONSTANTS
  NBlocks = 9
  FirstDataBlock = 1
  NInodes = 7
  Root = 2
  Dirs = {2, 3}
  NSlots = 3
  Names <- MCNames
  NoName = NoName
  Contents <- MCContents
  NoContent = NoContent
  Size <- MCSize
  Image <- MCImage
  ShiftMasked = TRUE
  MaxWrites = 2
INVARIANTS WritesStayOnDevice
CHECK_DEADLOCK FALSE
