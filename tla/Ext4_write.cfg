\* Every fault and crash; directories as targets too.
SPECIFICATION Spec
CONSTANTS
  NBlocks = 9
  FirstDataBlock = 1
  NInodes = 7
  Root = 2
  Dirs = {2, 3}
  NSlots = 3
  Names <- MCNames
  NoName = NoName
  Contents <- MCContents
  NoContent = NoContent
  Size <- MCSize
  Image <- MCImage
  ShiftMasked = FALSE
  MaxWrites = 2
INVARIANTS EntriesInitialised OneNamePerInode NamesUnique
           BlocksConsistent FreeCountsCover LeakBound
PROPERTIES EntriesPersist ImplementsFileStore
CHECK_DEADLOCK FALSE
