\* Every arrival between any two accesses of the driver.
SPECIFICATION FairSpec
CONSTANTS
  R = 8
  Sizes <- MCSizes
  MaxFrames = 6
INVARIANTS RokMeansFrame
PROPERTIES RokServed QueueSpec
CHECK_DEADLOCK FALSE
