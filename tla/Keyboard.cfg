\* Keys pressed during the initialisation, while main waits and while a caller
\* reads, in every order.  The keyboard never stops: no deadlock.
SPECIFICATION FairSpec
CONSTANTS
  Printing = {"enter"}
  Shift = {"lshift"}
  Other = {"ctrl"}
  Enter = "enter"
  NoChar = NoChar
  Size = 3
  DeviceSize = 1
INVARIANTS ConfigKept WokenUp
PROPERTIES ImplementsKeyQueue KeysReturned
