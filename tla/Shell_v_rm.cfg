\* A name that begins like another one.
SPECIFICATION Spec
CONSTANTS
  Names <- MCNames
  NoName = NoName
  Prefix <- MCPrefix
  Texts = {"", "x"}
  Empty = ""
  TextLen <- MCTextLen
  Home = "home"
  Manual = "ab"
  InitialFiles <- MCFiles
  InitialUser = "ab"
  InitialPath <- MCPath
  InitialCapacity = 2
  HeapSlots = 6
  MaxUsers = 10
  UserSlots = 2
  MaxCommands = 4
  MaxDepth = 2
PROPERTIES OnlyNamedRemoved
CHECK_DEADLOCK FALSE
