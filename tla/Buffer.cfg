SPECIFICATION Spec
CONSTANTS
  Byte = {0, 1}
  Zero = 0
  kCheapPrepend = 1
  InitialSize = 2
  ExtraSize = 2
  MayOverrun = FALSE
  MaxCall = 3
  MaxReadable = 4
INVARIANT
  TypeOK
PROPERTIES
  IsByteQueue
  GrowsOnlyForContents
