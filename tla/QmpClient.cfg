SPECIFICATION MCSpec
CONSTANTS
  MaxCalls = 5
  MaxEvents = 1
  MaxOps = 3
  Keys <- MCKeys
  Places <- MCPlaces
  Operations <- MCOperations
  Sizes <- MCSizes
  MaxPixels = 6
  MaxTime = 3
INVARIANTS
  InputIsWhole
  FrameIsTheScreen
PROPERTIES
  ImplementsCalls
  SessionImplementsInput
  CallsReturn
\* After the last operation of the bound only QEMU has anything to do.
CHECK_DEADLOCK FALSE
