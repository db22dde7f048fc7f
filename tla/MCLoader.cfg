CONSTANTS
  Procs = {1, 2, 3}
  Sizes <- MCSizes
  Programs <- MCPrograms
  PageSize = 4
  UserStackSize = 4
  NumFrames = 10
  NumPhysPages = 8
  Stores = {5}
SPECIFICATION Spec
INVARIANTS FramesOwned ImageSeen
CHECK_DEADLOCK FALSE
