CONSTANTS
  main = main
  a = a
  b = b
  io = io
  disk = disk
  NULL = NULL
  Threads = {main, a, b}
  Main = main
  UserThreads = {a, b}
  Sems = {io}
  Devices = {disk}
  InitialValue <- MCInitialValue
  DeviceSem <- MCDeviceSem
  TimeSlice = TRUE
  MaxValue = 1
SPECIFICATION FairSpec
INVARIANTS
  ThreadPlacement
  NoLostWakeup
  UserContextPreserved
PROPERTIES
  DeletedOnlyWhenDone
  ImplementsCountingSemaphore
  ReadyThreadRuns
  AvailableIsTaken
