CONSTANTS
  main = main
  a = a
  b = b
  io = io
  disk = disk
  NULL = NULL
  Threads = {main, a, b}
  Main = main
  UserThreads = {}
  Sems = {io}
  Devices = {disk}
  InitialValue <- MCInitialValue
  DeviceSem <- MCDeviceSem
  TimeSlice = TRUE
  MaxValue = 1
SPECIFICATION Spec
INVARIANT FinishedWillBeDestroyed
