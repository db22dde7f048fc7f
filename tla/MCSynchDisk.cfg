CONSTANTS
  Threads = {t1, t2}
  DiskThreads = {t1}
  Tracks = 2
  SectorsPerTrack = 3
  RotationTime = 3
  SeekTime = 2
  SystemTick = 1
  TimerDelays = {2, 5}
  MaxTicks = 24
SPECIFICATION SSpec
INVARIANTS NoneOverdue LatencyIsRotation RequestsFinish
CHECK_DEADLOCK FALSE
