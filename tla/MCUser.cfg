CONSTANTS
  Procs = {"main", "sinhvien", "voinuoc"}
  Callers = {"main", "sinhvien", "voinuoc"}
  Names = {"stdin", "stdout", "input", "output", "line", ""}
  BadNames = {""}
  MaxFiles = 11
  LongNames = {"long", "longer"}
  MAX_SEMAPHORE = 3
  Rounds <- MCRounds
  MaxCalls = 4
SPECIFICATION MCSpec
INVARIANTS
  LeastLoadedTap
  SemaphoresNamed
PROPERTIES
  ReadOnlyUntouched
  ReadDelivers
  OutputAppended
CHECK_DEADLOCK FALSE
