CONSTANTS
  psize = 3
  Codes <- MCCodes
  Garbage = {0, 1}
  NULL = NULL
SPECIFICATION FairSpec
INVARIANTS
  ParentReadBeforeRemove
  OneLoader
  OrderlyIsSafe
PROPERTIES
  JoinReturnsExitCode
  JoinReturns
  ExitCompletes
