CONSTANTS
  psize = 3
  Codes <- MCOneCode
  Garbage = {0}
  NULL = NULL
SPECIFICATION Spec
INVARIANT NoUseAfterDelete
