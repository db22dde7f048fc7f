CONSTANTS
  p1 = p1
  p2 = p2
  x = x
  NewLine = NewLine
  CtrlA = CtrlA
  EOF = EOF
  NULL = NULL
  Procs = {p1, p2}
  Chars = {x, NewLine, CtrlA}
  Lines <- MCLines
  Sizes = {0, 1, 2}
  MaxTyped = 3
  MaxCalls = 3
SPECIFICATION FairSpec
CHECK_DEADLOCK FALSE
INVARIANTS
  PutCharWhenFree
  BufferedIsAnnounced
PROPERTIES
  ImplementsStream
  WriteReturns
  TypedIsRead
