CONSTANTS
  W = 8
  PageSize = 8
  NumPhysPages = 9
  Operands = {0, 1, 3, 127, 128, 129, 255}
  Corners <- MCCorners
  Calls = {0, 4, 10, 28}
SPECIFICATION Spec
PROPERTIES OtherFramesKept SyscallReturns MainExits NumbersExact ArithmeticExact ImplementsExecute
CHECK_DEADLOCK FALSE
