CONSTANTS
  Machines = {0, 1}
  Far <- MCFar
  Boxes = {0, 1}
  Lossy = TRUE
SPECIFICATION Spec
INVARIANTS WireToBox FinishedTogether
PROPERTIES SendReturns
CHECK_DEADLOCK FALSE
