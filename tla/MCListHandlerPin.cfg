\* Two entries, HasPin allowed to fail.
CONSTANTS
  N = 2
  WorkLoad = 2
  PinCanFail = TRUE
SPECIFICATION Spec
INVARIANT NoListPanic
CHECK_DEADLOCK FALSE
