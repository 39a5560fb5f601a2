\* Three entries and a semaphore of two: the dispatcher has to wait for a
\* slot.  HasPin may fail, so the panic path is part of the runs.
CONSTANTS
  N = 3
  WorkLoad = 2
  PinCanFail = TRUE
SPECIFICATION Spec
INVARIANTS TypeOK ResponseSettled
PROPERTY Terminates
\* The handler returns and the dispatcher ends: the behaviour stops there.
CHECK_DEADLOCK FALSE
