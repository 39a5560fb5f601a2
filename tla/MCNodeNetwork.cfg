CONSTANTS
  Callers = {c1, c2, c3}
  NoHolder = NoHolder
SPECIFICATION Spec
INVARIANT ListeningImpliesEnabled
PROPERTIES AbsSpec FlagUnderMutex
