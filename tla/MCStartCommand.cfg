\* From a console or as a service.  Four signals: one that kills the
\* process before signal.Notify or ends p.start, one to arrive before a
\* service stop, and more arriving while the channel is full and while
\* p.stop waits.
CONSTANT MaxSignals = 4
SPECIFICATION Spec
INVARIANT ForcedStopNeedsSignal
PROPERTY StopReturns
\* RunE returns (or the process is killed) and the process exits; it may
\* also run forever before a signal or a service stop.
CHECK_DEADLOCK FALSE
