\* One thread calling StartNetwork and StopNetwork, never Stop: a node that
\* is not shut down, so that only these two calls can leave the flag wrong.
CONSTANTS
  Callers = {c1}
  NoHolder = NoHolder
INIT Init
NEXT NextWithoutStop
INVARIANT EnabledMeansListening
