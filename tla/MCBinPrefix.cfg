\* Bins 0..7, two suffix bits, bases of 0, 1 and 2 bytes.
CONSTANTS
  MaxBins = 8
  SuffixLength = 2
  MaxAddrBytes = 2
  Bases <- MCBases
INIT Init
NEXT Next
INVARIANTS TypeOK ProximityExact SuffixDistinct
\* The function returns or panics: both end the behaviour.
CHECK_DEADLOCK FALSE
