\* The spec's toy scenario: MaxBins = 8, suffixLength = 2, base 0b00000000.
CONSTANTS
  MaxBins = 8
  SuffixLength = 2
  MaxAddrBytes = 1
  Bases <- MCToyBase
INIT Init
NEXT Next
INVARIANT NoIndexOutOfRange
\* The function returns or panics: both end the behaviour.
CHECK_DEADLOCK FALSE
