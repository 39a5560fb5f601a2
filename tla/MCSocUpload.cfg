\* Three uploads to one address, interleaved: Has and Put of different requests interleave.
CONSTANTS
  u1 = u1
  u2 = u2
  u3 = u3
  p1 = p1
  p2 = p2
  NoChunk = NoChunk
  Requests <- MCRequests
  Payload <- MCPayload
SPECIFICATION Spec
INVARIANT AnsweredMeansStored
\* Every request answered: the behaviour stops there.
CHECK_DEADLOCK FALSE
