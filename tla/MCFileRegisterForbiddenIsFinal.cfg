\* Two POST and one DELETE request for one address: the 403 of a removal.
CONSTANTS
  g1 = g1
  g2 = g2
  d1 = d1
  RegReqs <- MCRegReqs
  RemReqs <- MCRemReqs
SPECIFICATION Spec
INVARIANT ForbiddenIsFinal
\* Every handler returns; the server then waits for requests the model does not send.
CHECK_DEADLOCK FALSE
