\* Two POST and one DELETE request for one address, chain either way.
CONSTANTS
  g1 = g1
  g2 = g2
  d1 = d1
  RegReqs <- MCRegReqs
  RemReqs <- MCRemReqs
SPECIFICATION Spec
INVARIANTS TypeOK MarkerOwned
\* Every handler returns; the server then waits for requests the model does not send.
CHECK_DEADLOCK FALSE
