\* Three requests for two seats and two thread tokens, one of which /health may take.
CONSTANTS
  Requests = {r1, r2, r3}
  Probes = {p1}
  Limit = 2
  Tokens = 2
SPECIFICATION Spec
SYMMETRY RequestSymmetry
INVARIANTS
  SeatAccounting
  NoWorkOutsideASeat
  AssertionsHold
  ReturnedWorkWasDone
  MetricsReconcile
PROPERTIES
  ImplementsSeatPool
