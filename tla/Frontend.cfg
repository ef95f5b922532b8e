CONSTANTS
  Users = {u1, u2}
  MaxRequests = 3
  MaxThreads = 2
  None = None
SPECIFICATION Spec
SYMMETRY Symm
INVARIANTS OwnStorage LiveStorage OwnAnswer
CHECK_DEADLOCK FALSE
