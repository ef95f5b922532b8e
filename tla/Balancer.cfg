CONSTANTS
  Ports = {p1, p2, p3}
  MaxRequests = 3
  MaxFlips = 1
  None = None
SPECIFICATION FairSpec
INVARIANT RoundRobin
PROPERTIES MarksTheProbed MarksConverge RequestAnswered
CHECK_DEADLOCK FALSE
