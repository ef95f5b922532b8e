\* A restarted server misses updates.
CONSTANTS
  k1 = k1  k2 = k2
  Keys <- OneKey
  ParsedSeq = 127
  MaxPuts = 2
  MaxPending = 1
  MaxFlight = 1
  MaxKills = 1
  MaxRestarts = 1
SPECIFICATION Spec
INVARIANT Mirrored
CHECK_DEADLOCK FALSE
