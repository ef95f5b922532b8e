\* Updates are on the way together; a server may die.
CONSTANTS
  k1 = k1  k2 = k2
  Keys <- TwoKeys
  ParsedSeq = 127
  MaxPuts = 3
  MaxPending = 1
  MaxFlight = 3
  MaxKills = 1
  MaxRestarts = 0
SPECIFICATION Spec
INVARIANTS DiskMatches MirroredButDropped AckedServed
CHECK_DEADLOCK FALSE
