\* Servers are started in any order, killed and restarted, under fairness.
CONSTANTS
  k1 = k1  k2 = k2
  Keys <- OneKey
  ParsedSeq = 0
  MaxPuts = 1
  MaxPending = 1
  MaxFlight = 1
  MaxKills = 3
  MaxRestarts = 2
SPECIFICATION FairSpec
INVARIANTS AtMostOnePrimary OnlyPrimaryForwards MasterAgrees
PROPERTIES CheckpointPaused Failover
CHECK_DEADLOCK FALSE
