CONSTANTS
  Threads = {t1, t2}
  Conns = {c1, c2, c3}
  None = None
SPECIFICATION FairSpec
INVARIANTS OneHolder FreedOnce
PROPERTY StarvedOnlyIfHeld
CHECK_DEADLOCK FALSE
