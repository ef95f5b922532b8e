\* Two worker threads, each asked for any row.
CONSTANTS
  t1 = t1  t2 = t2  r1 = r1  r2 = r2  r3 = r3  r4 = r4
  Unassigned = Unassigned
  Threads <- TwoThreads
  NumNodes = 3
  Rows <- FourRows
  MaxRequests = 6
SPECIFICATION Spec
INVARIANTS Balanced OneAnswer
PROPERTY AssignedOnce
SYMMETRY Symmetry
CHECK_DEADLOCK FALSE
