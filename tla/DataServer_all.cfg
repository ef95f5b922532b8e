\* Every operation of the server on two keys of one row, under fairness.
CONSTANTS
  w1 = w1  w2 = w2  a = a  b = b  c = c  v1 = v1  v2 = v2
  NULL = NULL  Nil = Nil  Junk = Junk  Ckpt = Ckpt  Free = Free
  Workers <- Threads
  Rows <- RowA
  Cols <- ColAC
  Values <- Payloads
  Dotted = {}
  Commands <- All
  MaxCommands = 3
SPECIFICATION FairSpec
INVARIANTS LogContiguous DataOwned AckedDurable WriteAhead
PROPERTY Answered
CHECK_DEADLOCK FALSE
