\* A DELETE is logged, and the log is replayed.
CONSTANTS
  w1 = w1  w2 = w2  a = a  b = b  c = c  v1 = v1  v2 = v2
  NULL = NULL  Nil = Nil  Junk = Junk  Ckpt = Ckpt  Free = Free
  Workers <- Threads
  Rows <- RowA
  Cols <- ColC
  Values <- Payloads
  Dotted = {}
  Commands <- PutAndDelete
  MaxCommands = 2
SPECIFICATION Spec
INVARIANT RecoverableState
CHECK_DEADLOCK FALSE
