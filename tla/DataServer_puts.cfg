\* PUT and GET only, rows and columns named apart.
CONSTANTS
  w1 = w1  w2 = w2  a = a  b = b  c = c  v1 = v1  v2 = v2
  NULL = NULL  Nil = Nil  Junk = Junk  Ckpt = Ckpt  Free = Free
  Workers <- Threads
  Rows <- RowsAB
  Cols <- ColC
  Values <- Payloads
  Dotted = {}
  Commands <- Puts
  MaxCommands = 4
SPECIFICATION Spec
INVARIANTS FaultOnlyByMiss PushFaithful RecoverableState
PROPERTIES GetRegular ImplementsKV
CHECK_DEADLOCK FALSE
