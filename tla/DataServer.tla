------------------------------ MODULE DataServer ------------------------------
(***************************************************************************)
(* One PennCloud data server in the role of primary: the worker threads of *)
(* its pool (kvstore/Worker.cc), the checkpointing thread                  *)
(* (kvstore/dataserver.cc, kvstore/checkpointing.cc), the in-memory table, *)
(* and the two files, log.txt and checkpoint.txt.                          *)
(*                                                                         *)
(* A step is what a thread does between two points where another thread    *)
(* can interfere: taking or releasing the map lock, one access to the      *)
(* shared table that is not under the lock, the write to the replicas, the *)
(* reply.  Every mutation has a number (the value increseSeq returned).    *)
(* Heap objects are named by that number: Cell s is the Cell and data s    *)
(* the std::string that operation s allocated, and heap[s] is the data     *)
(* that Cell s points to (negative: the operation that freed Cell s).  The *)
(* text of a payload is a model value.                                     *)
(***************************************************************************)
EXTENDS Integers, Sequences, FiniteSets

CONSTANTS
  Workers,      \* threads of the pool that are serving a connection
  Rows, Cols,   \* row and column names; a name may be both
  Values,       \* payloads
  NULL,         \* the text "NULL" a CPUT sends as its old data
  Nil,          \* what a read of an absent key yields
  Junk,         \* bytes of freed memory, or a payload cut short
  Dotted,       \* payloads that contain a line "." ended by a bare newline
  Commands,     \* the commands the clients send
  MaxCommands,  \* bound: number of commands the clients send in all
  Ckpt, Free    \* holders of the map lock that are not workers

Ops == {"PUT", "CPUT", "GET", "DELETE", "LIST"}

CommandType == [op : Ops, row : Rows, col : Cols,
                old : Values \cup {NULL}, new : Values]

ASSUME ConstantsAssumption ==
  /\ Rows # {} /\ Cols # {} /\ Values # {}
  /\ Ckpt \notin Workers /\ Free \notin Workers /\ Ckpt # Free
  /\ Nil \notin Values /\ Junk \notin Values /\ Nil # Junk
  /\ Dotted \subseteq Values
  /\ Commands \subseteq CommandType
  /\ MaxCommands \in Nat

VARIABLES
  alive,      \* the process has not died
  pc, cmd,    \* per worker: where it is, and the command it is serving
  seq, ptr,   \* per worker: locals primarySeq and the pointer it has read
  reply,      \* per worker: the last answer sent
  seqID,      \* ServerState::seqID
  lock,       \* holder of ServerState::mapMutex
  table,      \* <<row, col>> -> Cell, NullPtr, or Absent
  rows,       \* rows that have an entry in the outer map
  heap,       \* Cell s -> its data d > 0, 0: no such Cell, -d: freed by d
  freed,      \* data strings that have been deleted
  strays,     \* history: CPUTs that did not write to the Cell under their key,
              \* but to one "replaced" by another or "freed" by a DELETE
  log, ckpt,  \* contents of log.txt and checkpoint.txt
  ckptPc,     \* where the checkpointing thread is
  out,        \* updates written to the replicas, in the order written
  received,   \* number of commands received
  hist,       \* history: every entry ever appended to the log
  acked,      \* history: mutations that were answered +OK
  floor       \* history: data that was under the key when a GET arrived

heapVars   == <<table, rows, heap, freed, strays>>
diskVars   == <<log, ckpt, ckptPc>>
ghostVars  == <<received, acked, floor>>
vars == <<alive, pc, cmd, seq, ptr, reply, seqID, lock, heapVars, diskVars,
          out, hist, ghostVars>>

Keys     == Rows \X Cols
Absent   == 0
NullPtr  == -1
IsCell(p) == p > 0

Key(w) == <<cmd[w].row, cmd[w].col>>

\* An entry of log.txt, and of the stream written to the replicas.
Entry(s, op, k, v) == [seq |-> s, op |-> op, key |-> k, val |-> v]

\* The value a read of key k under the lock yields.
Stored(k) == IF IsCell(table[k]) THEN hist[heap[table[k]]].val ELSE Nil

\* A CPUT has written to a Cell that a DELETE had freed.
Wild == \E x \in strays : x[2] = "freed"

\* The Cell under key k points to a string that has been deleted: what is read
\* there may be anything.
Stale(k) == IsCell(table[k]) /\ heap[table[k]] \in freed
Reads(k) == {Stored(k)} \cup (IF Stale(k) THEN {Junk} ELSE {})

\* Data (the number of the mutation) under key k; 0 when there is none.
DataAt(k) == IF IsCell(table[k]) THEN heap[table[k]] ELSE 0

-----------------------------------------------------------------------------
Command0 == [op |-> "LIST", row |-> CHOOSE r \in Rows : TRUE,
           col |-> CHOOSE c \in Cols : TRUE, old |-> NULL,
           new |-> CHOOSE v \in Values : TRUE]

Init ==
  /\ alive = TRUE
  /\ pc = [w \in Workers |-> "idle"]
  /\ cmd = [w \in Workers |-> Command0]
  /\ seq = [w \in Workers |-> 0]
  /\ ptr = [w \in Workers |-> 0]
  /\ reply = [w \in Workers |-> "none"]
  /\ seqID = 0
  /\ lock = Free
  /\ table = [k \in Keys |-> Absent]
  /\ rows = {}
  /\ heap = <<>>
  /\ freed = {}
  /\ strays = {}
  /\ log = <<>>
  /\ ckpt = [version |-> 0, snap |-> [k \in Keys |-> Nil]]
  /\ ckptPc = "sleep"
  /\ out = <<>>
  /\ received = 0
  /\ hist = <<>>
  /\ acked = {}
  /\ floor = [w \in Workers |-> 0]

-----------------------------------------------------------------------------
Goto(w, l) == pc' = [pc EXCEPT ![w] = l]

\* Worker::reply of the final answer: the worker is ready for a next command.
Answer(w, a) ==
  /\ reply' = [reply EXCEPT ![w] = a]
  /\ Goto(w, "idle")

\* The dispatch of Worker::run.
Start(op) == CASE op = "PUT"    -> "put"
               [] op = "CPUT"   -> "cput"
               [] op = "GET"    -> "get"
               [] op = "DELETE" -> "delete"
               [] op = "LIST"   -> "list"

\* A command and its data have been read from the connection.
Receive(w) ==
  /\ alive /\ pc[w] = "idle" /\ received < MaxCommands
  /\ \E c \in Commands :
       /\ cmd' = [cmd EXCEPT ![w] = c]
       /\ Goto(w, Start(c.op))
       /\ floor' = [floor EXCEPT ![w] = DataAt(<<c.row, c.col>>)]
  /\ received' = received + 1
  /\ reply' = [reply EXCEPT ![w] = "none"]
  /\ UNCHANGED <<alive, seq, ptr, seqID, lock, heapVars, diskVars, out, hist, acked>>

\* getMapLock, then putToLog or deleteToLog: a fresh sequence number and one
\* entry appended to log.txt.  An entry without its final "." line, which a
\* crash between the appends of putToLog leaves behind, is skipped by
\* recoverLog, so the append is one step.
TakeLockAndLog(w, op, v, next) ==
  LET e == Entry(seqID + 1, op, Key(w), v)
  IN  /\ lock = Free
      /\ lock' = w
      /\ seqID' = seqID + 1
      /\ seq' = [seq EXCEPT ![w] = seqID + 1]
      /\ log' = Append(log, e)
      /\ hist' = Append(hist, e)
      /\ heap' = Append(heap, 0)
      /\ Goto(w, next)
      /\ UNCHANGED <<alive, cmd, ptr, reply, table, rows, freed, strays, ckpt,
                     ckptPc, out, ghostVars>>

\* MUTANT: map::insert, which keeps an entry that is already there.
StoreNew_KeepsOld(w) ==
  /\ table' = [table EXCEPT ![Key(w)] = IF @ = Absent THEN seq[w] ELSE @]
  /\ rows' = rows \cup {cmd[w].row}
  /\ heap' = [heap EXCEPT ![seq[w]] = seq[w]]
  /\ UNCHANGED freed

\* new Cell(data) stored under the key; what the key held before is leaked.
StoreNew(w) ==
  /\ table' = [table EXCEPT ![Key(w)] = seq[w]]
  /\ rows' = rows \cup {cmd[w].row}
  /\ heap' = [heap EXCEPT ![seq[w]] = seq[w]]
  /\ UNCHANGED freed

\* What delete of string d may free.  If d was deleted before, by operation n or
\* a later one, that ends the process (see Damaged), or frees nothing more, or
\* frees a string that was made since and got the same memory.
DeleteAgain(n) == {freed} \cup {freed \cup {x} : x \in {y \in n + 1 .. seqID : hist[y].op = "PUT"}}
Deleted(d) == IF d \in freed THEN DeleteAgain(d) ELSE {freed \cup {d}}

\* MUTANT: the pointer to the deleted string stays in the Cell.
StoreInPlace_Dangling(w, cell) ==
  /\ freed' = freed \cup {heap[cell]}
  /\ UNCHANGED <<table, rows, heap>>

\* delete cell->contents; cell->contents = data.
StoreInPlace(w, cell) ==
  /\ freed' \in Deleted(heap[cell])
  /\ heap' = [heap EXCEPT ![cell] = seq[w]]
  /\ UNCHANGED <<table, rows>>

\* releaseMapLock after the table is updated.
Unlock(w, next) ==
  /\ lock' = Free
  /\ Goto(w, next)
  /\ UNCHANGED <<alive, cmd, seq, ptr, reply, seqID, diskVars, out, hist, ghostVars>>

\* The lookups of the threads that do not hold the lock.  While the holder of
\* the lock inserts into the maps or erases from them, a concurrent search of
\* the tree may miss a key that is there.
MapChanging == \E v \in Workers : \/ pc[v] \in {"putStore", "cputInsert"} /\ table[Key(v)] = Absent
                                  \/ pc[v] = "erase"
Finds(k) == {table[k] # Absent} \cup (IF MapChanging THEN {FALSE} ELSE {})

-----------------------------------------------------------------------------
(* parse_PUT at the primary *)

PutLog(w) ==
  /\ alive /\ pc[w] = "put"
  /\ TakeLockAndLog(w, "PUT", cmd[w].new, "putStore")

\* MUTANT: only the row decides.
InsertsCell_RowOnly(w) == cmd[w].row \notin rows

\* The condition of parse_PUT looks the column up among the rows:
\* table.count(row) == 0 || table.count(col) == 0.
InsertsCell(w) == cmd[w].row \notin rows \/ cmd[w].col \notin rows

PutStore(w) ==
  /\ alive /\ pc[w] = "putStore"
  /\ \/ InsertsCell(w) /\ StoreNew(w)
     \/ ~InsertsCell(w) /\ IsCell(table[Key(w)]) /\ StoreInPlace(w, table[Key(w)])
  /\ UNCHANGED strays
  /\ Unlock(w, "push")

-----------------------------------------------------------------------------
(* parse_CPUT *)

\* The test for existence, made before the lock is taken.
CputCheck(w) ==
  /\ alive /\ pc[w] = "cput"
  /\ \/ /\ TRUE \in Finds(Key(w))
        /\ Goto(w, "cputRead") /\ UNCHANGED reply
     \/ /\ FALSE \in Finds(Key(w)) /\ cmd[w].old = NULL
        /\ Goto(w, "cputNew") /\ UNCHANGED reply
     \/ /\ FALSE \in Finds(Key(w)) /\ cmd[w].old # NULL
        /\ Answer(w, "-ERR")
  /\ UNCHANGED <<alive, cmd, seq, ptr, seqID, lock, heapVars, diskVars, out,
                 hist, ghostVars>>

CputNew(w) ==
  /\ alive /\ pc[w] = "cputNew"
  /\ TakeLockAndLog(w, "PUT", cmd[w].new, "cputInsert")

CputInsert(w) ==
  /\ alive /\ pc[w] = "cputInsert"
  /\ StoreNew(w) /\ UNCHANGED strays
  /\ Unlock(w, "push")

\* MUTANT: a Cell of another column of the row is taken.
CputRead_AnyColumn(w) ==
  /\ alive /\ pc[w] = "cputRead"
  /\ \E c \in Cols : ptr' = [ptr EXCEPT ![w] = table[<<cmd[w].row, c>>]]
  /\ Goto(w, "cputCompare")
  /\ UNCHANGED <<alive, cmd, seq, reply, seqID, lock, heapVars, diskVars, out, hist,
                 ghostVars>>

\* Cell* cell = table[row][col], without the lock: operator[] inserts a null
\* pointer when the key has been erased since the test.
CputRead(w) ==
  /\ alive /\ pc[w] = "cputRead"
  /\ LET p == IF table[Key(w)] = Absent THEN NullPtr ELSE table[Key(w)]
     IN  /\ ptr' = [ptr EXCEPT ![w] = p]
         /\ table' = [table EXCEPT ![Key(w)] = p]
  /\ Goto(w, "cputCompare")
  /\ UNCHANGED <<alive, cmd, seq, reply, seqID, lock, rows, heap, freed, strays,
                 diskVars, out, hist, ghostVars>>

CputMatch(w) ==
  /\ alive /\ pc[w] = "cputCompare"
  /\ IsCell(table[Key(w)]) /\ cmd[w].old \in Reads(Key(w))
  /\ TakeLockAndLog(w, "PUT", cmd[w].new, "cputStore")

CputMismatch(w) ==
  /\ alive /\ pc[w] = "cputCompare" /\ lock = Free
  /\ IsCell(table[Key(w)]) /\ Reads(Key(w)) # {cmd[w].old}
  /\ Answer(w, "-ERR")
  /\ UNCHANGED <<alive, cmd, seq, ptr, seqID, lock, heapVars, diskVars, out,
                 hist, ghostVars>>

\* The new data goes into the Cell that was read before the lock was taken.
\* - If another Cell has replaced it, nobody will find the data.
\* - If it has been freed, its string has been deleted, and is deleted again; the
\*   write is lost, or lands in a Cell that was allocated later and got the same
\*   memory, whatever its key.
CputStore(w) ==
  /\ alive /\ pc[w] = "cputStore" /\ IsCell(ptr[w])
  /\ \/ /\ heap[ptr[w]] > 0 /\ StoreInPlace(w, ptr[w])
        /\ strays' = IF ptr[w] = table[Key(w)] THEN strays ELSE strays \cup {<<seq[w], "replaced">>}
     \/ /\ heap[ptr[w]] < 0
        /\ strays' = strays \cup {<<seq[w], "freed">>}
        /\ \/ freed' \in DeleteAgain(-heap[ptr[w]]) /\ UNCHANGED <<table, rows, heap>>
           \/ \E cell \in 1 .. seqID :
                cell > -heap[ptr[w]] /\ heap[cell] > 0 /\ StoreInPlace(w, cell)
  /\ Unlock(w, "push")

-----------------------------------------------------------------------------
(* parse_DELE at the primary *)

DeleteLog(w) ==
  /\ alive /\ pc[w] = "delete"
  /\ TakeLockAndLog(w, "DELETE", Nil, "erase")

\* The Cell, its data and the map entry go; a missing key is answered -ERR
\* (with the lock held, and after the log entry was written).
DeleteErase(w) ==
  /\ alive /\ pc[w] = "erase"
  /\ \/ /\ table[Key(w)] = Absent
        /\ Answer(w, "-ERR") /\ lock' = Free
        /\ UNCHANGED <<alive, cmd, seq, ptr, seqID, heapVars, diskVars, out,
                       hist, ghostVars>>
     \/ /\ table[Key(w)] # Absent
        /\ IF IsCell(table[Key(w)])
             THEN /\ freed' \in Deleted(heap[table[Key(w)]])
                  /\ heap' = [heap EXCEPT ![table[Key(w)]] = -seq[w]]
             ELSE UNCHANGED <<freed, heap>>
        /\ table' = [table EXCEPT ![Key(w)] = Absent]
        /\ UNCHANGED <<rows, strays>>
        /\ Unlock(w, "push")

-----------------------------------------------------------------------------
(* backStore->push and poll, after the lock is released, and the +OK *)

\* MUTANT: the update is sent under the current sequence number.
Push_CurrentSeq(w) ==
  /\ alive /\ pc[w] = "push"
  /\ out' = Append(out, Entry(seqID, hist[seq[w]].op, Key(w), hist[seq[w]].val))
  /\ Goto(w, "ack")
  /\ UNCHANGED <<alive, cmd, seq, ptr, reply, seqID, lock, heapVars, diskVars,
                 hist, ghostVars>>

\* push reads *data, which another thread may have deleted since the unlock.
Push(w) ==
  /\ alive /\ pc[w] = "push"
  /\ \E v \in {hist[seq[w]].val} \cup (IF seq[w] \in freed THEN {Junk} ELSE {}) :
       out' = Append(out, Entry(seq[w], hist[seq[w]].op, Key(w), v))
  /\ Goto(w, "ack")
  /\ UNCHANGED <<alive, cmd, seq, ptr, reply, seqID, lock, heapVars, diskVars,
                 hist, ghostVars>>

Ack(w) ==
  /\ alive /\ pc[w] = "ack"
  /\ Answer(w, "+OK")
  /\ acked' = acked \cup {seq[w]}
  /\ UNCHANGED <<alive, cmd, seq, ptr, seqID, lock, heapVars, diskVars, out,
                 hist, received, floor>>

-----------------------------------------------------------------------------
(* parse_GET, which never takes the lock *)

GetCheck(w) ==
  /\ alive /\ pc[w] = "get"
  /\ \/ TRUE \in Finds(Key(w)) /\ Goto(w, "getRead") /\ UNCHANGED reply
     \/ FALSE \in Finds(Key(w)) /\ Answer(w, "-ERR")
  /\ UNCHANGED <<alive, cmd, seq, ptr, seqID, lock, heapVars, diskVars, out,
                 hist, ghostVars>>

GetRead(w) ==
  /\ alive /\ pc[w] = "getRead" /\ IsCell(table[Key(w)])
  /\ ptr' = [ptr EXCEPT ![w] = heap[table[Key(w)]]]
  /\ Goto(w, "getSend")
  /\ UNCHANGED <<alive, cmd, seq, reply, seqID, lock, heapVars, diskVars, out,
                 hist, ghostVars>>

GetSend(w) ==
  /\ alive /\ pc[w] = "getSend"
  /\ \E v \in {hist[ptr[w]].val} \cup (IF ptr[w] \in freed THEN {Junk} ELSE {}) :
       reply' = [reply EXCEPT ![w] = v]
  /\ Goto(w, "getEnd")
  /\ UNCHANGED <<alive, cmd, seq, ptr, seqID, lock, heapVars, diskVars, out,
                 hist, ghostVars>>

\* The key is looked up once more, to print the length; then the final ".".
GetEnd(w) ==
  /\ alive /\ pc[w] = "getEnd" /\ IsCell(table[Key(w)])
  /\ Goto(w, "idle")
  /\ UNCHANGED <<alive, cmd, seq, ptr, reply, seqID, lock, heapVars, diskVars, out,
                 hist, ghostVars>>

-----------------------------------------------------------------------------
(* parse_LIST holds the lock while it writes the table to the connection *)

NullInTable == \E k \in Keys : table[k] = NullPtr

ListLock(w) ==
  /\ alive /\ pc[w] = "list" /\ lock = Free /\ ~NullInTable
  /\ lock' = w
  /\ Goto(w, "listing")
  /\ UNCHANGED <<alive, cmd, seq, ptr, reply, seqID, heapVars, diskVars, out,
                 hist, ghostVars>>

\* MUTANT: LIST returns without releasing the lock.
ListDone_KeepsLock(w) ==
  /\ alive /\ pc[w] = "listing"
  /\ Answer(w, "+OK")
  /\ UNCHANGED <<alive, cmd, seq, ptr, seqID, lock, heapVars, diskVars, out, hist,
                 ghostVars>>

ListDone(w) ==
  /\ alive /\ pc[w] = "listing"
  /\ lock' = Free
  /\ Answer(w, "+OK")
  /\ UNCHANGED <<alive, cmd, seq, ptr, seqID, heapVars, diskVars, out, hist,
                 ghostVars>>

-----------------------------------------------------------------------------
(* CheckPointing::writeToDisk *)

Snapshot ==
  \E snap \in [Keys -> Values \cup {Nil, Junk}] :
    (\A k \in Keys : snap[k] \in Reads(k)) /\ ckpt' = [version |-> seqID, snap |-> snap]

\* MUTANT: the lock is released before the log is emptied.
CkptRename_Unlocked ==
  /\ alive /\ ckptPc = "sleep" /\ lock = Free /\ ~NullInTable
  /\ Snapshot
  /\ ckptPc' = "renamed"
  /\ UNCHANGED <<alive, pc, cmd, seq, ptr, reply, seqID, lock, heapVars, log, out,
                 hist, ghostVars>>

\* Under the lock: the snapshot with the current sequence number is written
\* to a temporary file and renamed over checkpoint.txt ...
CkptRename ==
  /\ alive /\ ckptPc = "sleep" /\ lock = Free /\ ~NullInTable
  /\ lock' = Ckpt
  /\ Snapshot
  /\ ckptPc' = "renamed"
  /\ UNCHANGED <<alive, pc, cmd, seq, ptr, reply, seqID, heapVars, log, out,
                 hist, ghostVars>>

\* ... and then log.txt is emptied.
CkptTruncate ==
  /\ alive /\ ckptPc = "renamed"
  /\ log' = <<>>
  /\ lock' = Free
  /\ ckptPc' = "sleep"
  /\ UNCHANGED <<alive, pc, cmd, seq, ptr, reply, seqID, heapVars, ckpt, out,
                 hist, ghostVars>>

-----------------------------------------------------------------------------
(* Ways to die *)

\* Thread w is about to dereference a null pointer, or to call map::at on a key
\* that is gone, which throws.
Doomed(w) ==
  \/ pc[w] = "putStore" /\ ~InsertsCell(w) /\ ~IsCell(table[Key(w)])
  \/ pc[w] = "cputCompare" /\ lock = Free /\ ~IsCell(table[Key(w)])
  \/ pc[w] = "cputStore" /\ ~IsCell(ptr[w])
  \/ pc[w] \in {"getRead", "getEnd"} /\ ~IsCell(table[Key(w)])
  \/ pc[w] = "list" /\ lock = Free /\ NullInTable

\* Thread w is about to use freed memory, or to delete a string again.
Damaged(w) ==
  \/ pc[w] = "putStore" /\ ~InsertsCell(w) /\ Stale(Key(w))
  \/ pc[w] = "cputCompare" /\ lock = Free /\ Stale(Key(w))
  \/ pc[w] = "cputStore" /\ IsCell(ptr[w]) /\ (heap[ptr[w]] < 0 \/ heap[ptr[w]] \in freed)
  \/ pc[w] \in {"erase", "getEnd"} /\ Stale(Key(w))
  \/ pc[w] = "push" /\ seq[w] \in freed
  \/ pc[w] = "getSend" /\ ptr[w] \in freed
  \/ pc[w] = "list" /\ lock = Free /\ \E k \in Keys : Stale(k)

\* Thread w calls map::at without the lock, for a row or key that it has just
\* found, while another thread changes the tree: the search may miss, and throws.
Missing(w) ==
  /\ MapChanging
  /\ \/ pc[w] \in {"get", "cput"} /\ cmd[w].row \in rows
     \/ pc[w] \in {"getRead", "getEnd"}

CkptDoomed  == ckptPc = "sleep" /\ lock = Free /\ NullInTable
CkptDamaged == ckptPc = "sleep" /\ lock = Free /\ \E k \in Keys : Stale(k)

Die ==
  /\ alive /\ alive' = FALSE
  /\ UNCHANGED <<pc, cmd, seq, ptr, reply, seqID, lock, heapVars, diskVars, out,
                 hist, ghostVars>>

\* Some thread cannot but end the process; or it may, or may get through.
Fault    == Die /\ (CkptDoomed \/ \E w \in Workers : Doomed(w))
MayFault == Die /\ (CkptDamaged \/ \E w \in Workers : Damaged(w) \/ Missing(w))

\* CLOSEALL raises SIGKILL in the server; kill and power loss look the same.
Closeall == Die

-----------------------------------------------------------------------------
Step(w) ==
  \/ PutLog(w) \/ PutStore(w)
  \/ CputCheck(w) \/ CputNew(w) \/ CputInsert(w)
  \/ CputRead(w) \/ CputMatch(w) \/ CputMismatch(w) \/ CputStore(w)
  \/ DeleteLog(w) \/ DeleteErase(w)
  \/ Push(w) \/ Ack(w)
  \/ GetCheck(w) \/ GetRead(w) \/ GetSend(w) \/ GetEnd(w)
  \/ ListLock(w) \/ ListDone(w)

Next ==
  \/ \E w \in Workers : Receive(w) \/ Step(w)
  \/ CkptRename \/ CkptTruncate
  \/ Fault \/ MayFault \/ Closeall

Spec == Init /\ [][Next]_vars

\* A thread that can run does run.  A thread that waits for the lock gets it
\* although the lock is taken again and again: the checkpointing thread, the
\* only one that never stops taking it, sleeps 30 seconds in between.
FairSpec == /\ Spec
            /\ \A w \in Workers : SF_vars(Step(w))
            /\ WF_vars(CkptTruncate)
            /\ SF_vars(Fault)

-----------------------------------------------------------------------------
(* Recovery: recoverCheckpoint, then recoverLog *)

\* Both files are split at lines that are just ".", so a payload with such a
\* line comes back cut short.
Reparse(v) == IF v \in Dotted THEN Junk ELSE v

\* MUTANT: replay keeps a value that is already there.
ReplayLogCommand_KeepsOld(t, e) ==
  IF e.op = "DELETE" THEN t
    ELSE [t EXCEPT ![e.key] = IF @ = Nil THEN Reparse(e.val) ELSE @]

\* replayLogCommand.  For a DELETE it erases the column named like the row.
ReplayLogCommand(t, e) ==
  IF e.op = "DELETE"
    THEN [k \in Keys |-> IF t[e.key] # Nil /\ k = <<e.key[1], e.key[1]>> THEN Nil ELSE t[k]]
    ELSE [t EXCEPT ![e.key] = Reparse(e.val)]

RecoverCheckpoint == [k \in Keys |-> Reparse(ckpt.snap[k])]

\* The table a restarted server rebuilds from its own two files.
Recovered ==
  LET replay[i \in 0 .. Len(log)] ==
        IF i = 0 THEN RecoverCheckpoint ELSE ReplayLogCommand(replay[i-1], log[i])
  IN  replay[Len(log)]

-----------------------------------------------------------------------------
(* Properties *)

Places == {"idle", "put", "putStore", "cput", "cputNew", "cputInsert", "cputRead",
           "cputCompare", "cputStore", "delete", "erase", "push", "ack", "get",
           "getRead", "getSend", "getEnd", "list", "listing"}

Updating == {"putStore", "cputInsert", "cputStore", "erase"}
Critical == Updating \cup {"listing"}
Logged   == Updating \cup {"push", "ack"}

EntryType == [seq : Nat, op : {"PUT", "DELETE"}, key : Keys, val : Values \cup {Nil}]
SentType  == [seq : Nat, op : {"PUT", "DELETE"}, key : Keys, val : Values \cup {Nil, Junk}]

TypeOK ==
  /\ alive \in BOOLEAN
  /\ pc \in [Workers -> Places]
  /\ cmd \in [Workers -> CommandType]
  /\ seq \in [Workers -> Nat]
  /\ ptr \in [Workers -> Int]
  /\ reply \in [Workers -> {"none", "+OK", "-ERR", Junk, Nil} \cup Values]
  /\ seqID \in Nat
  /\ lock \in Workers \cup {Ckpt, Free}
  /\ table \in [Keys -> Int]
  /\ rows \in SUBSET Rows
  /\ heap \in Seq(Int)
  /\ freed \in SUBSET Nat
  /\ strays \in SUBSET (Nat \X {"replaced", "freed"})
  /\ log \in Seq(EntryType)
  /\ ckpt \in [version : Nat, snap : [Keys -> Values \cup {Nil, Junk}]]
  /\ ckptPc \in {"sleep", "renamed"}
  /\ out \in Seq(SentType)
  /\ received \in Nat
  /\ hist \in Seq(EntryType)
  /\ acked \in SUBSET Nat
  /\ floor \in [Workers -> Nat]

\* The map lock is held by exactly the thread that is between getMapLock and
\* releaseMapLock, on every path through parse_PUT, parse_CPUT, parse_DELE,
\* parse_LIST and writeToDisk.
LockOK ==
  /\ \A w \in Workers : lock = w <=> pc[w] \in Critical
  /\ lock = Ckpt <=> ckptPc = "renamed"

\* checkpoint.txt and log.txt together never miss an operation: the log is the
\* unbroken run of operations from the version of the checkpoint (or from an
\* earlier one, between the rename and the truncation of writeToDisk) up to
\* the last number given out.
LogContiguous ==
  /\ Len(hist) = seqID
  /\ ckpt.version <= seqID
  /\ Len(log) <= seqID
  /\ \A i \in 1 .. Len(log) : log[i] = hist[seqID - Len(log) + i]
  /\ seqID - Len(log) <= ckpt.version
  /\ ckptPc = "sleep" => seqID - Len(log) = ckpt.version
  /\ ckptPc = "renamed" => ckpt.version = seqID

\* Write-ahead: as long as no CPUT has written to a freed Cell, whatever a GET of
\* (row, col) can find in the table was written to the log before, for that
\* row and column, by a PUT or CPUT, although CPUT writes through a pointer it
\* read before it had the lock.
WriteAhead ==
  ~Wild =>
    \A k \in Keys : IsCell(table[k]) =>
      LET d == heap[table[k]]
      IN  d \in 1 .. seqID /\ hist[d].op = "PUT" /\ hist[d].key = k

\* No Cell points to a deleted string, and no two Cells to the same string,
\* whether it was stored in a new Cell or in place, by PUT or by CPUT: the deletes
\* of parse_PUT, parse_CPUT and ~Cell never free a string that is still in the
\* table, and never free one twice.  The exception is a CPUT whose Cell a DELETE
\* has freed: it deletes its string again.
DataOwned ==
  ~Wild =>
    \A c \in 1 .. Len(heap) : heap[c] > 0 =>
      /\ heap[c] \notin freed
      /\ \A d \in 1 .. Len(heap) : heap[d] = heap[c] => d = c

\* Entry s is in the stream to the replicas.
Sent(s) == \E i \in 1 .. Len(out) : out[i].seq = s

\* The checkpoint has what mutation s stored, or what a later one stored under
\* the key; a DELETE stores Nil.
Covered(s) == \E d \in s .. ckpt.version :
                hist[d].key = hist[s].key /\ ckpt.snap[hist[s].key] = hist[d].val

\* A mutation that was answered +OK has been written to the replicas, once,
\* and is on disk: in the log, or under its key in the checkpoint, unless a later
\* one is there.  Exceptions are a CPUT that wrote to a replaced Cell, which no
\* checkpoint finds, and anything once a CPUT has written to a freed one.
AckedDurable ==
  \A s \in acked :
    /\ \/ \E i \in 1 .. Len(log) : log[i] = hist[s]
       \/ s <= ckpt.version /\ (Covered(s) \/ <<s, "replaced">> \in strays \/ Wild)
    /\ Sent(s)
    /\ \A i, j \in 1 .. Len(out) : out[i].seq = s /\ out[j].seq = s => i = j

\* What the invariants above rest on, in terms of the code.
\* - A map entry is null or points to a live Cell, which was allocated for that
\*   very row and column, so that no two entries share a Cell.
CellsOK ==
  /\ Len(heap) = seqID
  /\ \A c \in 1 .. seqID : heap[c] <= seqID
  /\ freed \subseteq 1 .. seqID
  /\ \A k \in Keys :
       \/ table[k] \in {Absent, NullPtr}
       \/ table[k] \in 1 .. seqID /\ heap[table[k]] > 0 /\ hist[table[k]].key = k

\* - The local primarySeq of a thread is its own from increseSeq to the reply,
\*   and until the lock is released nobody has seen the data it stands for.
LocalsOK ==
  /\ \A w \in Workers : ptr[w] \in NullPtr .. seqID /\ (pc[w] = "getSend" => ptr[w] > 0)
  /\ \A w \in Workers : pc[w] \in Logged => seq[w] \in 1 .. seqID /\ hist[seq[w]].key = Key(w)
  /\ \A w, v \in Workers : pc[w] \in Logged /\ pc[v] \in Logged /\ seq[w] = seq[v] => w = v
  /\ \A w \in Workers : pc[w] \in Updating =>
       /\ seq[w] = seqID /\ heap[seqID] = 0 /\ seqID \notin freed
       /\ \A c \in 1 .. seqID : heap[c] # seqID

\* - An update is pushed by the thread that logged it, once, before its +OK.
PushedOnce ==
  /\ \A i \in 1 .. Len(out) : out[i].seq \in 1 .. seqID
  /\ \A i, j \in 1 .. Len(out) : out[i].seq = out[j].seq => i = j
  /\ \A w \in Workers : pc[w] \in Updating \cup {"push"} => ~Sent(seq[w])
  /\ \A w \in Workers : pc[w] = "ack" => Sent(seq[w])
  /\ \A s \in acked : s \in 1 .. seqID /\ Sent(s)

\* The inductive invariant of module DataServerProofs.
IndInv == /\ TypeOK /\ LockOK /\ LogContiguous
          /\ CellsOK /\ DataOwned /\ LocalsOK /\ PushedOnce

\* What WriteAhead rests on.  A thread that is about to store data has logged it as
\* a PUT, and one that is about to erase a key as a DELETE; the pointer that a CPUT
\* keeps is to a Cell allocated for its own key, even if another Cell has replaced
\* it since; and as long as no freed Cell was written to, every Cell holds data that
\* was logged for the key it was made for.
Storing  == {"putStore", "cputInsert", "cputStore"}
Pointing == {"cputCompare", "cputStore"}

WriteInv ==
  /\ \A s \in 1 .. Len(hist) : hist[s].op = "DELETE" => hist[s].val = Nil
  /\ \A w \in Workers : /\ pc[w] \in Storing => hist[seqID].op = "PUT"
                        /\ pc[w] = "erase" => hist[seqID].op = "DELETE"
  /\ \A w \in Workers : pc[w] \in Pointing /\ ptr[w] > 0 => hist[ptr[w]].key = Key(w)
  /\ ~Wild => \A c \in 1 .. Len(heap) : heap[c] > 0 =>
       hist[heap[c]].op = "PUT" /\ hist[heap[c]].key = hist[c].key

\* What AckedDurable rests on.  When an operation has been carried out, its key
\* has its data or that of a later one, or was erased by a later one, unless it
\* wrote to a replaced Cell; and so does the checkpoint.
Latest(k, s) ==
  \/ IsCell(table[k]) /\ heap[table[k]] >= s
  \/ ~IsCell(table[k]) /\ \E d \in s .. seqID : hist[d].key = k /\ hist[d].op = "DELETE"
Pending(s) == s = seqID /\ \E w \in Workers : pc[w] \in Updating
Strayed(s) == <<s, "replaced">> \in strays

CoverInv ==
  ~Wild =>
    /\ \A s \in 1 .. seqID : Pending(s) \/ Strayed(s) \/ Latest(hist[s].key, s)
    /\ \A s \in 1 .. ckpt.version : Strayed(s) \/ Covered(s)

\* What push and poll write to the replicas is what was logged, so primary
\* and replicas store the same data under the same number.
PushFaithful == \A i \in 1 .. Len(out) : out[i] = hist[out[i].seq]

\* The process ends by itself only in one way, although GET takes no lock: map::at
\* may miss a key in a GET while another thread enters one (Missing).  No thread,
\* and not the checkpointing, ever meets a null pointer, freed memory or a key
\* that is gone.
FaultOnlyByMiss ==
  /\ ~CkptDoomed /\ ~CkptDamaged
  /\ \A w \in Workers : ~Doomed(w) /\ ~Damaged(w)

\* The number of the last PUT entry logged for key k, 0 if there is none.
LastPut(k) ==
  LET S == {i \in 1 .. Len(hist) : hist[i].key = k /\ hist[i].op = "PUT"}
  IN  IF S = {} THEN 0 ELSE CHOOSE i \in S : \A j \in S : j <= i

\* Once nobody is working on a key, the table holds the last value logged for
\* it: no acknowledged PUT or CPUT is lost from memory.
NoLostWrite ==
  \A k \in Keys :
    (\A w \in Workers : Key(w) = k => pc[w] \notin Updating) => DataAt(k) = LastPut(k)

\* A crash now loses nothing: replaying the two files gives the table, with
\* the operation that is logged and not yet in the table carried out.
RecoverableState ==
  Recovered = [k \in Keys |->
    IF \E w \in Workers : pc[w] \in Updating /\ Key(w) = k
      THEN hist[seqID].val ELSE Stored(k)]

\* A GET, which takes no lock, never answers with data older than what was
\* under the key when it arrived, nor with data of another key.
GetRegular ==
  [][\A w \in Workers :
       (pc[w] = "getSend" /\ pc'[w] = "getEnd") =>
          ptr[w] >= floor[w] /\ hist[ptr[w]].key = Key(w) /\ reply'[w] = hist[ptr[w]].val]_vars

\* The map that the clients of a server see.  A PUT takes effect when it is
\* stored in the table, a GET when it takes the pointer to the data.
KV == INSTANCE KVMap WITH
  Clients <- Workers, Requests <- Commands, up <- alive, req <- cmd,
  kv <- [k \in Keys |-> Stored(k)],
  state <- [w \in Workers |-> CASE pc[w] = "idle" -> "idle"
                                [] pc[w] \in {"push", "ack", "getSend", "getEnd"} -> "done"
                                [] OTHER -> "pending"],
  ans <- [w \in Workers |-> CASE pc[w] \in {"push", "ack"} -> "+OK"
                              [] pc[w] = "getSend" -> hist[ptr[w]].val
                              [] OTHER -> reply[w]]

\* PUT and GET, with their lookups outside the lock, their in-place updates
\* and the push after the unlock, look to every client like an atomic map.
ImplementsKV == KV!Spec

\* CPUT succeeds only if the old data equals the data stored at that moment
\* (an absent key counting as "NULL").
CputOnlyIfEqual ==
  [][\A w \in Workers :
       (cmd[w].op = "CPUT" /\ seq'[w] # seq[w]) =>
          cmd[w].old = IF Stored(Key(w)) = Nil THEN NULL ELSE Stored(Key(w))]_vars

\* Every command is answered, unless the process dies.
Answered == \A w \in Workers : pc[w] # "idle" ~> (pc[w] = "idle" \/ ~alive)
=============================================================================
