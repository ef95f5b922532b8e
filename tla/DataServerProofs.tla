-------------------------- MODULE DataServerProofs --------------------------
(***************************************************************************)
(* Proofs about DataServer, for any number of threads, rows, columns,      *)
(* payloads and commands.  IndInv is inductive; the invariants that the    *)
(* runs check are conjuncts of it or follow from it.  The second part is   *)
(* about a server whose clients only PUT and GET (see there).              *)
(***************************************************************************)
EXTENDS DataServer, WellFoundedInduction, TLAPS

\* What a worker's next place can be when it has received a command.
LEMMA StartPlaces ==
  ASSUME NEW op \in Ops
  PROVE  Start(op) \in {"put", "cput", "get", "delete", "list"}
BY DEF Ops, Start

\* Initially nothing is stored, logged or sent, and nobody holds the lock.
LEMMA InitInv == Init => IndInv
<1> SUFFICES ASSUME Init PROVE IndInv
  OBVIOUS
<1> USE DEF Init
<1>0. Command0 \in CommandType
  BY ConstantsAssumption DEF Command0, CommandType, Ops
<1>1. TypeOK
  BY <1>0 DEF TypeOK, Places, Keys, Absent
<1>2. LockOK
  BY ConstantsAssumption DEF LockOK, Critical, Updating
<1>3. LogContiguous
  <2>1. Len(hist) = 0 /\ Len(log) = 0 /\ ckpt.version = 0 /\ seqID = 0
    OBVIOUS
  <2> HIDE DEF Init
  <2> QED
    BY <2>1 DEF LogContiguous
<1>4. CellsOK /\ DataOwned
  BY DEF CellsOK, DataOwned, Wild, Absent
<1>5. LocalsOK
  BY DEF LocalsOK, Logged, Updating, NullPtr
<1>6. PushedOnce
  BY DEF PushedOnce, Updating, Sent
<1> QED
  BY <1>1, <1>2, <1>3, <1>4, <1>5, <1>6 DEF IndInv

-----------------------------------------------------------------------------
\* A thread that does not hold the lock, before its command is logged or after
\* it has been answered, moves on without writing to anything shared.
LEMMA LocalStep ==
  ASSUME IndInv, TypeOK', NEW w \in Workers, NEW l,
         pc[w] \notin Critical, l \notin Critical, l \notin Logged,
         pc' = [pc EXCEPT ![w] = l],
         \A v \in Workers \ {w} : cmd'[v] = cmd[v] /\ ptr'[v] = ptr[v],
         ptr'[w] \in NullPtr .. seqID,
         l = "getSend" => ptr'[w] > 0,
         UNCHANGED <<seq, seqID, lock, heapVars, diskVars, out, hist, acked>>
  PROVE  IndInv'
<1> USE DEF IndInv
<1>1. LockOK'
  BY DEF LockOK, TypeOK, diskVars
<1>2. LogContiguous'
  BY DEF LogContiguous, diskVars
<1>3. CellsOK' /\ DataOwned'
  BY DEF CellsOK, DataOwned, Wild, heapVars
<1>4. LocalsOK'
  <2>1. pc'[w] = l /\ \A v \in Workers \ {w} : pc'[v] = pc[v]
    BY DEF TypeOK
  <2>2. \A v \in Workers : pc'[v] \in Logged => v # w /\ pc[v] = pc'[v]
    BY <2>1
  <2>3. \A v \in Workers : pc'[v] \in Updating => pc[v] \in Updating
    BY <2>2 DEF Logged
  <2>4. \A v \in Workers : /\ ptr'[v] \in NullPtr .. seqID
                             /\ pc'[v] = "getSend" => ptr'[v] > 0
    BY <2>1 DEF LocalsOK
  <2>5. \A v \in Workers : pc'[v] \in Logged => Key(v)' = Key(v)
    BY <2>2 DEF Key
  <2> QED
    BY <2>2, <2>3, <2>4, <2>5 DEF LocalsOK, heapVars
<1>5. PushedOnce'
  <2>1. \A s : Sent(s)' <=> Sent(s)
    BY DEF Sent
  <2>2. \A v \in Workers : pc'[v] \in Logged => pc'[v] = pc[v] /\ seq'[v] = seq[v]
    BY DEF TypeOK
  <2> QED
    BY <2>1, <2>2 DEF PushedOnce, Logged
<1> QED
  BY <1>1, <1>2, <1>3, <1>4, <1>5

-----------------------------------------------------------------------------
\* The lock is free: no thread is updating the table.
LEMMA FreeLock ==
  ASSUME IndInv, lock = Free
  PROVE  (\A w \in Workers : pc[w] \notin Critical) /\ ckptPc = "sleep"
BY ConstantsAssumption DEF IndInv, LockOK, TypeOK

\* getMapLock, a fresh number and a log entry.
LEMMA LogStep ==
  ASSUME IndInv, TypeOK', NEW w \in Workers, NEW next \in Updating,
         NEW op \in {"PUT", "DELETE"}, NEW v \in Values \cup {Nil},
         pc[w] \notin Logged,
         TakeLockAndLog(w, op, v, next)
  PROVE  IndInv'
<1> DEFINE e == Entry(seqID + 1, op, Key(w), v)
<1> USE DEF IndInv
<1>1. /\ lock = Free /\ lock' = w /\ seqID' = seqID + 1 /\ seqID \in Nat
      /\ seq' = [seq EXCEPT ![w] = seqID + 1] /\ pc' = [pc EXCEPT ![w] = next]
      /\ log' = Append(log, e) /\ hist' = Append(hist, e) /\ heap' = Append(heap, 0)
      /\ UNCHANGED <<cmd, ptr, table, freed, strays, ckpt, ckptPc, out, acked>>
  BY DEF TakeLockAndLog, Goto, ghostVars, TypeOK
<1>2. /\ Len(hist) = seqID /\ Len(heap) = seqID
      /\ hist \in Seq(EntryType) /\ log \in Seq(EntryType) /\ heap \in Seq(Int)
  BY DEF LogContiguous, CellsOK, TypeOK
<1>0. e \in EntryType /\ e.key = Key(w)
  <2>1. Key(w) \in Keys
    BY DEF TypeOK, Key, Keys, CommandType
  <2> QED
    BY <1>1, <2>1 DEF Entry, EntryType
<1> HIDE DEF e
<1>3. /\ Len(hist') = seqID + 1 /\ hist'[seqID + 1] = e
      /\ \A i \in 1 .. seqID : hist'[i] = hist[i]
  BY <1>0, <1>1, <1>2
<1>4. /\ Len(heap') = seqID + 1 /\ heap'[seqID + 1] = 0
      /\ \A i \in 1 .. seqID : heap'[i] = heap[i]
  BY <1>1, <1>2
<1>5. (\A u \in Workers : pc[u] \notin Critical) /\ ckptPc = "sleep"
  BY <1>1, FreeLock
<1>7. LockOK'
  BY <1>1, <1>5, ConstantsAssumption DEF LockOK, TypeOK, Critical
<1>8. LogContiguous'
  <2>1. Len(log') = Len(log) + 1 /\ log'[Len(log) + 1] = e /\ Len(log) \in Nat
    BY <1>0, <1>1, <1>2
  <2>2. \A i \in 1 .. Len(log) : log'[i] = log[i]
    BY <1>0, <1>1, <1>2
  <2>4. ckpt.version \in Nat
    BY DEF TypeOK
  <2>3. ASSUME NEW i \in 1 .. Len(log') PROVE log'[i] = hist'[seqID' - Len(log') + i]
    <3>1. CASE i = Len(log) + 1
      BY <1>1, <1>3, <2>1, <3>1
    <3>2. CASE i # Len(log) + 1
      <4>1. i \in 1 .. Len(log) /\ seqID - Len(log) + i \in 1 .. seqID
        BY <1>1, <2>1, <3>2 DEF LogContiguous
      <4> QED
        BY <1>1, <1>3, <2>1, <2>2, <4>1 DEF LogContiguous
    <3> QED
      BY <3>1, <3>2
  <2>5. seqID' - Len(log') = seqID - Len(log) /\ Len(log) <= seqID
    BY <1>1, <2>1 DEF LogContiguous
  <2>6. ckpt' = ckpt /\ ckptPc' = "sleep" /\ seqID - Len(log) = ckpt.version
    BY <1>1, <1>5 DEF LogContiguous
  <2> HIDE DEF IndInv
  <2>7. Len(hist') = seqID' /\ ckpt'.version <= seqID' /\ Len(log') <= seqID'
    BY <1>1, <1>3, <2>1, <2>4, <2>5, <2>6
  <2> QED
    BY <2>3, <2>5, <2>6, <2>7 DEF LogContiguous
<1>9. CellsOK'
  <2>1. \A c \in 1 .. seqID' : heap'[c] <= seqID'
    BY <1>1, <1>4 DEF CellsOK, TypeOK
  <2>2. \A k \in Keys :
          \/ table'[k] \in {Absent, NullPtr}
          \/ table'[k] \in 1 .. seqID' /\ heap'[table'[k]] > 0 /\ hist'[table'[k]].key = k
    BY <1>1, <1>3, <1>4 DEF CellsOK
  <2>3. freed' \subseteq 1 .. seqID'
    BY <1>1 DEF CellsOK
  <2> QED
    BY <1>1, <1>4, <2>1, <2>2, <2>3 DEF CellsOK
<1>10. DataOwned'
  <2>1. \A c \in 1 .. Len(heap') : heap'[c] > 0 => c \in 1 .. seqID
    BY <1>1, <1>4
  <2> QED
    BY <1>1, <1>2, <1>4, <2>1 DEF DataOwned, Wild
<1>11. LocalsOK'
  <2>0. /\ pc'[w] = next /\ seq'[w] = seqID + 1
        /\ \A u \in Workers \ {w} : pc'[u] = pc[u] /\ seq'[u] = seq[u]
        /\ \A u \in Workers : Key(u)' = Key(u)
    BY <1>1 DEF TypeOK, Key
  <2>1. \A u \in Workers : ptr'[u] \in NullPtr .. seqID' /\ (pc'[u] = "getSend" => ptr'[u] > 0)
    BY <1>1, <2>0 DEF LocalsOK, Updating, NullPtr
  <2>2. \A u \in Workers : pc'[u] \in Logged =>
           seq'[u] \in 1 .. seqID' /\ hist'[seq'[u]].key = Key(u)'
    BY <1>0, <1>1, <1>3, <2>0 DEF LocalsOK
  <2>3. \A u \in Workers \ {w} : pc'[u] \in Logged => pc[u] \in Logged /\ seq'[u] \in 1 .. seqID
    BY <2>0 DEF LocalsOK
  <2>4. \A t, u \in Workers :
           pc'[t] \in Logged /\ pc'[u] \in Logged /\ seq'[t] = seq'[u] => t = u
    BY <1>1, <2>0, <2>3 DEF LocalsOK
  <2>5. seqID' \notin freed' /\ \A c \in 1 .. seqID' : heap'[c] # seqID'
    BY <1>1, <1>4 DEF CellsOK
  <2>6. \A u \in Workers : pc'[u] \in Updating => u = w
    BY <2>0, <1>5 DEF Critical
  <2> QED
    BY <1>1, <1>4, <2>0, <2>1, <2>2, <2>4, <2>5, <2>6 DEF LocalsOK
<1>12. PushedOnce'
  <2>1. \A s : Sent(s)' <=> Sent(s)
    BY <1>1 DEF Sent
  <2>2. ~Sent(seqID + 1)
    BY <1>1 DEF Sent, PushedOnce
  <2>3. \A u \in Workers \ {w} : pc'[u] = pc[u] /\ seq'[u] = seq[u]
    BY <1>1 DEF TypeOK
  <2>4. pc'[w] = next /\ seq'[w] = seqID + 1
    BY <1>1 DEF TypeOK
  <2>5. \A i \in 1 .. Len(out') : out'[i].seq \in 1 .. seqID'
    BY <1>1 DEF PushedOnce
  <2>6. \A i, j \in 1 .. Len(out') : out'[i].seq = out'[j].seq => i = j
    BY <1>1 DEF PushedOnce
  <2>7. \A s \in acked' : s \in 1 .. seqID' /\ Sent(s)'
    BY <1>1, <2>1 DEF PushedOnce
  <2> QED
    BY <2>1, <2>2, <2>3, <2>4, <2>5, <2>6, <2>7 DEF PushedOnce, Updating
<1> QED
  BY <1>7, <1>8, <1>9, <1>10, <1>11, <1>12

-----------------------------------------------------------------------------
\* new Cell stored under its key.
LEMMA NewCell ==
  ASSUME IndInv, NEW w \in Workers, pc[w] \in Updating,
         StoreNew(w), UNCHANGED <<seqID, hist, strays>>
  PROVE  CellsOK' /\ DataOwned'
<1>1. /\ seq[w] = seqID /\ seqID \in 1 .. seqID /\ seqID \in Nat
      /\ hist[seqID].key = Key(w) /\ heap[seqID] = 0 /\ seqID \notin freed
      /\ \A c \in 1 .. seqID : heap[c] # seqID
  BY DEF IndInv, LocalsOK, Logged, TypeOK
<1>2. /\ heap \in Seq(Int) /\ Len(heap) = seqID /\ table \in [Keys -> Int]
      /\ heap' = [heap EXCEPT ![seqID] = seqID] /\ freed' = freed
      /\ table' = [table EXCEPT ![Key(w)] = seqID]
  BY <1>1 DEF IndInv, TypeOK, CellsOK, StoreNew
<1>3. /\ Len(heap') = seqID /\ heap'[seqID] = seqID
      /\ \A c \in 1 .. seqID : c # seqID => heap'[c] = heap[c]
  BY <1>1, <1>2
<1>4. CellsOK'
  <2>1. \A c \in 1 .. seqID' : heap'[c] <= seqID'
    BY <1>1, <1>3 DEF IndInv, CellsOK
  <2>2. ASSUME NEW k \in Keys
        PROVE  \/ table'[k] \in {Absent, NullPtr}
               \/ table'[k] \in 1 .. seqID' /\ heap'[table'[k]] > 0 /\ hist'[table'[k]].key = k
    <3>1. CASE k = Key(w)
      BY <1>1, <1>2, <1>3, <3>1
    <3>2. CASE k # Key(w)
      <4>1. table'[k] = table[k]
        BY <1>2, <3>2
      <4> QED
        BY <1>1, <1>3, <4>1 DEF IndInv, CellsOK
    <3> QED
      BY <3>1, <3>2
  <2> QED
    BY <1>2, <1>3, <2>1, <2>2 DEF IndInv, CellsOK
<1>5. DataOwned'
  BY <1>1, <1>2, <1>3 DEF IndInv, DataOwned, Wild
<1> QED
  BY <1>4, <1>5

\* What the deletes of a string that was deleted before can free.
LEMMA AgainFacts ==
  ASSUME IndInv, NEW n \in Nat, NEW f \in DeleteAgain(n)
  PROVE  f \subseteq 1 .. seqID
<1>1. freed \subseteq 1 .. seqID /\ seqID \in Nat
  BY DEF IndInv, CellsOK, TypeOK
<1>2. CASE f = freed
  BY <1>1, <1>2
<1>3. ASSUME NEW x \in n + 1 .. seqID, f = freed \cup {x} PROVE f \subseteq 1 .. seqID
  <2>1. x \in 1 .. seqID
    BY <1>1, <1>3
  <2> QED
    BY <1>1, <1>3, <2>1
<1> QED
  BY <1>2, <1>3 DEF DeleteAgain

\* A string is deleted, for the first time unless a CPUT has written to a freed
\* Cell.
LEMMA DeletedFacts ==
  ASSUME IndInv, NEW d \in 1 .. seqID, NEW f \in Deleted(d)
  PROVE  /\ f \subseteq 1 .. seqID
         /\ d \notin freed => f = freed \cup {d}
<1>1. freed \subseteq 1 .. seqID /\ d \in Nat
  BY DEF IndInv, CellsOK, TypeOK
<1>2. CASE d \in freed
  BY <1>1, <1>2, AgainFacts DEF Deleted
<1>3. CASE d \notin freed
  BY <1>1, <1>3 DEF Deleted
<1> QED
  BY <1>2, <1>3

\* delete cell->contents, and new contents for a live Cell.
LEMMA InPlace ==
  ASSUME IndInv, NEW w \in Workers, pc[w] \in Updating,
         NEW cell \in 1 .. seqID, heap[cell] > 0,
         StoreInPlace(w, cell), UNCHANGED <<seqID, hist>>, strays \subseteq strays'
  PROVE  CellsOK' /\ DataOwned'
<1>1. /\ seq[w] = seqID /\ seqID \in Nat /\ seqID > 0 /\ seqID \notin freed
      /\ \A c \in 1 .. seqID : heap[c] # seqID
  BY DEF IndInv, LocalsOK, Logged, TypeOK
<1>2. /\ heap \in Seq(Int) /\ Len(heap) = seqID
      /\ heap' = [heap EXCEPT ![cell] = seqID] /\ freed' \in Deleted(heap[cell])
      /\ table' = table
  BY <1>1 DEF IndInv, TypeOK, CellsOK, StoreInPlace
<1>3. /\ Len(heap') = seqID /\ heap'[cell] = seqID
      /\ \A c \in 1 .. seqID : c # cell => heap'[c] = heap[c]
  BY <1>1, <1>2
<1>6. heap[cell] \in 1 .. seqID
  BY <1>1, <1>2 DEF IndInv, CellsOK
<1>7. /\ freed' \subseteq 1 .. seqID
      /\ heap[cell] \notin freed => freed' = freed \cup {heap[cell]}
  BY <1>2, <1>6, DeletedFacts
<1>4. CellsOK'
  <2>1. \A c \in 1 .. seqID' : heap'[c] <= seqID'
    BY <1>1, <1>3 DEF IndInv, CellsOK
  <2>2. \A k \in Keys :
           \/ table'[k] \in {Absent, NullPtr}
           \/ table'[k] \in 1 .. seqID' /\ heap'[table'[k]] > 0 /\ hist'[table'[k]].key = k
    BY <1>1, <1>2, <1>3 DEF IndInv, CellsOK
  <2> QED
    BY <1>7, <1>3, <2>1, <2>2 DEF IndInv, CellsOK
<1>5. DataOwned'
  <2>1. SUFFICES ASSUME ~Wild', NEW c \in 1 .. seqID, heap'[c] > 0
        PROVE  heap'[c] \notin freed' /\ \A d \in 1 .. seqID : heap'[d] = heap'[c] => d = c
    BY <1>3 DEF DataOwned
  <2>2. ~Wild
    BY <2>1 DEF Wild
  <2>3. \A b \in 1 .. seqID : heap[b] > 0 =>
          heap[b] \notin freed /\ \A d \in 1 .. seqID : heap[d] = heap[b] => d = b
    BY <1>2, <2>2 DEF IndInv, DataOwned
  <2>4. freed' = freed \cup {heap[cell]}
    BY <1>7, <2>3
  <2>5. CASE c = cell
    BY <1>1, <1>3, <1>6, <2>4, <2>5
  <2>6. CASE c # cell
    BY <1>1, <1>3, <1>6, <2>1, <2>3, <2>4, <2>6
  <2> QED
    BY <2>5, <2>6
<1> QED
  BY <1>4, <1>5

\* The Cell of an erased key is deleted with its contents.
LEMMA Erased ==
  ASSUME IndInv, NEW w \in Workers, pc[w] = "erase",
         table[Key(w)] # Absent,
         IF IsCell(table[Key(w)])
           THEN /\ freed' \in Deleted(heap[table[Key(w)]])
                /\ heap' = [heap EXCEPT ![table[Key(w)]] = -seq[w]]
           ELSE UNCHANGED <<freed, heap>>,
         table' = [table EXCEPT ![Key(w)] = Absent],
         UNCHANGED <<seqID, hist, strays>>
  PROVE  CellsOK' /\ DataOwned'
<1>1. /\ seq[w] = seqID /\ seqID \in Nat /\ seqID > 0
      /\ heap \in Seq(Int) /\ Len(heap) = seqID
      /\ table \in [Keys -> Int] /\ Key(w) \in Keys
  BY DEF IndInv, LocalsOK, Logged, Updating, TypeOK, CellsOK, Key, Keys, CommandType
<1>2. table'[Key(w)] = Absent /\ \A k \in Keys : k # Key(w) => table'[k] = table[k]
  BY <1>1
<1>3. CASE ~IsCell(table[Key(w)])
  <2>1. UNCHANGED <<freed, heap>>
    BY <1>3
  <2> QED
    BY <1>2, <2>1 DEF IndInv, CellsOK, DataOwned, Wild
<1>4. CASE IsCell(table[Key(w)])
  <2> DEFINE cell == table[Key(w)]
  <2>1. cell \in 1 .. seqID /\ heap[cell] > 0 /\ hist[cell].key = Key(w)
    BY <1>1, <1>4 DEF IndInv, CellsOK, IsCell, Absent, NullPtr
  <2>2. freed' \in Deleted(heap[cell]) /\ heap' = [heap EXCEPT ![cell] = -seqID]
    BY <1>1, <1>4
  <2> HIDE DEF cell
  <2>3. /\ Len(heap') = seqID /\ heap'[cell] = -seqID
        /\ \A c \in 1 .. seqID : c # cell => heap'[c] = heap[c]
    BY <1>1, <2>1, <2>2
  <2>4. heap[cell] \in 1 .. seqID
    BY <1>1, <2>1 DEF IndInv, CellsOK
  <2>9. /\ freed' \subseteq 1 .. seqID
        /\ heap[cell] \notin freed => freed' = freed \cup {heap[cell]}
    BY <2>2, <2>4, DeletedFacts
  <2>5. \A k \in Keys :
           \/ table'[k] \in {Absent, NullPtr}
           \/ table'[k] \in 1 .. seqID' /\ heap'[table'[k]] > 0 /\ hist'[table'[k]].key = k
    BY <1>2, <2>1, <2>3 DEF IndInv, CellsOK
  <2>6. \A c \in 1 .. seqID' : heap'[c] <= seqID'
    BY <1>1, <2>3 DEF IndInv, CellsOK
  <2>7. CellsOK'
    BY <2>3, <2>5, <2>6, <2>9 DEF IndInv, CellsOK
  <2>8. DataOwned'
    BY <1>1, <2>1, <2>3, <2>9 DEF IndInv, DataOwned, Wild
  <2> QED
    BY <2>7, <2>8
<1> QED
  BY <1>3, <1>4

\* releaseMapLock: the updated heap is in order, and the thread goes to push.
LEMMA UnlockStep ==
  ASSUME IndInv, TypeOK', NEW w \in Workers, pc[w] \in Updating,
         Unlock(w, "push"), CellsOK', DataOwned'
  PROVE  IndInv'
<1>1. /\ lock' = Free /\ pc' = [pc EXCEPT ![w] = "push"]
      /\ UNCHANGED <<cmd, seq, ptr, seqID, log, ckpt, ckptPc, out, hist, acked>>
  BY DEF Unlock, Goto, diskVars, ghostVars
<1>2. pc'[w] = "push" /\ \A v \in Workers \ {w} : pc'[v] = pc[v]
  BY <1>1 DEF IndInv, TypeOK
<1>3. lock = w /\ \A v \in Workers \ {w} : pc[v] \notin Critical
  BY DEF IndInv, LockOK, Critical
<1>4. LockOK'
  BY <1>1, <1>2, <1>3, ConstantsAssumption DEF IndInv, LockOK, Critical, Updating
<1>5. LogContiguous'
  BY <1>1 DEF IndInv, LogContiguous
<1>6. LocalsOK'
  <2>1. \A v \in Workers : pc'[v] \notin Updating
    BY <1>2, <1>3 DEF Critical, Updating
  <2>2. \A v \in Workers : pc'[v] \in Logged => pc[v] \in Logged
    BY <1>2 DEF Logged
  <2>3. \A v \in Workers : Key(v)' = Key(v)
    BY <1>1 DEF Key
  <2>4. \A v \in Workers : pc'[v] = "getSend" => pc[v] = "getSend"
    BY <1>2
  <2> QED
    BY <1>1, <2>1, <2>2, <2>3, <2>4 DEF IndInv, LocalsOK
<1>7. PushedOnce'
  <2>1. \A s : Sent(s)' <=> Sent(s)
    BY <1>1 DEF Sent
  <2>2. \A v \in Workers : pc'[v] \in Updating \cup {"push"} => pc[v] \in Updating \cup {"push"}
    BY <1>2
  <2>3. \A v \in Workers : pc'[v] = "ack" => pc[v] = "ack"
    BY <1>2
  <2> QED
    BY <1>1, <2>1, <2>2, <2>3 DEF IndInv, PushedOnce
<1> QED
  BY <1>4, <1>5, <1>6, <1>7 DEF IndInv

-----------------------------------------------------------------------------
\* Only the process's life, or nothing that the invariant is about, changes.
LEMMA QuietStep ==
  ASSUME IndInv, TypeOK',
         UNCHANGED <<pc, cmd, seq, ptr, seqID, lock, heapVars, diskVars, out, hist, acked>>
  PROVE  IndInv'
<1>1. LockOK' /\ LogContiguous'
  BY DEF IndInv, LockOK, LogContiguous, diskVars
<1>2. CellsOK' /\ DataOwned'
  BY DEF IndInv, CellsOK, DataOwned, Wild, heapVars
<1>3. LocalsOK'
  BY DEF IndInv, LocalsOK, heapVars, Key
<1>4. PushedOnce'
  BY DEF IndInv, PushedOnce, Sent
<1> QED
  BY <1>1, <1>2, <1>3, <1>4 DEF IndInv

\* The write to the replicas.
LEMMA PushStep ==
  ASSUME IndInv, TypeOK', NEW w \in Workers, Push(w)
  PROVE  IndInv'
<1>1. PICK x : out' = Append(out, Entry(seq[w], hist[seq[w]].op, Key(w), x))
               /\ x \in {hist[seq[w]].val} \cup (IF seq[w] \in freed THEN {Junk} ELSE {})
  BY DEF Push
<1> DEFINE e == Entry(seq[w], hist[seq[w]].op, Key(w), x)
<1>2. /\ pc[w] = "push" /\ pc' = [pc EXCEPT ![w] = "ack"]
      /\ UNCHANGED <<cmd, seq, ptr, seqID, lock, heapVars, diskVars, hist, acked>>
  BY DEF Push, Goto, ghostVars
<1>3. pc'[w] = "ack" /\ \A v \in Workers \ {w} : pc'[v] = pc[v]
  BY <1>2 DEF IndInv, TypeOK
<1>4. /\ seq[w] \in 1 .. seqID /\ seqID \in Nat /\ Len(hist) = seqID
      /\ hist \in Seq(EntryType) /\ out \in Seq(SentType) /\ Key(w) \in Keys
  BY <1>2 DEF IndInv, TypeOK, LocalsOK, LogContiguous, Logged, Key, Keys, CommandType
<1>5. hist[seq[w]] \in EntryType
  BY <1>4
<1>6. e \in SentType /\ e.seq = seq[w]
  BY <1>1, <1>4, <1>5 DEF Entry, EntryType, SentType
<1> HIDE DEF e
<1>7. /\ Len(out') = Len(out) + 1 /\ out'[Len(out) + 1] = e /\ Len(out) \in Nat
      /\ \A i \in 1 .. Len(out) : out'[i] = out[i]
  BY <1>1, <1>4, <1>6 DEF e
<1>8. LockOK' /\ LogContiguous'
  BY <1>2, <1>3 DEF IndInv, LockOK, LogContiguous, diskVars, Critical, Updating
<1>9. CellsOK' /\ DataOwned'
  BY <1>2 DEF IndInv, CellsOK, DataOwned, Wild, heapVars
<1>10. LocalsOK'
  <2>1. \A v \in Workers : pc'[v] \in Logged => pc[v] \in Logged
    BY <1>2, <1>3 DEF Logged
  <2>2. \A v \in Workers : pc'[v] \in Updating \cup {"getSend"} => pc[v] = pc'[v]
    BY <1>3 DEF Updating
  <2>3. \A v \in Workers : Key(v)' = Key(v)
    BY <1>2 DEF Key
  <2> QED
    BY <1>2, <2>1, <2>2, <2>3 DEF IndInv, LocalsOK, heapVars
<1>11. PushedOnce'
  <2>1. ~Sent(seq[w])
    BY <1>2 DEF IndInv, PushedOnce
  <2>2. \A s : Sent(s)' <=> Sent(s) \/ s = seq[w]
    BY <1>6, <1>7 DEF Sent
  <2>3. \A i \in 1 .. Len(out') : out'[i].seq \in 1 .. seqID'
    BY <1>2, <1>4, <1>6, <1>7 DEF IndInv, PushedOnce
  <2>4. \A i, j \in 1 .. Len(out') : out'[i].seq = out'[j].seq => i = j
    BY <1>6, <1>7, <2>1 DEF IndInv, PushedOnce, Sent
  <2>5. ASSUME NEW v \in Workers, pc'[v] \in Updating \cup {"push"}
        PROVE  ~Sent(seq[v])'
    <3>1. v # w /\ pc[v] = pc'[v]
      BY <1>3, <2>5 DEF Updating
    <3>2. seq[v] # seq[w]
      BY <1>2, <2>5, <3>1 DEF IndInv, LocalsOK, Logged
    <3> QED
      BY <1>2, <2>2, <2>5, <3>1, <3>2 DEF IndInv, PushedOnce
  <2>6. \A v \in Workers : pc'[v] = "ack" => Sent(seq[v])'
    BY <1>2, <1>3, <2>2 DEF IndInv, PushedOnce
  <2>7. \A s \in acked' : s \in 1 .. seqID' /\ Sent(s)'
    BY <1>2, <2>2 DEF IndInv, PushedOnce
  <2> QED
    BY <2>3, <2>4, <2>5, <2>6, <2>7 DEF PushedOnce
<1> QED
  BY <1>8, <1>9, <1>10, <1>11 DEF IndInv

\* The +OK of a mutation.
LEMMA AckStep ==
  ASSUME IndInv, TypeOK', NEW w \in Workers, Ack(w)
  PROVE  IndInv'
<1>1. /\ pc[w] = "ack" /\ pc' = [pc EXCEPT ![w] = "idle"] /\ acked' = acked \cup {seq[w]}
      /\ UNCHANGED <<cmd, seq, ptr, seqID, lock, heapVars, diskVars, out, hist>>
  BY DEF Ack, Answer, Goto
<1>2. pc'[w] = "idle" /\ \A v \in Workers \ {w} : pc'[v] = pc[v]
  BY <1>1 DEF IndInv, TypeOK
<1>3. LockOK' /\ LogContiguous'
  BY <1>1, <1>2 DEF IndInv, LockOK, LogContiguous, diskVars, Critical, Updating
<1>4. CellsOK' /\ DataOwned'
  BY <1>1 DEF IndInv, CellsOK, DataOwned, Wild, heapVars
<1>5. \A v \in Workers : pc'[v] # "idle" => pc'[v] = pc[v] /\ Key(v)' = Key(v)
  BY <1>1, <1>2 DEF Key
<1>6. LocalsOK'
  BY <1>1, <1>5 DEF IndInv, LocalsOK, heapVars, Logged, Updating
<1>7. PushedOnce'
  <2>1. \A s : Sent(s)' <=> Sent(s)
    BY <1>1 DEF Sent
  <2>2. seq[w] \in 1 .. seqID /\ Sent(seq[w])
    BY <1>1 DEF IndInv, LocalsOK, PushedOnce, Logged
  <2> QED
    BY <1>1, <1>5, <2>1, <2>2 DEF IndInv, PushedOnce, Updating
<1> QED
  BY <1>3, <1>4, <1>6, <1>7 DEF IndInv

\* A thread that holds the lock without having changed anything gives it back
\* (the end of LIST, or a DELETE of a missing key).
LEMMA ReleaseStep ==
  ASSUME IndInv, TypeOK', NEW w \in Workers, pc[w] \in Critical,
         lock' = Free, pc' = [pc EXCEPT ![w] = "idle"],
         UNCHANGED <<cmd, seq, ptr, seqID, heapVars, diskVars, out, hist, acked>>
  PROVE  IndInv'
<1>1. pc'[w] = "idle" /\ \A v \in Workers \ {w} : pc'[v] = pc[v]
  BY DEF IndInv, TypeOK
<1>2. lock = w /\ \A v \in Workers \ {w} : pc[v] \notin Critical
  BY DEF IndInv, LockOK
<1>3. LockOK'
  BY <1>1, <1>2, ConstantsAssumption DEF IndInv, LockOK, Critical, Updating, diskVars
<1>4. LogContiguous' /\ CellsOK' /\ DataOwned'
  BY DEF IndInv, LogContiguous, CellsOK, DataOwned, Wild, heapVars, diskVars
<1>5. \A v \in Workers : pc'[v] # "idle" => pc'[v] = pc[v] /\ Key(v)' = Key(v)
  BY <1>1 DEF Key
<1>6. LocalsOK'
  BY <1>5 DEF IndInv, LocalsOK, heapVars, Logged, Updating
<1>7. PushedOnce'
  BY <1>5 DEF IndInv, PushedOnce, Sent, Updating
<1> QED
  BY <1>3, <1>4, <1>6, <1>7 DEF IndInv

\* The pointer CPUT reads without the lock, perhaps inserting a null entry.
LEMMA CputReadStep ==
  ASSUME IndInv, TypeOK', NEW w \in Workers, CputRead(w)
  PROVE  IndInv'
<1> DEFINE p == IF table[Key(w)] = Absent THEN NullPtr ELSE table[Key(w)]
<1>1. /\ pc[w] = "cputRead" /\ pc' = [pc EXCEPT ![w] = "cputCompare"]
      /\ ptr' = [ptr EXCEPT ![w] = p] /\ table' = [table EXCEPT ![Key(w)] = p]
      /\ UNCHANGED <<cmd, seq, seqID, lock, rows, heap, freed, strays, diskVars, out, hist, acked>>
  BY DEF CputRead, Goto, ghostVars
<1>2. /\ pc'[w] = "cputCompare" /\ \A v \in Workers \ {w} : pc'[v] = pc[v] /\ ptr'[v] = ptr[v]
      /\ ptr'[w] = p
  BY <1>1 DEF IndInv, TypeOK
<1>3. /\ table \in [Keys -> Int] /\ Key(w) \in Keys /\ seqID \in Nat
  BY DEF IndInv, TypeOK, Key, Keys, CommandType
<1>4. p \in NullPtr .. seqID /\ (p = NullPtr \/ p = table[Key(w)])
  BY <1>3 DEF IndInv, CellsOK, Absent, NullPtr
<1> HIDE DEF p
<1>5. LockOK' /\ LogContiguous'
  BY <1>1, <1>2 DEF IndInv, LockOK, LogContiguous, diskVars, Critical, Updating
<1>6. DataOwned'
  BY <1>1 DEF IndInv, DataOwned, Wild
<1>7. CellsOK'
  <2>1. \A k \in Keys : table'[k] = NullPtr \/ table'[k] = table[k]
    BY <1>1, <1>3, <1>4
  <2> QED
    BY <1>1, <2>1 DEF IndInv, CellsOK
<1>8. LocalsOK'
  <2>1. \A v \in Workers : pc'[v] # "cputCompare" => pc'[v] = pc[v]
    BY <1>2
  <2>2. \A v \in Workers : Key(v)' = Key(v)
    BY <1>1 DEF Key
  <2>3. \A v \in Workers : ptr'[v] \in NullPtr .. seqID' /\ (pc'[v] = "getSend" => ptr'[v] > 0)
    BY <1>1, <1>2, <1>4 DEF IndInv, LocalsOK
  <2> QED
    BY <1>1, <2>1, <2>2, <2>3 DEF IndInv, LocalsOK, Logged, Updating
<1>9. PushedOnce'
  BY <1>1, <1>2 DEF IndInv, PushedOnce, Sent, Updating
<1> QED
  BY <1>5, <1>6, <1>7, <1>8, <1>9 DEF IndInv

\* LIST takes the lock.
LEMMA ListLockStep ==
  ASSUME IndInv, TypeOK', NEW w \in Workers, ListLock(w)
  PROVE  IndInv'
<1>1. /\ pc[w] = "list" /\ pc' = [pc EXCEPT ![w] = "listing"] /\ lock = Free /\ lock' = w
      /\ UNCHANGED <<cmd, seq, ptr, seqID, heapVars, diskVars, out, hist, acked>>
  BY DEF ListLock, Goto, ghostVars
<1>2. pc'[w] = "listing" /\ \A v \in Workers \ {w} : pc'[v] = pc[v]
  BY <1>1 DEF IndInv, TypeOK
<1>3. (\A v \in Workers : pc[v] \notin Critical) /\ ckptPc = "sleep"
  BY <1>1, FreeLock
<1>4. LockOK'
  BY <1>1, <1>2, <1>3, ConstantsAssumption DEF LockOK, Critical, diskVars
<1>5. LogContiguous' /\ CellsOK' /\ DataOwned'
  BY <1>1 DEF IndInv, LogContiguous, CellsOK, DataOwned, Wild, heapVars, diskVars
<1>6. \A v \in Workers : pc'[v] # "listing" => pc'[v] = pc[v] /\ Key(v)' = Key(v)
  BY <1>1, <1>2 DEF Key
<1>7. LocalsOK'
  BY <1>1, <1>6 DEF IndInv, LocalsOK, heapVars, Logged, Updating
<1>8. PushedOnce'
  BY <1>1, <1>6 DEF IndInv, PushedOnce, Sent, Updating
<1> QED
  BY <1>4, <1>5, <1>7, <1>8 DEF IndInv

\* writeToDisk up to the rename, and the truncation of the log.
LEMMA CkptStep ==
  ASSUME IndInv, TypeOK', CkptRename \/ CkptTruncate
  PROVE  IndInv'
<1>1. UNCHANGED <<pc, cmd, seq, ptr, seqID, heapVars, out, hist, acked>>
  BY DEF CkptRename, CkptTruncate, ghostVars
<1>2. CellsOK' /\ DataOwned'
  BY <1>1 DEF IndInv, CellsOK, DataOwned, Wild, heapVars
<1>3. LocalsOK'
  BY <1>1 DEF IndInv, LocalsOK, heapVars, Key
<1>4. PushedOnce'
  BY <1>1 DEF IndInv, PushedOnce, Sent
<1>5. /\ seqID \in Nat /\ Len(log) \in Nat /\ Len(log) <= seqID
      /\ ckpt.version \in Nat /\ ckpt.version <= seqID
  BY DEF IndInv, TypeOK, LogContiguous
<1>6. CASE CkptRename
  <2>1. /\ lock = Free /\ lock' = Ckpt /\ ckptPc' = "renamed" /\ log' = log
        /\ ckpt'.version = seqID
    BY <1>6 DEF CkptRename, Snapshot
  <2>2. LockOK'
    BY <1>1, <2>1, FreeLock, ConstantsAssumption DEF LockOK
  <2>3. LogContiguous'
    BY <1>1, <1>5, <2>1 DEF IndInv, LogContiguous
  <2> QED
    BY <1>2, <1>3, <1>4, <2>2, <2>3 DEF IndInv
<1>7. CASE CkptTruncate
  <2>1. /\ ckptPc = "renamed" /\ lock' = Free /\ ckptPc' = "sleep" /\ log' = <<>>
        /\ ckpt' = ckpt
    BY <1>7 DEF CkptTruncate
  <2>2. lock = Ckpt
    BY <2>1 DEF IndInv, LockOK
  <2>3. LockOK'
    BY <1>1, <2>1, <2>2, ConstantsAssumption DEF IndInv, LockOK
  <2>4. LogContiguous'
    <3>1. Len(log') = 0
      BY <2>1
    <3> QED
      BY <1>1, <1>5, <2>1, <3>1 DEF IndInv, LogContiguous
  <2> QED
    BY <1>2, <1>3, <1>4, <2>3, <2>4 DEF IndInv
<1> QED
  BY <1>6, <1>7

-----------------------------------------------------------------------------
(* Type correctness, action by action *)

\* The data that a map entry leads to is an entry of the history.
LEMMA DataType ==
  ASSUME IndInv, NEW k \in Keys
  PROVE  /\ DataAt(k) \in 0 .. seqID
         /\ IsCell(table[k]) => table[k] \in 1 .. seqID /\ heap[table[k]] \in 1 .. seqID
         /\ Stored(k) \in Values \cup {Nil}
<1>1. /\ seqID \in Nat /\ hist \in Seq(EntryType) /\ Len(hist) = seqID
      /\ heap \in Seq(Int) /\ Len(heap) = seqID
  BY DEF IndInv, TypeOK, LogContiguous, CellsOK
<1>2. IsCell(table[k]) => table[k] \in 1 .. seqID /\ heap[table[k]] \in 1 .. seqID
  BY <1>1 DEF IndInv, CellsOK, IsCell, Absent, NullPtr
<1>3. ASSUME NEW d \in 1 .. seqID PROVE hist[d].val \in Values \cup {Nil}
  <2>1. hist[d] \in EntryType
    BY <1>1
  <2> QED
    BY <2>1 DEF EntryType
<1> QED
  BY <1>1, <1>2, <1>3 DEF DataAt, Stored

\* Row, column and payload of the command in hand.
LEMMA CommandFacts ==
  ASSUME IndInv, NEW w \in Workers
  PROVE  /\ Key(w) \in Keys /\ cmd[w].row \in Rows /\ cmd[w].col \in Cols
         /\ cmd[w].new \in Values
BY DEF IndInv, TypeOK, Key, Keys, CommandType

\* Receiving a command keeps the types.
LEMMA ReceiveType == ASSUME IndInv, NEW w \in Workers, Receive(w) PROVE TypeOK'
<1>1. PICK c \in Commands : /\ cmd' = [cmd EXCEPT ![w] = c]
                            /\ pc' = [pc EXCEPT ![w] = Start(c.op)]
                            /\ floor' = [floor EXCEPT ![w] = DataAt(<<c.row, c.col>>)]
  BY DEF Receive, Goto
<1>2. c \in CommandType /\ c.op \in Ops /\ <<c.row, c.col>> \in Keys
  BY ConstantsAssumption DEF CommandType, Keys
<1>3. Start(c.op) \in Places
  BY <1>2, StartPlaces DEF Places
<1>4. DataAt(<<c.row, c.col>>) \in Nat
  <2>1. DataAt(<<c.row, c.col>>) \in 0 .. seqID
    BY <1>2, DataType
  <2>2. seqID \in Nat
    BY DEF IndInv, TypeOK
  <2> QED
    BY <2>1, <2>2
<1>5. /\ cmd' \in [Workers -> CommandType] /\ pc' \in [Workers -> Places]
      /\ floor' \in [Workers -> Nat]
  BY <1>1, <1>2, <1>3, <1>4 DEF IndInv, TypeOK
<1>6. /\ reply' = [reply EXCEPT ![w] = "none"] /\ received' = received + 1
      /\ UNCHANGED <<alive, seq, ptr, seqID, lock, heapVars, diskVars, out, hist, acked>>
  BY DEF Receive
<1>7. /\ reply' \in [Workers -> {"none", "+OK", "-ERR", Junk, Nil} \cup Values]
      /\ received' \in Nat
  BY <1>6 DEF IndInv, TypeOK
<1> HIDE DEF Receive
<1> QED
  BY <1>5, <1>6, <1>7 DEF IndInv, TypeOK, heapVars, diskVars

\* Taking the lock and writing a log entry keeps the types.
LEMMA LogType ==
  ASSUME IndInv, NEW w \in Workers, NEW next \in Updating,
         NEW op \in {"PUT", "DELETE"}, NEW v \in Values \cup {Nil},
         TakeLockAndLog(w, op, v, next)
  PROVE  TypeOK'
<1> DEFINE e == Entry(seqID + 1, op, Key(w), v)
<1>1. seqID \in Nat
  BY DEF IndInv, TypeOK
<1>2. e \in EntryType
  BY <1>1, CommandFacts DEF Entry, EntryType
<1>3. log' = Append(log, e) /\ hist' = Append(hist, e) /\ heap' = Append(heap, 0)
  BY DEF TakeLockAndLog
<1> HIDE DEF e
<1>4. log' \in Seq(EntryType) /\ hist' \in Seq(EntryType) /\ heap' \in Seq(Int)
  BY <1>2, <1>3 DEF IndInv, TypeOK
<1>5. /\ pc' \in [Workers -> Places] /\ seq' \in [Workers -> Nat]
      /\ seqID' \in Nat /\ lock' \in Workers \cup {Ckpt, Free}
  BY <1>1 DEF IndInv, TypeOK, TakeLockAndLog, Goto, Updating, Places
<1> QED
  BY <1>4, <1>5 DEF IndInv, TypeOK, TakeLockAndLog, ghostVars

\* What releaseMapLock leaves to be shown after an update of the table.
LEMMA UnlockType ==
  ASSUME IndInv, NEW w \in Workers, Unlock(w, "push"),
         table' \in [Keys -> Int], rows' \in SUBSET Rows,
         heap' \in Seq(Int), freed' \in SUBSET Nat,
         strays' \in SUBSET (Nat \X {"replaced", "freed"})
  PROVE  TypeOK'
BY DEF IndInv, TypeOK, Unlock, Goto, Places, diskVars, ghostVars

\* Storing a new Cell and releasing the lock keeps the types.
LEMMA StoreNewType ==
  ASSUME IndInv, NEW w \in Workers, pc[w] \in Updating, StoreNew(w)
  PROVE  /\ table' \in [Keys -> Int] /\ rows' \in SUBSET Rows
         /\ heap' \in Seq(Int) /\ freed' \in SUBSET Nat
<1>1. heap \in Seq(Int) /\ seq[w] \in 1 .. Len(heap) /\ seq[w] \in Nat
  BY DEF IndInv, TypeOK, CellsOK, LocalsOK, Logged
<1>2. heap' \in Seq(Int)
  BY <1>1 DEF StoreNew
<1>3. cmd[w].row \in Rows /\ Key(w) \in Keys
  BY CommandFacts
<1>4. table \in [Keys -> Int] /\ rows \in SUBSET Rows /\ freed \in SUBSET Nat
  BY DEF IndInv, TypeOK
<1>5. table' \in [Keys -> Int] /\ rows' \in SUBSET Rows /\ freed' \in SUBSET Nat
  BY <1>1, <1>3, <1>4 DEF StoreNew
<1> QED
  BY <1>2, <1>5

\* Updating a Cell in place and releasing the lock keeps the types.
LEMMA StoreInPlaceType ==
  ASSUME IndInv, NEW w \in Workers, NEW cell \in 1 .. seqID, heap[cell] > 0,
         StoreInPlace(w, cell)
  PROVE  /\ table' \in [Keys -> Int] /\ rows' \in SUBSET Rows
         /\ heap' \in Seq(Int) /\ freed' \in SUBSET Nat
<1>1. heap \in Seq(Int) /\ seq[w] \in Nat /\ Len(heap) = seqID
  BY DEF IndInv, TypeOK, CellsOK
<1>2. heap' \in Seq(Int)
  BY <1>1 DEF StoreInPlace
<1>3. heap[cell] \in 1 .. seqID /\ seqID \in Nat
  BY <1>1 DEF IndInv, TypeOK, CellsOK
<1>4. freed' \subseteq 1 .. seqID
  BY <1>3, DeletedFacts DEF StoreInPlace
<1> QED
  BY <1>2, <1>3, <1>4 DEF IndInv, TypeOK, StoreInPlace

-----------------------------------------------------------------------------
(* The induction step, operation by operation *)

\* Receiving a command preserves the invariant.
LEMMA ReceiveInv == ASSUME IndInv, NEW w \in Workers, Receive(w) PROVE IndInv'
<1>1. TypeOK'
  BY ReceiveType
<1>2. PICK c \in Commands : cmd' = [cmd EXCEPT ![w] = c] /\ pc' = [pc EXCEPT ![w] = Start(c.op)]
  BY DEF Receive, Goto
<1>3. c.op \in Ops
  BY ConstantsAssumption DEF CommandType
<1> DEFINE l == Start(c.op)
<1>4. l \notin Critical /\ l \notin Logged /\ l # "getSend"
  BY <1>3, StartPlaces DEF Critical, Updating, Logged
<1>5. pc[w] \notin Critical
  BY DEF Receive, Critical, Updating
<1>6. /\ \A v \in Workers \ {w} : cmd'[v] = cmd[v] /\ ptr'[v] = ptr[v]
      /\ ptr'[w] \in NullPtr .. seqID
  BY <1>2 DEF Receive, IndInv, TypeOK, LocalsOK
<1>7. UNCHANGED <<seq, seqID, lock, heapVars, diskVars, out, hist, acked>>
  BY DEF Receive
<1> HIDE DEF l
<1> QED
  BY <1>1, <1>2, <1>4, <1>5, <1>6, <1>7, LocalStep DEF l

\* parse_PUT
LEMMA PutInv ==
  ASSUME IndInv, NEW w \in Workers, PutLog(w) \/ PutStore(w)
  PROVE  IndInv'
<1>1. CASE PutLog(w)
  <2>1. /\ TakeLockAndLog(w, "PUT", cmd[w].new, "putStore") /\ pc[w] \notin Logged
        /\ "putStore" \in Updating /\ cmd[w].new \in Values \cup {Nil}
    BY <1>1, CommandFacts DEF PutLog, Logged, Updating
  <2>2. TypeOK'
    BY <2>1, LogType
  <2> QED
    BY <2>1, <2>2, LogStep
<1>2. CASE PutStore(w)
  <2>1. pc[w] \in Updating /\ Unlock(w, "push") /\ UNCHANGED <<seqID, hist, strays>>
    BY <1>2 DEF PutStore, Updating, Unlock
  <2>4. strays' \in SUBSET (Nat \X {"replaced", "freed"})
    BY <2>1 DEF IndInv, TypeOK
  <2>2. CASE StoreNew(w)
    BY <2>1, <2>2, <2>4, NewCell, StoreNewType, UnlockType, UnlockStep
  <2>3. CASE IsCell(table[Key(w)]) /\ StoreInPlace(w, table[Key(w)])
    <3>1. Key(w) \in Keys /\ seqID \in Nat
      BY CommandFacts DEF IndInv, TypeOK
    <3>2. table[Key(w)] \in 1 .. seqID /\ heap[table[Key(w)]] \in 1 .. seqID
      BY <2>3, <3>1, DataType
    <3> QED
      BY <2>1, <2>3, <2>4, <3>1, <3>2, InPlace, StoreInPlaceType, UnlockType, UnlockStep
  <2> QED
    BY <1>2, <2>2, <2>3 DEF PutStore
<1> QED
  BY <1>1, <1>2

\* parse_CPUT, up to its decision
LEMMA CputDecideInv ==
  ASSUME IndInv, NEW w \in Workers,
         CputCheck(w) \/ CputNew(w) \/ CputRead(w) \/ CputMatch(w) \/ CputMismatch(w)
  PROVE  IndInv'
<1>0. cmd[w].new \in Values \cup {Nil} /\ {"cputInsert", "cputStore"} \subseteq Updating
  BY CommandFacts DEF Updating
<1>1. CASE CputCheck(w) \/ CputMismatch(w)
  <2>1. PICK l \in {"cputRead", "cputNew", "idle"} : pc' = [pc EXCEPT ![w] = l]
    BY <1>1 DEF CputCheck, CputMismatch, Answer, Goto
  <2>2. /\ pc[w] \notin Critical
        /\ UNCHANGED <<alive, cmd, seq, ptr, seqID, lock, heapVars, diskVars, out, hist, ghostVars>>
        /\ reply' = reply \/ reply' = [reply EXCEPT ![w] = "-ERR"]
    BY <1>1 DEF CputCheck, CputMismatch, Critical, Updating, Answer
  <2>3. TypeOK'
    BY <2>1, <2>2 DEF IndInv, TypeOK, Places, heapVars, diskVars, ghostVars
  <2>4. l \notin Critical /\ l \notin Logged /\ l # "getSend"
    BY <2>1 DEF Critical, Updating, Logged
  <2>5. ptr[w] \in NullPtr .. seqID
    BY DEF IndInv, LocalsOK
  <2> QED
    BY <2>1, <2>2, <2>3, <2>4, <2>5, LocalStep DEF ghostVars
<1>2. CASE CputNew(w)
  <2>1. TakeLockAndLog(w, "PUT", cmd[w].new, "cputInsert") /\ pc[w] \notin Logged
    BY <1>2 DEF CputNew, Logged, Updating
  <2>2. TypeOK'
    BY <1>0, <2>1, LogType
  <2> QED
    BY <1>0, <2>1, <2>2, LogStep
<1>3. CASE CputMatch(w)
  <2>1. TakeLockAndLog(w, "PUT", cmd[w].new, "cputStore") /\ pc[w] \notin Logged
    BY <1>3 DEF CputMatch, Logged, Updating
  <2>2. TypeOK'
    BY <1>0, <2>1, LogType
  <2> QED
    BY <1>0, <2>1, <2>2, LogStep
<1>4. CASE CputRead(w)
  <2>1. table[Key(w)] \in Int /\ NullPtr \in Int
    <3>1. table \in [Keys -> Int]
      BY DEF IndInv, TypeOK
    <3>2. Key(w) \in Keys
      BY CommandFacts
    <3> QED
      BY <3>1, <3>2 DEF NullPtr
  <2>2. TypeOK'
    BY <1>4, <2>1 DEF CputRead, Goto, IndInv, TypeOK, Places, diskVars, ghostVars
  <2> QED
    BY <1>4, <2>2, CputReadStep
<1> QED
  BY <1>1, <1>2, <1>3, <1>4

\* The ways of the update of parse_CPUT: the Cell gets its data, whether it is still
\* in the table or has been replaced, or it has been freed, and the write is lost or
\* goes to another Cell.
LEMMA CputStoreCases ==
  ASSUME IndInv, NEW w \in Workers, CputStore(w)
  PROVE  /\ strays \subseteq strays' /\ strays' \in SUBSET (Nat \X {"replaced", "freed"})
         /\ \/ /\ ptr[w] \in 1 .. seqID /\ heap[ptr[w]] > 0 /\ StoreInPlace(w, ptr[w])
               /\ ptr[w] = table[Key(w)] \/ <<seq[w], "replaced">> \in strays'
            \/ /\ Wild'
               /\ \E cell \in 1 .. seqID : heap[cell] > 0 /\ StoreInPlace(w, cell)
            \/ /\ Wild' /\ UNCHANGED <<table, rows, heap>>
               /\ \E n \in Nat : freed' \in DeleteAgain(n)
<1>1. /\ ptr[w] \in 1 .. seqID /\ seqID \in Nat /\ heap \in Seq(Int) /\ Len(heap) = seqID
      /\ seq[w] \in Nat /\ strays \in SUBSET (Nat \X {"replaced", "freed"})
  BY DEF CputStore, IndInv, LocalsOK, CellsOK, IsCell, NullPtr, TypeOK
<1>2. heap[ptr[w]] \in Int
  BY <1>1
<1>3. CASE heap[ptr[w]] > 0
  <2>1. /\ StoreInPlace(w, ptr[w])
        /\ strays' = IF ptr[w] = table[Key(w)] THEN strays
                                               ELSE strays \cup {<<seq[w], "replaced">>}
    BY <1>2, <1>3 DEF CputStore
  <2>2. CASE ptr[w] = table[Key(w)]
    BY <1>1, <1>3, <2>1, <2>2
  <2>3. CASE ptr[w] # table[Key(w)]
    BY <1>1, <1>3, <2>1, <2>3
  <2> QED
    BY <2>2, <2>3
<1>4. CASE heap[ptr[w]] < 0
  <2>1. strays' = strays \cup {<<seq[w], "freed">>}
    BY <1>2, <1>4 DEF CputStore
  <2>2. Wild'
    <3> DEFINE x == <<seq[w], "freed">>
    <3>1. x[2] = "freed" /\ x \in strays'
      BY <2>1
    <3> QED
      BY <3>1 DEF Wild
  <2>3. -heap[ptr[w]] \in Nat
    BY <1>2, <1>4
  <2>4. \/ freed' \in DeleteAgain(-heap[ptr[w]]) /\ UNCHANGED <<table, rows, heap>>
        \/ \E cell \in 1 .. seqID : heap[cell] > 0 /\ StoreInPlace(w, cell)
    BY <1>2, <1>4 DEF CputStore
  <2> QED
    BY <1>1, <2>1, <2>2, <2>3, <2>4
<1> QED
  BY <1>2, <1>3, <1>4 DEF CputStore

\* A CPUT that has written to a freed Cell stays written down.
LEMMA WildStays == ASSUME strays \subseteq strays', Wild PROVE Wild'
<1>1. PICK x \in strays : x[2] = "freed"
  BY DEF Wild
<1>2. x \in strays'
  BY <1>1
<1> QED
  BY <1>1, <1>2 DEF Wild

\* parse_CPUT, the update
LEMMA CputUpdateInv ==
  ASSUME IndInv, NEW w \in Workers, CputInsert(w) \/ CputStore(w)
  PROVE  IndInv'
<1>0. pc[w] \in Updating /\ Unlock(w, "push") /\ UNCHANGED <<seqID, hist>>
  BY DEF CputInsert, CputStore, Updating, Unlock
<1>1. CASE CputInsert(w)
  <2>1. StoreNew(w) /\ strays' = strays /\ strays' \in SUBSET (Nat \X {"replaced", "freed"})
    BY <1>1 DEF CputInsert, IndInv, TypeOK
  <2> QED
    BY <1>0, <2>1, NewCell, StoreNewType, UnlockType, UnlockStep
<1>2. CASE CputStore(w)
  <2>1. strays \subseteq strays' /\ strays' \in SUBSET (Nat \X {"replaced", "freed"})
    BY <1>2, CputStoreCases
  <2>2. CASE \E cell \in 1 .. seqID : heap[cell] > 0 /\ StoreInPlace(w, cell)
    BY <1>0, <2>1, <2>2, InPlace, StoreInPlaceType, UnlockType, UnlockStep
  <2>3. CASE /\ Wild' /\ UNCHANGED <<table, rows, heap>>
             /\ \E n \in Nat : freed' \in DeleteAgain(n)
    <3>1. freed' \subseteq 1 .. seqID
      BY <2>3, AgainFacts
    <3>2. CellsOK' /\ DataOwned'
      BY <1>0, <2>3, <3>1 DEF IndInv, CellsOK, DataOwned
    <3>4. /\ table' \in [Keys -> Int] /\ rows' \in SUBSET Rows
          /\ heap' \in Seq(Int) /\ freed' \in SUBSET Nat
      BY <2>3, <3>1 DEF IndInv, TypeOK
    <3>3. TypeOK'
      BY <1>0, <2>1, <3>4, UnlockType
    <3> QED
      BY <1>0, <3>2, <3>3, UnlockStep
  <2> QED
    BY <1>2, <2>2, <2>3, CputStoreCases
<1> QED
  BY <1>1, <1>2

\* parse_DELE
LEMMA DeleteInv ==
  ASSUME IndInv, NEW w \in Workers, DeleteLog(w) \/ DeleteErase(w)
  PROVE  IndInv'
<1>1. CASE DeleteLog(w)
  <2>1. TakeLockAndLog(w, "DELETE", Nil, "erase") /\ pc[w] \notin Logged /\ "erase" \in Updating
    BY <1>1 DEF DeleteLog, Logged, Updating
  <2>2. TypeOK'
    BY <2>1, LogType
  <2> QED
    BY <2>1, <2>2, LogStep
<1>2. CASE DeleteErase(w) /\ table[Key(w)] = Absent
  <2>1. /\ pc[w] \in Critical /\ lock' = Free /\ pc' = [pc EXCEPT ![w] = "idle"]
        /\ reply' = [reply EXCEPT ![w] = "-ERR"]
        /\ UNCHANGED <<alive, cmd, seq, ptr, seqID, heapVars, diskVars, out, hist, ghostVars>>
    BY <1>2 DEF DeleteErase, Answer, Goto, Critical, Updating
  <2>2. TypeOK'
    BY <2>1 DEF IndInv, TypeOK, Places, heapVars, diskVars, ghostVars
  <2> QED
    BY <2>1, <2>2, ReleaseStep DEF ghostVars
<1>3. CASE DeleteErase(w) /\ table[Key(w)] # Absent
  <2>1. /\ pc[w] = "erase" /\ pc[w] \in Updating /\ Unlock(w, "push") /\ rows' = rows
        /\ table' = [table EXCEPT ![Key(w)] = Absent]
        /\ UNCHANGED <<seqID, hist, strays>>
    BY <1>3 DEF DeleteErase, Unlock, Updating
  <2>2. IF IsCell(table[Key(w)])
          THEN /\ freed' \in Deleted(heap[table[Key(w)]])
               /\ heap' = [heap EXCEPT ![table[Key(w)]] = -seq[w]]
          ELSE UNCHANGED <<freed, heap>>
    BY <1>3 DEF DeleteErase
  <2>3. CellsOK' /\ DataOwned'
    BY <1>3, <2>1, <2>2, Erased
  <2>4. heap \in Seq(Int) /\ Len(heap) = seqID /\ -seq[w] \in Int /\ freed \in SUBSET Nat
    BY DEF IndInv, TypeOK, CellsOK
  <2>5. Key(w) \in Keys /\ seqID \in Nat /\ table \in [Keys -> Int] /\ rows \in SUBSET Rows
    BY CommandFacts DEF IndInv, TypeOK
  <2>6. heap' \in Seq(Int) /\ freed' \in SUBSET Nat
    <3>1. CASE IsCell(table[Key(w)])
      <4>1. table[Key(w)] \in 1 .. seqID /\ heap[table[Key(w)]] \in 1 .. seqID
        BY <2>5, <3>1, DataType
      <4> DEFINE cell == table[Key(w)]
      <4>2. heap' = [heap EXCEPT ![cell] = -seq[w]] /\ freed' \in Deleted(heap[cell])
        BY <2>2, <3>1
      <4>3. cell \in 1 .. Len(heap) /\ heap[cell] \in Nat
        BY <2>4, <2>5, <4>1
      <4> HIDE DEF cell
      <4>4. heap' \in Seq(Int)
        BY <2>4, <4>2, <4>3
      <4>6. heap[cell] \in 1 .. seqID
        BY <4>1 DEF cell
      <4>5. freed' \in SUBSET Nat
        BY <2>5, <4>2, <4>6, DeletedFacts
      <4> QED
        BY <4>4, <4>5
    <3>2. CASE ~IsCell(table[Key(w)])
      BY <2>2, <2>4, <3>2
    <3> QED
      BY <3>1, <3>2
  <2>7. table' \in [Keys -> Int] /\ rows' \in SUBSET Rows
    BY <2>1, <2>5 DEF Absent
  <2>9. strays' \in SUBSET (Nat \X {"replaced", "freed"})
    BY <2>1 DEF IndInv, TypeOK
  <2>8. TypeOK'
    BY <2>1, <2>6, <2>7, <2>9, UnlockType
  <2> QED
    BY <2>1, <2>3, <2>8, UnlockStep
<1> QED
  BY <1>1, <1>2, <1>3

\* backStore->push or poll, and the reply
LEMMA PushInv ==
  ASSUME IndInv, NEW w \in Workers, Push(w) \/ Ack(w)
  PROVE  IndInv'
<1>1. CASE Push(w)
  <2>1. PICK x : out' = Append(out, Entry(seq[w], hist[seq[w]].op, Key(w), x))
                 /\ x \in {hist[seq[w]].val} \cup (IF seq[w] \in freed THEN {Junk} ELSE {})
    BY <1>1 DEF Push
  <2> DEFINE e == Entry(seq[w], hist[seq[w]].op, Key(w), x)
  <2>2. /\ seq[w] \in 1 .. seqID /\ seqID \in Nat /\ Len(hist) = seqID /\ hist \in Seq(EntryType)
        /\ Key(w) \in Keys /\ out \in Seq(SentType)
    BY <1>1, CommandFacts DEF Push, IndInv, TypeOK, LocalsOK, LogContiguous, Logged
  <2>3. hist[seq[w]] \in EntryType
    BY <2>2
  <2>4. e \in SentType
    BY <2>1, <2>2, <2>3 DEF Entry, EntryType, SentType
  <2> HIDE DEF e
  <2>5. out' \in Seq(SentType)
    BY <2>1, <2>2, <2>4 DEF e
  <2>6. TypeOK'
    BY <1>1, <2>5 DEF Push, Goto, IndInv, TypeOK, Places, heapVars, diskVars, ghostVars
  <2> QED
    BY <1>1, <2>6, PushStep
<1>2. CASE Ack(w)
  <2>1. seq[w] \in Nat /\ acked \in SUBSET Nat
    BY DEF IndInv, TypeOK
  <2>2. acked' \in SUBSET Nat
    BY <1>2, <2>1 DEF Ack
  <2>3. /\ pc' \in [Workers -> Places]
        /\ reply' \in [Workers -> {"none", "+OK", "-ERR", Junk, Nil} \cup Values]
    BY <1>2 DEF Ack, Answer, Goto, IndInv, TypeOK, Places
  <2>4. TypeOK'
    BY <1>2, <2>2, <2>3 DEF Ack, IndInv, TypeOK, heapVars, diskVars
  <2> QED
    BY <1>2, <2>4, AckStep
<1> QED
  BY <1>1, <1>2

\* parse_GET
LEMMA GetInv ==
  ASSUME IndInv, NEW w \in Workers, GetCheck(w) \/ GetRead(w) \/ GetSend(w) \/ GetEnd(w)
  PROVE  IndInv'
<1>1. PICK l \in {"getRead", "getSend", "getEnd", "idle"} : pc' = [pc EXCEPT ![w] = l]
  BY DEF GetCheck, GetRead, GetSend, GetEnd, Answer, Goto
<1>2. /\ pc[w] \notin Critical
      /\ UNCHANGED <<alive, cmd, seq, seqID, lock, heapVars, diskVars, out, hist, ghostVars>>
  BY DEF GetCheck, GetRead, GetSend, GetEnd, Critical, Updating
<1>3. l \notin Critical /\ l \notin Logged
  BY <1>1 DEF Critical, Updating, Logged
<1>4. /\ pc \in [Workers -> Places] /\ ptr \in [Workers -> Int] /\ seqID \in Nat
      /\ ptr[w] \in NullPtr .. seqID
  BY DEF IndInv, TypeOK, LocalsOK
<1>5. CASE GetRead(w)
  <2>1. heap[table[Key(w)]] \in 1 .. seqID
    BY <1>5, CommandFacts, DataType DEF GetRead
  <2>2. /\ ptr'[w] = heap[table[Key(w)]] /\ ptr' \in [Workers -> Int]
        /\ \A v \in Workers \ {w} : ptr'[v] = ptr[v]
    BY <1>4, <1>5, <2>1 DEF GetRead
  <2>3. TypeOK'
    BY <1>1, <1>2, <1>5, <2>2 DEF GetRead, IndInv, TypeOK, Places, heapVars, diskVars, ghostVars
  <2>4. ptr'[w] \in NullPtr .. seqID /\ ptr'[w] > 0
    BY <1>4, <2>1, <2>2 DEF NullPtr
  <2> QED
    BY <1>1, <1>2, <1>3, <2>2, <2>3, <2>4, LocalStep DEF ghostVars
<1>6. CASE ~GetRead(w)
  <2>1. UNCHANGED ptr /\ l # "getSend"
    BY <1>1, <1>4, <1>6 DEF GetCheck, GetSend, GetEnd, Answer, Goto
  <2>2. reply' \in [Workers -> {"none", "+OK", "-ERR", Junk, Nil} \cup Values]
    <3>1. CASE GetSend(w)
      <4>1. ptr[w] \in 1 .. seqID /\ Len(hist) = seqID /\ hist \in Seq(EntryType)
        BY <3>1 DEF GetSend, IndInv, LocalsOK, TypeOK, LogContiguous, NullPtr
      <4>2. hist[ptr[w]] \in EntryType
        BY <4>1
      <4>3. hist[ptr[w]].val \in Values \cup {Nil}
        BY <4>2 DEF EntryType
      <4> QED
        BY <3>1, <4>3 DEF GetSend, IndInv, TypeOK
    <3>2. CASE GetCheck(w) \/ GetEnd(w)
      BY <3>2 DEF GetCheck, GetEnd, Answer, IndInv, TypeOK
    <3> QED
      BY <1>6, <3>1, <3>2
  <2>3. TypeOK'
    BY <1>1, <1>2, <2>1, <2>2 DEF IndInv, TypeOK, Places, heapVars, diskVars, ghostVars
  <2> QED
    BY <1>1, <1>2, <1>3, <1>4, <2>1, <2>3, LocalStep DEF ghostVars
<1> QED
  BY <1>5, <1>6

\* parse_LIST
LEMMA ListInv ==
  ASSUME IndInv, NEW w \in Workers, ListLock(w) \/ ListDone(w)
  PROVE  IndInv'
<1>1. CASE ListLock(w)
  <2>1. TypeOK'
    BY <1>1 DEF ListLock, Goto, IndInv, TypeOK, Places, heapVars, diskVars, ghostVars
  <2> QED
    BY <1>1, <2>1, ListLockStep
<1>2. CASE ListDone(w)
  <2>1. TypeOK'
    BY <1>2 DEF ListDone, Answer, Goto, IndInv, TypeOK, Places, heapVars, diskVars, ghostVars
  <2> QED
    BY <1>2, <2>1, ReleaseStep DEF ListDone, Answer, Goto, Critical, ghostVars
<1> QED
  BY <1>1, <1>2

\* The checkpointing thread, and the end of the process
LEMMA CkptInv ==
  ASSUME IndInv, CkptRename \/ CkptTruncate
  PROVE  IndInv'
<1>1. CASE CkptRename
  <2>1. PICK snap \in [Keys -> Values \cup {Nil, Junk}] :
          ckpt' = [version |-> seqID, snap |-> snap]
    BY <1>1 DEF CkptRename, Snapshot
  <2>2. ckpt' \in [version : Nat, snap : [Keys -> Values \cup {Nil, Junk}]]
    BY <2>1 DEF IndInv, TypeOK
  <2>3. TypeOK'
    BY <1>1, <2>2 DEF CkptRename, IndInv, TypeOK, heapVars, ghostVars
  <2> QED
    BY <1>1, <2>3, CkptStep
<1>2. CASE CkptTruncate
  <2>1. TypeOK'
    BY <1>2 DEF CkptTruncate, IndInv, TypeOK, heapVars, ghostVars
  <2> QED
    BY <1>2, <2>1, CkptStep
<1> QED
  BY <1>1, <1>2

\* The end of the process, by CLOSEALL or a fault, preserves the invariant.
LEMMA EndInv == ASSUME IndInv, Die PROVE IndInv'
<1>1. TypeOK'
  BY DEF Die, IndInv, TypeOK, heapVars, diskVars, ghostVars
<1> QED
  BY <1>1, QuietStep DEF Die, ghostVars

\* Every step keeps the invariant.
LEMMA NextInv == IndInv /\ [Next]_vars => IndInv'
<1> SUFFICES ASSUME IndInv, [Next]_vars PROVE IndInv'
  OBVIOUS
<1>1. CASE \E w \in Workers : Receive(w)
  BY <1>1, ReceiveInv
<1>2. ASSUME NEW w \in Workers, Step(w) PROVE IndInv'
  BY <1>2, PutInv, CputDecideInv, CputUpdateInv, DeleteInv, PushInv, GetInv, ListInv DEF Step
<1>3. CASE CkptRename \/ CkptTruncate
  BY <1>3, CkptInv
<1>4. CASE Fault \/ MayFault \/ Closeall
  BY <1>4, EndInv DEF Fault, MayFault, Closeall
<1>5. CASE UNCHANGED vars
  <2>1. TypeOK'
    BY <1>5 DEF IndInv, TypeOK, vars, heapVars, diskVars, ghostVars
  <2> QED
    BY <1>5, <2>1, QuietStep DEF vars, ghostVars
<1> QED
  BY <1>1, <1>2, <1>3, <1>4, <1>5 DEF Next

\* IndInv holds in every state the server can reach.
THEOREM Invariance == Spec => []IndInv
BY InitInv, NextInv, PTL DEF Spec

\* Every variable of the server keeps its type.
THEOREM TypeCorrect == Spec => []TypeOK
<1>1. IndInv => TypeOK
  BY DEF IndInv
<1> QED
  BY <1>1, Invariance, PTL

\* Mutual exclusion, on every path of every command: the map lock is held by
\* exactly the thread that is between getMapLock and releaseMapLock.
THEOREM LockCorrect == Spec => []LockOK
<1>1. IndInv => LockOK
  BY DEF IndInv
<1> QED
  BY <1>1, Invariance, PTL

\* writeToDisk, whenever the process dies, leaves a checkpoint and a log that
\* together have every operation that was numbered.
THEOREM LogComplete == Spec => []LogContiguous
<1>1. IndInv => LogContiguous
  BY DEF IndInv
<1> QED
  BY <1>1, Invariance, PTL

\* No delete of parse_PUT, parse_CPUT or ~Cell frees a string that a Cell still
\* points to, and none is freed twice.
THEOREM NoDanglingData == Spec => []DataOwned
<1>1. IndInv => DataOwned
  BY DEF IndInv
<1> QED
  BY <1>1, Invariance, PTL

-----------------------------------------------------------------------------
\* Nothing is stored or logged, no thread comes to a store or an erase without
\* having logged, and a thread that takes a pointer takes one to a Cell of its key.
LEMMA WriteQuiet ==
  ASSUME WriteInv, UNCHANGED <<seqID, hist, heap, strays>>,
         \A v \in Workers : pc'[v] \in Storing => pc[v] \in Storing,
         \A v \in Workers : pc'[v] = "erase" => pc[v] = "erase",
         \A v \in Workers : pc'[v] \in Pointing /\ ptr'[v] > 0 =>
            \/ pc[v] \in Pointing /\ ptr'[v] = ptr[v] /\ Key(v)' = Key(v)
            \/ hist[ptr'[v]].key = Key(v)'
  PROVE  WriteInv'
<1>1. /\ \A s \in 1 .. Len(hist') : hist'[s].op = "DELETE" => hist'[s].val = Nil
      /\ \A w \in Workers : /\ pc'[w] \in Storing => hist'[seqID'].op = "PUT"
                            /\ pc'[w] = "erase" => hist'[seqID'].op = "DELETE"
  BY DEF WriteInv
<1>2. \A w \in Workers : pc'[w] \in Pointing /\ ptr'[w] > 0 => hist'[ptr'[w]].key = Key(w)'
  BY DEF WriteInv
<1>3. ~Wild' => \A c \in 1 .. Len(heap') : heap'[c] > 0 =>
        hist'[heap'[c]].op = "PUT" /\ hist'[heap'[c]].key = hist'[c].key
  BY DEF WriteInv, Wild
<1> QED
  BY <1>1, <1>2, <1>3 DEF WriteInv

\* The log entry of a PUT, CPUT or DELETE.
LEMMA WriteLog ==
  ASSUME IndInv, WriteInv, NEW w \in Workers, NEW op, NEW v, NEW next,
         TakeLockAndLog(w, op, v, next),
         op = "DELETE" => v = Nil,
         next \in Storing => op = "PUT",
         next = "erase" => op = "DELETE",
         next \in Pointing => pc[w] \in Pointing
  PROVE  WriteInv'
<1> DEFINE e == Entry(seqID + 1, op, Key(w), v)
<1>1. /\ lock = Free /\ seqID' = seqID + 1 /\ pc' = [pc EXCEPT ![w] = next]
      /\ hist' = Append(hist, e) /\ heap' = Append(heap, 0)
      /\ UNCHANGED <<cmd, ptr, strays>> /\ e.op = op /\ e.val = v
  BY DEF TakeLockAndLog, Goto, Entry
<1>2. /\ seqID \in Nat /\ Len(hist) = seqID /\ Len(heap) = seqID
      /\ hist \in Seq(EntryType) /\ heap \in Seq(Int)
      /\ \A c \in 1 .. seqID : heap[c] <= seqID
      /\ \A u \in Workers : ptr[u] \in NullPtr .. seqID
      /\ pc \in [Workers -> Places]
  BY DEF IndInv, LogContiguous, CellsOK, TypeOK, LocalsOK
<1> HIDE DEF e
<1>3. /\ Len(hist') = seqID + 1 /\ hist'[seqID + 1] = e
      /\ \A i \in 1 .. seqID : hist'[i] = hist[i]
  BY <1>1, <1>2
<1>4. /\ Len(heap') = seqID + 1 /\ heap'[seqID + 1] = 0
      /\ \A i \in 1 .. seqID : heap'[i] = heap[i]
  BY <1>1, <1>2
<1>5. pc'[w] = next /\ \A u \in Workers \ {w} : pc'[u] = pc[u] /\ pc[u] \notin Critical
  BY <1>1, <1>2, FreeLock
<1>6. \A u \in Workers : /\ pc'[u] \in Storing => hist'[seqID'].op = "PUT"
                         /\ pc'[u] = "erase" => hist'[seqID'].op = "DELETE"
  BY <1>1, <1>3, <1>5 DEF Storing, Critical, Updating
<1>7. \A u \in Workers : pc'[u] \in Pointing /\ ptr'[u] > 0 => hist'[ptr'[u]].key = Key(u)'
  BY <1>1, <1>2, <1>3, <1>5 DEF WriteInv, Key
<1>8. ASSUME ~Wild', NEW c \in 1 .. Len(heap'), heap'[c] > 0
      PROVE  hist'[heap'[c]].op = "PUT" /\ hist'[heap'[c]].key = hist'[c].key
  <2>1. ~Wild
    BY <1>1, <1>8 DEF Wild
  <2>2. c \in 1 .. seqID /\ heap[c] \in 1 .. seqID
    BY <1>2, <1>4, <1>8
  <2> QED
    BY <1>2, <1>3, <1>4, <1>8, <2>1, <2>2 DEF WriteInv
<1>9. \A s \in 1 .. Len(hist') : hist'[s].op = "DELETE" => hist'[s].val = Nil
  BY <1>1, <1>2, <1>3 DEF WriteInv
<1> QED
  BY <1>6, <1>7, <1>8, <1>9 DEF WriteInv

\* Data is stored in a Cell of its own key, or a freed Cell has been written to.
LEMMA WriteStore ==
  ASSUME IndInv, WriteInv, NEW w \in Workers, pc[w] \in Storing, Unlock(w, "push"),
         NEW cell \in 1 .. seqID, heap' = [heap EXCEPT ![cell] = seqID],
         strays \subseteq strays', hist[cell].key = Key(w) \/ Wild'
  PROVE  WriteInv'
<1>1. pc' = [pc EXCEPT ![w] = "push"] /\ UNCHANGED <<cmd, ptr, seqID, hist>>
  BY DEF Unlock, Goto, ghostVars
<1>2. /\ seqID \in Nat /\ heap \in Seq(Int) /\ Len(heap) = seqID /\ pc \in [Workers -> Places]
      /\ hist[seqID].key = Key(w)
  BY DEF IndInv, CellsOK, TypeOK, LocalsOK, Logged, Updating, Storing
<1>3. /\ Len(heap') = seqID /\ heap'[cell] = seqID
      /\ \A c \in 1 .. seqID : c # cell => heap'[c] = heap[c]
  BY <1>2
<1>4. pc'[w] = "push" /\ \A u \in Workers \ {w} : pc'[u] = pc[u]
  BY <1>1, <1>2
<1>5. \A u \in Workers : /\ pc'[u] \in Storing => hist'[seqID'].op = "PUT"
                         /\ pc'[u] = "erase" => hist'[seqID'].op = "DELETE"
  <2>1. \A u \in Workers : pc'[u] \in Storing \cup {"erase"} => pc'[u] = pc[u]
    BY <1>4 DEF Storing
  <2> QED
    BY <1>1, <2>1 DEF WriteInv
<1>6. \A u \in Workers : pc'[u] \in Pointing /\ ptr'[u] > 0 => hist'[ptr'[u]].key = Key(u)'
  BY <1>1, <1>4 DEF WriteInv, Key, Pointing
<1>7. ASSUME ~Wild', NEW c \in 1 .. Len(heap'), heap'[c] > 0
      PROVE  hist'[heap'[c]].op = "PUT" /\ hist'[heap'[c]].key = hist'[c].key
  <2>1. ~Wild /\ hist[cell].key = Key(w)
    BY <1>7, WildStays
  <2>3. CASE c = cell
    BY <1>1, <1>2, <1>3, <2>1, <2>3 DEF WriteInv
  <2>4. CASE c # cell
    BY <1>1, <1>2, <1>3, <1>7, <2>1, <2>4 DEF WriteInv
  <2> QED
    BY <2>3, <2>4
<1>8. \A s \in 1 .. Len(hist') : hist'[s].op = "DELETE" => hist'[s].val = Nil
  BY <1>1 DEF WriteInv
<1> QED
  BY <1>5, <1>6, <1>7, <1>8 DEF WriteInv

\* A thread w that goes to a place that is no store, erase or comparison.
LEMMA WriteElsewhere ==
  ASSUME IndInv, WriteInv, NEW w \in Workers, NEW l,
         pc' = [pc EXCEPT ![w] = l], l \notin Storing, l \notin Pointing, l # "erase",
         \A v \in Workers \ {w} : cmd'[v] = cmd[v] /\ ptr'[v] = ptr[v],
         UNCHANGED <<seqID, hist, heap, strays>>
  PROVE  WriteInv'
<1>1. pc'[w] = l /\ \A v \in Workers \ {w} : pc'[v] = pc[v]
  BY DEF IndInv, TypeOK
<1>2. \A v \in Workers \ {w} : Key(v)' = Key(v)
  BY DEF Key
<1> QED
  BY <1>1, <1>2, WriteQuiet

\* parse_PUT keeps WriteInv.
LEMMA PutWrite ==
  ASSUME IndInv, WriteInv, NEW w \in Workers, PutLog(w) \/ PutStore(w) \/ CputInsert(w)
  PROVE  WriteInv'
<1>1. CASE PutLog(w)
  BY <1>1, WriteLog DEF PutLog, Storing, Pointing
<1>2. CASE PutStore(w) \/ CputInsert(w)
  <2>1. pc[w] \in Storing /\ Unlock(w, "push") /\ strays' = strays
    BY <1>2 DEF PutStore, CputInsert, Storing
  <2>2. /\ seq[w] = seqID /\ seqID \in 1 .. seqID /\ hist[seqID].key = Key(w)
        /\ heap[seqID] = 0 /\ heap \in Seq(Int) /\ Len(heap) = seqID
    BY <2>1 DEF IndInv, LocalsOK, CellsOK, Logged, Updating, Storing, TypeOK
  <2>3. CASE StoreNew(w)
    <3>1. heap' = [heap EXCEPT ![seqID] = seqID]
      BY <2>2, <2>3 DEF StoreNew
    <3> QED
      BY <2>1, <2>2, <3>1, WriteStore
  <2>4. CASE IsCell(table[Key(w)]) /\ StoreInPlace(w, table[Key(w)])
    <3>1. /\ table[Key(w)] \in 1 .. seqID /\ heap[table[Key(w)]] > 0
          /\ hist[table[Key(w)]].key = Key(w)
      BY <2>4, CommandFacts DEF IndInv, CellsOK, IsCell, Absent, NullPtr
    <3>2. heap' = [heap EXCEPT ![table[Key(w)]] = seqID]
      BY <2>2, <2>4 DEF StoreInPlace
    <3> QED
      BY <2>1, <3>1, <3>2, WriteStore
  <2> QED
    BY <1>2, <2>3, <2>4 DEF PutStore, CputInsert
<1> QED
  BY <1>1, <1>2

\* parse_CPUT keeps WriteInv: the Cell it writes to was read before the lock was
\* taken, but it was made for the same key.
LEMMA CputWrite ==
  ASSUME IndInv, WriteInv, NEW w \in Workers,
         \/ CputCheck(w) \/ CputNew(w) \/ CputRead(w)
         \/ CputMatch(w) \/ CputMismatch(w) \/ CputStore(w)
  PROVE  WriteInv'
<1>1. CASE CputCheck(w) \/ CputMismatch(w)
  <2>1. PICK l \in {"cputRead", "cputNew", "idle"} : pc' = [pc EXCEPT ![w] = l]
    BY <1>1 DEF CputCheck, CputMismatch, Answer, Goto
  <2>2. UNCHANGED <<cmd, ptr, seqID, hist, heap, strays>>
    BY <1>1 DEF CputCheck, CputMismatch, heapVars
  <2>3. l \notin Storing /\ l \notin Pointing /\ l # "erase"
    BY <2>1 DEF Storing, Pointing
  <2> QED
    BY <2>1, <2>2, <2>3, WriteElsewhere
<1>2. CASE CputNew(w) \/ CputMatch(w)
  BY <1>2, WriteLog DEF CputNew, CputMatch, Storing, Pointing
<1>3. CASE CputRead(w)
  <2> DEFINE p == IF table[Key(w)] = Absent THEN NullPtr ELSE table[Key(w)]
  <2>1. /\ ptr' = [ptr EXCEPT ![w] = p] /\ pc' = [pc EXCEPT ![w] = "cputCompare"]
        /\ UNCHANGED <<cmd, seqID, hist, heap, strays>>
    BY <1>3 DEF CputRead, Goto
  <2>2. p > 0 => hist[p].key = Key(w)
    BY CommandFacts DEF IndInv, CellsOK, Absent, NullPtr
  <2> HIDE DEF p
  <2>3. /\ ptr'[w] = p /\ pc'[w] = "cputCompare"
        /\ \A v \in Workers \ {w} : pc'[v] = pc[v] /\ ptr'[v] = ptr[v]
        /\ \A v \in Workers : Key(v)' = Key(v)
    BY <2>1 DEF IndInv, TypeOK, Key
  <2> QED
    BY <2>1, <2>2, <2>3, WriteQuiet DEF Storing
<1>4. CASE CputStore(w)
  <2>1. pc[w] = "cputStore" /\ ptr[w] > 0 /\ Unlock(w, "push")
    BY <1>4 DEF CputStore, IsCell
  <2>2. /\ pc[w] \in Storing /\ seq[w] = seqID /\ seqID \in Nat
        /\ ptr[w] \in 1 .. seqID /\ hist[ptr[w]].key = Key(w)
        /\ heap \in Seq(Int) /\ Len(heap) = seqID
    BY <2>1 DEF IndInv, LocalsOK, CellsOK, Logged, Updating, Storing, Pointing, TypeOK,
                WriteInv, NullPtr
  <2>3. strays \subseteq strays'
    BY <1>4, CputStoreCases
  <2>4. CASE UNCHANGED heap /\ Wild'
    <3>1. /\ pc' = [pc EXCEPT ![w] = "push"] /\ UNCHANGED <<cmd, ptr, seqID, hist, heap>>
      BY <2>1, <2>4 DEF Unlock, Goto, ghostVars
    <3>2. pc'[w] = "push" /\ \A v \in Workers \ {w} : pc'[v] = pc[v]
      BY <3>1 DEF IndInv, TypeOK
    <3>3. /\ \A s \in 1 .. Len(hist') : hist'[s].op = "DELETE" => hist'[s].val = Nil
          /\ \A v \in Workers : /\ pc'[v] \in Storing => hist'[seqID'].op = "PUT"
                                /\ pc'[v] = "erase" => hist'[seqID'].op = "DELETE"
      BY <3>1, <3>2 DEF WriteInv, Storing
    <3>4. \A v \in Workers : pc'[v] \in Pointing /\ ptr'[v] > 0 => hist'[ptr'[v]].key = Key(v)'
      BY <3>1, <3>2 DEF WriteInv, Pointing, Key
    <3> QED
      BY <2>4, <3>3, <3>4 DEF WriteInv
  <2>5. ASSUME NEW cell \in 1 .. seqID, StoreInPlace(w, cell), cell = ptr[w] \/ Wild'
        PROVE  WriteInv'
    <3>1. heap' = [heap EXCEPT ![cell] = seqID]
      BY <2>2, <2>5 DEF StoreInPlace
    <3> QED
      BY <2>1, <2>2, <2>3, <2>5, <3>1, WriteStore
  <2> QED
    BY <1>4, <2>2, <2>4, <2>5, CputStoreCases
<1> QED
  BY <1>1, <1>2, <1>3, <1>4

\* parse_DELE keeps WriteInv.
LEMMA DeleteWrite ==
  ASSUME IndInv, WriteInv, NEW w \in Workers, DeleteLog(w) \/ DeleteErase(w)
  PROVE  WriteInv'
<1>1. CASE DeleteLog(w)
  BY <1>1, WriteLog DEF DeleteLog, Storing, Pointing
<1>2. CASE DeleteErase(w)
  <2>1. PICK l \in {"idle", "push"} : pc' = [pc EXCEPT ![w] = l]
    BY <1>2 DEF DeleteErase, Answer, Unlock, Goto
  <2>2. /\ l \notin Storing /\ l \notin Pointing /\ l # "erase"
        /\ UNCHANGED <<cmd, ptr, seqID, hist, strays>>
    BY <1>2, <2>1 DEF DeleteErase, Unlock, Storing, Pointing, heapVars
  <2>3. CASE UNCHANGED heap
    BY <2>1, <2>2, <2>3, WriteElsewhere
  <2>4. CASE IsCell(table[Key(w)]) /\ heap' = [heap EXCEPT ![table[Key(w)]] = -seq[w]]
    <3> DEFINE cell == table[Key(w)]
    <3>0. cell \in 1 .. seqID
      BY <2>4, CommandFacts DEF IndInv, CellsOK, IsCell, Absent, NullPtr
    <3>1. /\ seq[w] \in 1 .. seqID /\ seqID \in Nat
          /\ heap \in Seq(Int) /\ Len(heap) = seqID
      BY <1>2 DEF DeleteErase, IndInv, CellsOK, LocalsOK, Logged, Updating, TypeOK
    <3>2. heap' = [heap EXCEPT ![cell] = -seq[w]]
      BY <2>4
    <3> HIDE DEF cell
    <3>3. /\ Len(heap') = seqID /\ ~(heap'[cell] > 0)
          /\ \A c \in 1 .. seqID : c # cell => heap'[c] = heap[c]
      BY <3>0, <3>1, <3>2
    <3>4. /\ \A v \in Workers : pc'[v] \in Storing \cup Pointing \cup {"erase"} => pc'[v] = pc[v]
          /\ \A v \in Workers : Key(v)' = Key(v)
      BY <2>1, <2>2 DEF IndInv, TypeOK, Key
    <3>5. ASSUME ~Wild', NEW c \in 1 .. Len(heap'), heap'[c] > 0
          PROVE  hist'[heap'[c]].op = "PUT" /\ hist'[heap'[c]].key = hist'[c].key
      <4>1. ~Wild /\ c \in 1 .. Len(heap) /\ heap'[c] = heap[c]
        BY <2>2, <3>1, <3>3, <3>5 DEF Wild
      <4> QED
        BY <2>2, <3>5, <4>1 DEF WriteInv
    <3>6. /\ \A s \in 1 .. Len(hist') : hist'[s].op = "DELETE" => hist'[s].val = Nil
          /\ \A v \in Workers : /\ pc'[v] \in Storing => hist'[seqID'].op = "PUT"
                                /\ pc'[v] = "erase" => hist'[seqID'].op = "DELETE"
      BY <2>2, <3>4 DEF WriteInv
    <3>7. \A v \in Workers : pc'[v] \in Pointing /\ ptr'[v] > 0 => hist'[ptr'[v]].key = Key(v)'
      BY <2>2, <3>4 DEF WriteInv
    <3> QED
      BY <3>5, <3>6, <3>7 DEF WriteInv
  <2> QED
    BY <1>2, <2>3, <2>4 DEF DeleteErase, heapVars
<1> QED
  BY <1>1, <1>2

\* Every step keeps WriteInv.
LEMMA NextWrite == IndInv /\ WriteInv /\ [Next]_vars => WriteInv'
<1> SUFFICES ASSUME IndInv, WriteInv, [Next]_vars PROVE WriteInv'
  OBVIOUS
<1>1. ASSUME NEW w \in Workers, Receive(w) PROVE WriteInv'
  <2>1. PICK c \in Commands : /\ cmd' = [cmd EXCEPT ![w] = c]
                              /\ pc' = [pc EXCEPT ![w] = Start(c.op)]
    BY <1>1 DEF Receive, Goto
  <2>2. c.op \in Ops
    BY ConstantsAssumption DEF CommandType
  <2>3. Start(c.op) \notin Storing /\ Start(c.op) \notin Pointing /\ Start(c.op) # "erase"
    BY <2>2, StartPlaces DEF Storing, Pointing
  <2>4. /\ UNCHANGED <<ptr, seqID, hist, heap, strays>>
        /\ \A v \in Workers \ {w} : cmd'[v] = cmd[v]
    BY <1>1, <2>1 DEF Receive, heapVars, IndInv, TypeOK
  <2> QED
    BY <2>1, <2>3, <2>4, WriteElsewhere
<1>2. ASSUME NEW w \in Workers,
             \/ Push(w) \/ Ack(w) \/ GetCheck(w) \/ GetRead(w) \/ GetSend(w) \/ GetEnd(w)
             \/ ListLock(w) \/ ListDone(w)
      PROVE  WriteInv'
  <2>1. PICK l \in {"ack", "idle", "getRead", "getSend", "getEnd", "listing"} :
           pc' = [pc EXCEPT ![w] = l]
    BY <1>2 DEF Push, Ack, GetCheck, GetRead, GetSend, GetEnd, ListLock, ListDone, Answer, Goto
  <2>2. /\ UNCHANGED <<cmd, seqID, hist, heap, strays>>
        /\ \A v \in Workers \ {w} : ptr'[v] = ptr[v]
    BY <1>2 DEF Push, Ack, GetCheck, GetRead, GetSend, GetEnd, ListLock, ListDone, heapVars,
                IndInv, TypeOK
  <2>3. l \notin Storing /\ l \notin Pointing /\ l # "erase"
    BY <2>1 DEF Storing, Pointing
  <2> QED
    BY <2>1, <2>2, <2>3, WriteElsewhere
<1>3. CASE CkptRename \/ CkptTruncate \/ Fault \/ MayFault \/ Closeall \/ UNCHANGED vars
  <2>1. UNCHANGED <<pc, cmd, ptr, seqID, hist, heap, strays>>
    BY <1>3 DEF CkptRename, CkptTruncate, Fault, MayFault, Closeall, Die, vars, heapVars
  <2> QED
    BY <2>1, WriteQuiet DEF Key
<1> QED
  BY <1>1, <1>2, <1>3, PutWrite, CputWrite, DeleteWrite DEF Next, Step

\* WriteInv holds in every state the server can reach.
LEMMA WriteInvariance == Spec => []WriteInv
<1>1. Init => WriteInv
  BY DEF Init, WriteInv, Storing, Pointing
<1> QED
  BY <1>1, NextWrite, Invariance, PTL DEF Spec

\* As long as no CPUT has written to a Cell that a DELETE freed, what a GET finds
\* under a key was logged for that key before: parse_CPUT's pointer from before the lock cannot lead a write
\* astray, and no value is in memory that a restart would not find on disk.
THEOREM LoggedBeforeStored == Spec => []WriteAhead
<1>3. IndInv /\ WriteInv => WriteAhead
  <2> SUFFICES ASSUME IndInv, WriteInv, ~Wild, NEW k \in Keys, IsCell(table[k])
               PROVE  LET d == heap[table[k]]
                      IN  d \in 1 .. seqID /\ hist[d].op = "PUT" /\ hist[d].key = k
    BY DEF WriteAhead
  <2>1. /\ table[k] \in 1 .. seqID /\ heap[table[k]] > 0 /\ hist[table[k]].key = k
        /\ Len(heap) = seqID /\ heap[table[k]] <= seqID
    BY DEF IndInv, CellsOK, IsCell, Absent, NullPtr
  <2>2. heap[table[k]] \in 1 .. seqID
    BY <2>1 DEF IndInv, TypeOK
  <2> QED
    BY <2>1, <2>2 DEF WriteInv
<1> QED
  BY <1>3, Invariance, WriteInvariance, PTL

-----------------------------------------------------------------------------
\* Neither the table, the checkpoint nor what is pending changes.
LEMMA CoverQuiet ==
  ASSUME CoverInv, UNCHANGED <<seqID, hist, heap, table, strays, ckpt>>,
         \A v \in Workers : pc'[v] \in Updating <=> pc[v] \in Updating
  PROVE  CoverInv'
<1>1. \A s : (Pending(s) <=> Pending(s)') /\ (Strayed(s) <=> Strayed(s)')
  BY DEF Pending, Strayed
<1>2. \A s, k : Latest(k, s) => Latest(k, s)'
  BY DEF Latest
<1>3. \A s : Covered(s) => Covered(s)'
  BY DEF Covered
<1>4. Wild <=> Wild'
  BY DEF Wild
<1> QED
  BY <1>1, <1>2, <1>3, <1>4 DEF CoverInv

\* The key of an entry of the history, and what its Cell holds.
LEMMA KeyOfEntry ==
  ASSUME IndInv, NEW s \in 1 .. seqID
  PROVE  hist[s].key \in Keys
<1>1. hist \in Seq(EntryType) /\ Len(hist) = seqID /\ seqID \in Nat
  BY DEF IndInv, TypeOK, LogContiguous
<1>2. hist[s] \in EntryType
  BY <1>1
<1> QED
  BY <1>2 DEF EntryType

\* A new log entry is pending; nothing else was.
LEMMA CoverLog ==
  ASSUME IndInv, CoverInv, NEW w \in Workers, NEW op, NEW v, NEW next \in Updating,
         TakeLockAndLog(w, op, v, next)
  PROVE  CoverInv'
<1> DEFINE e == Entry(seqID + 1, op, Key(w), v)
<1>1. /\ lock = Free /\ seqID' = seqID + 1 /\ pc' = [pc EXCEPT ![w] = next]
      /\ hist' = Append(hist, e) /\ heap' = Append(heap, 0)
      /\ UNCHANGED <<table, strays, ckpt>>
  BY DEF TakeLockAndLog, Goto
<1>2. /\ seqID \in Nat /\ Len(hist) = seqID /\ Len(heap) = seqID
      /\ hist \in Seq(EntryType) /\ heap \in Seq(Int) /\ pc \in [Workers -> Places]
      /\ ckpt.version \in Nat /\ ckpt.version <= seqID
  BY DEF IndInv, LogContiguous, CellsOK, TypeOK
<1> HIDE DEF e
<1>3. \A i \in 1 .. seqID : hist'[i] = hist[i] /\ heap'[i] = heap[i]
  BY <1>1, <1>2
<1>4. \A s \in 1 .. seqID : ~Pending(s)
  BY <1>1, FreeLock DEF Pending, Critical
<1>5. ASSUME NEW s, s = seqID + 1 PROVE Pending(s)'
  <2>1. pc'[w] \in Updating
    BY <1>1, <1>2
  <2> QED
    BY <1>1, <1>5, <2>1 DEF Pending
<1>6. ASSUME NEW k \in Keys, NEW s \in 1 .. seqID, Latest(k, s) PROVE Latest(k, s)'
  <2>1. CASE IsCell(table[k])
    <3>1. table[k] \in 1 .. seqID
      BY <2>1 DEF IndInv, CellsOK, IsCell, Absent, NullPtr
    <3> QED
      BY <1>1, <1>3, <1>6, <2>1, <3>1 DEF Latest
  <2>2. CASE ~IsCell(table[k])
    <3>1. PICK d \in s .. seqID : hist[d].key = k /\ hist[d].op = "DELETE"
      BY <1>6, <2>2 DEF Latest
    <3>2. d \in s .. seqID' /\ hist'[d] = hist[d]
      BY <1>1, <1>2, <1>3, <3>1
    <3> QED
      BY <1>1, <2>2, <3>1, <3>2 DEF Latest, IsCell
  <2> QED
    BY <2>1, <2>2
<1>7. ASSUME NEW s \in 1 .. ckpt.version, Covered(s) PROVE Covered(s)'
  <2>1. PICK d \in s .. ckpt.version : /\ hist[d].key = hist[s].key
                                       /\ ckpt.snap[hist[s].key] = hist[d].val
    BY <1>7 DEF Covered
  <2>2. hist'[d] = hist[d] /\ hist'[s] = hist[s]
    BY <1>2, <1>3, <2>1
  <2> QED
    BY <1>1, <2>1, <2>2 DEF Covered
<1>8. /\ \A s : Strayed(s) => Strayed(s)'
      /\ ~Wild' => ~Wild
  BY <1>1 DEF Strayed, Wild
<1>9. ASSUME ~Wild', NEW s \in 1 .. seqID' 
      PROVE  Pending(s)' \/ Strayed(s)' \/ Latest(hist[s].key, s)'
  <2>1. CASE s = seqID + 1
    BY <1>5, <2>1
  <2>2. CASE s # seqID + 1
    <3>1. s \in 1 .. seqID
      BY <1>1, <1>2, <2>2
    <3>2. Strayed(s) \/ Latest(hist[s].key, s)
      BY <1>4, <1>8, <1>9, <3>1 DEF CoverInv
    <3>3. ASSUME NEW k, k = hist[s].key, Latest(k, s) PROVE Latest(k, s)' /\ hist'[s].key = k
      BY <1>3, <1>6, <3>1, <3>3, KeyOfEntry
    <3> QED
      BY <1>8, <3>2, <3>3
  <2> QED
    BY <2>1, <2>2
<1>10. ASSUME ~Wild', NEW s \in 1 .. ckpt'.version PROVE Strayed(s)' \/ Covered(s)'
  BY <1>1, <1>7, <1>8, <1>10 DEF CoverInv
<1> QED
  BY <1>9, <1>10 DEF CoverInv

\* The thread that holds the lock has carried out its operation, on key k: k has its
\* data, was erased, or the write is a stray one; and other keys are as before.
LEMMA CoverDone ==
  ASSUME IndInv, CoverInv, NEW w \in Workers, pc[w] \in Updating, NEW key, key = Key(w),
         UNCHANGED <<seqID, hist, ckpt>>, strays \subseteq strays',
         \/ Wild'
         \/ /\ \A k \in Keys \ {key}, s \in 1 .. seqID : Latest(k, s) => Latest(k, s)'
            /\ \/ \A s \in 1 .. seqID : Latest(key, s)'
               \/ /\ <<seqID, "replaced">> \in strays'
                  /\ \A s \in 1 .. seqID : Latest(key, s) => Latest(key, s)'
  PROVE  CoverInv'
<1>1. seq[w] = seqID /\ hist[seqID].key = key /\ seqID \in Nat
  BY DEF IndInv, LocalsOK, Logged, TypeOK
<1>2. \A s : Strayed(s) => Strayed(s)'
  BY DEF Strayed
<1>3. ~Wild' => ~Wild
  BY WildStays
<1>4. \A s : Covered(s) => Covered(s)'
  BY DEF Covered
<1>5. ASSUME ~Wild', NEW s \in 1 .. seqID, NEW k, k = hist[s].key
      PROVE  Strayed(s)' \/ Latest(k, s)'
  <2>1. k \in Keys
    BY <1>5, KeyOfEntry
  <2>2. s # seqID => ~Pending(s)
    BY DEF Pending
  <2>3. CASE s = seqID
    BY <1>1, <1>5, <2>3 DEF Strayed
  <2>4. CASE s # seqID
    <3>1. Strayed(s) \/ Latest(k, s)
      BY <1>3, <1>5, <2>2, <2>4 DEF CoverInv
    <3> QED
      BY <1>2, <1>5, <2>1, <3>1
  <2> QED
    BY <2>3, <2>4
<1>6. ASSUME ~Wild', NEW s \in 1 .. ckpt'.version PROVE Strayed(s)' \/ Covered(s)'
  BY <1>2, <1>3, <1>4, <1>6 DEF CoverInv
<1> QED
  BY <1>5, <1>6 DEF CoverInv

\* A key whose entry, and the data behind it, are as before.
LEMMA SameLatest ==
  ASSUME IndInv, NEW k \in Keys, UNCHANGED <<seqID, hist>>, table'[k] = table[k],
         IsCell(table[k]) => heap'[table[k]] = heap[table[k]],
         NEW s, Latest(k, s)
  PROVE  Latest(k, s)'
<1>1. CASE IsCell(table[k])
  BY <1>1 DEF Latest
<1>2. CASE ~IsCell(table[k])
  BY <1>2 DEF Latest, IsCell
<1> QED
  BY <1>1, <1>2

\* The update of one key, by PUT or CPUT.
LEMMA CoverNew ==
  ASSUME IndInv, CoverInv, NEW w \in Workers, pc[w] \in Updating, StoreNew(w),
         UNCHANGED <<seqID, hist, ckpt, strays>>
  PROVE  CoverInv'
<1>0. PICK key : key = Key(w)
  OBVIOUS
<1>1. /\ seq[w] = seqID /\ seqID \in 1 .. seqID /\ seqID \in Nat /\ heap[seqID] = 0
      /\ heap \in Seq(Int) /\ Len(heap) = seqID /\ key \in Keys /\ table \in [Keys -> Int]
  BY <1>0, CommandFacts DEF IndInv, LocalsOK, CellsOK, TypeOK, Logged
<1>2. table' = [table EXCEPT ![key] = seqID] /\ heap' = [heap EXCEPT ![seqID] = seqID]
  BY <1>0, <1>1 DEF StoreNew
<1>3. /\ table'[key] = seqID /\ \A k \in Keys \ {key} : table'[k] = table[k]
      /\ heap'[seqID] = seqID /\ \A c \in 1 .. seqID : c # seqID => heap'[c] = heap[c]
  BY <1>1, <1>2
<1>4. \A s \in 1 .. seqID : Latest(key, s)'
  BY <1>1, <1>3 DEF Latest, IsCell
<1>5. ASSUME NEW k \in Keys \ {key}, NEW s \in 1 .. seqID, Latest(k, s) PROVE Latest(k, s)'
  <2>1. IsCell(table[k]) => table[k] \in 1 .. seqID /\ table[k] # seqID
    BY <1>1 DEF IndInv, CellsOK, IsCell, Absent, NullPtr
  <2> QED
    BY <1>3, <1>5, <2>1, SameLatest
<1> QED
  BY <1>0, <1>4, <1>5, CoverDone

\* The update of a Cell that was made for the key of the command, in the table or not.
LEMMA CoverInPlace ==
  ASSUME IndInv, CoverInv, NEW w \in Workers, pc[w] \in Updating,
         NEW cell \in 1 .. seqID, heap[cell] > 0, StoreInPlace(w, cell),
         hist[cell].key = Key(w), strays \subseteq strays',
         cell = table[Key(w)] \/ <<seqID, "replaced">> \in strays',
         UNCHANGED <<seqID, hist, ckpt>>
  PROVE  CoverInv'
<1>0. PICK key : key = Key(w)
  OBVIOUS
<1>1. /\ seq[w] = seqID /\ seqID \in Nat /\ heap \in Seq(Int) /\ Len(heap) = seqID
      /\ key \in Keys /\ table' = table
  BY <1>0, CommandFacts DEF IndInv, LocalsOK, CellsOK, TypeOK, Logged, StoreInPlace
<1>2. heap' = [heap EXCEPT ![cell] = seqID]
  BY <1>1 DEF StoreInPlace
<1>3. heap'[cell] = seqID /\ \A c \in 1 .. seqID : c # cell => heap'[c] = heap[c]
  BY <1>1, <1>2
<1>4. ASSUME NEW k \in Keys \ {key}, NEW s \in 1 .. seqID, Latest(k, s) PROVE Latest(k, s)'
  <2>1. IsCell(table[k]) => table[k] \in 1 .. seqID /\ table[k] # cell
    BY <1>0 DEF IndInv, CellsOK, IsCell, Absent, NullPtr
  <2> QED
    BY <1>1, <1>3, <1>4, <2>1, SameLatest
<1>5. CASE cell = table[key]
  <2>1. \A s \in 1 .. seqID : Latest(key, s)'
    BY <1>1, <1>3, <1>5 DEF Latest, IsCell
  <2> QED
    BY <1>0, <1>4, <2>1, CoverDone
<1>6. CASE cell # table[key] /\ <<seqID, "replaced">> \in strays'
  <2>1. IsCell(table[key]) => table[key] \in 1 .. seqID
    BY <1>1 DEF IndInv, CellsOK, IsCell, Absent, NullPtr
  <2>2. ASSUME NEW s \in 1 .. seqID, Latest(key, s) PROVE Latest(key, s)'
    BY <1>1, <1>3, <1>6, <2>1, <2>2, SameLatest
  <2> QED
    BY <1>0, <1>4, <1>6, <2>2, CoverDone
<1> QED
  BY <1>0, <1>5, <1>6

\* The end of a DELETE, whether there was such a key or not.
LEMMA CoverErase ==
  ASSUME IndInv, WriteInv, CoverInv, NEW w \in Workers, DeleteErase(w)
  PROVE  CoverInv'
<1>0. PICK key : key = Key(w)
  OBVIOUS
<1>1. /\ pc[w] = "erase" /\ pc[w] \in Updating
      /\ UNCHANGED <<seqID, hist, ckpt, strays>>
  BY DEF DeleteErase, Updating, Unlock, heapVars, diskVars
<1>2. /\ seq[w] = seqID /\ seqID \in 1 .. seqID /\ seqID \in Nat /\ key \in Keys
      /\ heap \in Seq(Int) /\ Len(heap) = seqID /\ table \in [Keys -> Int]
      /\ hist[seqID].key = key /\ hist[seqID].op = "DELETE"
  BY <1>0, <1>1, CommandFacts DEF IndInv, LocalsOK, CellsOK, TypeOK, Logged, WriteInv
<1>3. /\ table'[key] = Absent /\ \A k \in Keys \ {key} : table'[k] = table[k]
      /\ IF IsCell(table[key]) THEN heap' = [heap EXCEPT ![table[key]] = -seqID]
                               ELSE heap' = heap
  <2>1. CASE table[key] = Absent
    <3>1. table' = table /\ heap' = heap /\ ~IsCell(table[key])
      BY <1>0, <2>1 DEF DeleteErase, heapVars, IsCell, Absent
    <3> QED
      BY <2>1, <3>1
  <2>2. CASE table[key] # Absent
    <3>1. /\ table' = [table EXCEPT ![key] = Absent]
          /\ IF IsCell(table[key]) THEN heap' = [heap EXCEPT ![table[key]] = -seqID]
                                   ELSE heap' = heap
      BY <1>0, <1>2, <2>2 DEF DeleteErase
    <3> QED
      BY <1>2, <3>1
  <2> QED
    BY <2>1, <2>2
<1>4. IsCell(table[key]) => table[key] \in 1 .. seqID /\ hist[table[key]].key = key
  BY <1>2 DEF IndInv, CellsOK, IsCell, Absent, NullPtr
<1>5. ASSUME NEW c \in 1 .. seqID, c # table[key] PROVE heap'[c] = heap[c]
  <2>1. CASE IsCell(table[key])
    BY <1>2, <1>3, <1>4, <1>5, <2>1
  <2>2. CASE ~IsCell(table[key])
    BY <1>3, <2>2
  <2> QED
    BY <2>1, <2>2
<1>6. \A s \in 1 .. seqID : Latest(key, s)'
  <2>1. ~IsCell(table'[key])
    BY <1>3 DEF IsCell, Absent
  <2> QED
    BY <1>1, <1>2, <2>1 DEF Latest
<1>7. ASSUME NEW k \in Keys \ {key}, NEW s \in 1 .. seqID, Latest(k, s) PROVE Latest(k, s)'
  <2>1. IsCell(table[k]) => table[k] \in 1 .. seqID /\ hist[table[k]].key = k
    BY DEF IndInv, CellsOK, IsCell, Absent, NullPtr
  <2>2. IsCell(table[k]) => heap'[table[k]] = heap[table[k]]
    BY <1>3, <1>4, <1>5, <2>1
  <2> QED
    BY <1>1, <1>3, <1>7, <2>2, SameLatest
<1> QED
  BY <1>0, <1>1, <1>6, <1>7, CoverDone

\* Under the lock, with no freed Cell written to, the snapshot has every operation.
LEMMA CoverCkpt ==
  ASSUME IndInv, WriteInv, CoverInv, CkptRename
  PROVE  CoverInv'
<1>1. /\ lock = Free /\ UNCHANGED <<pc, seqID, hist, heap, table, strays>>
  BY DEF CkptRename, heapVars
<1>2. PICK snap : /\ \A k \in Keys : snap[k] \in Reads(k)
                  /\ ckpt' = [version |-> seqID, snap |-> snap]
  BY DEF CkptRename, Snapshot
<1>3. \A s : ~Pending(s)
  BY <1>1, FreeLock DEF Pending, Critical
<1>4. /\ \A s : Strayed(s) <=> Strayed(s)'
      /\ \A k, s : Latest(k, s) => Latest(k, s)'
      /\ Wild <=> Wild'
  BY <1>1 DEF Strayed, Latest, Wild
<1>5. ASSUME ~Wild', NEW s \in 1 .. seqID PROVE Strayed(s) \/ Latest(hist[s].key, s)
  BY <1>3, <1>4, <1>5 DEF CoverInv
<1>6. ASSUME ~Wild, NEW k \in Keys PROVE snap[k] = Stored(k)
  <2>1. IsCell(table[k]) => table[k] \in 1 .. Len(heap) /\ heap[table[k]] > 0
    BY DEF IndInv, CellsOK, IsCell, Absent, NullPtr
  <2>2. ~Stale(k)
    BY <1>6, <2>1 DEF Stale, IndInv, DataOwned
  <2> QED
    BY <1>2, <2>2 DEF Reads
<1>7. ASSUME ~Wild, NEW s \in 1 .. seqID, NEW k \in Keys, k = hist[s].key, Latest(k, s)
      PROVE  \E d \in s .. seqID : hist[d].key = k /\ snap[k] = hist[d].val
  <2>0. seqID \in Nat /\ Len(hist) = seqID /\ Len(heap) = seqID
    BY DEF IndInv, TypeOK, LogContiguous, CellsOK
  <2>1. CASE IsCell(table[k])
    <3>1. /\ table[k] \in 1 .. seqID /\ heap[table[k]] > 0 /\ hist[table[k]].key = k
          /\ heap[table[k]] <= seqID /\ heap[table[k]] >= s
      BY <1>7, <2>1 DEF IndInv, CellsOK, IsCell, Absent, NullPtr, Latest
    <3>2. heap \in Seq(Int)
      BY DEF IndInv, TypeOK
    <3>3. heap[table[k]] \in s .. seqID
      BY <2>0, <3>1, <3>2
    <3>4. hist[heap[table[k]]].key = k
      BY <1>7, <2>0, <3>1 DEF WriteInv
    <3>5. snap[k] = hist[heap[table[k]]].val
      BY <1>6, <1>7, <2>1 DEF Stored
    <3> QED
      BY <3>3, <3>4, <3>5
  <2>2. CASE ~IsCell(table[k])
    <3>1. PICK d \in s .. seqID : hist[d].key = k /\ hist[d].op = "DELETE"
      BY <1>7, <2>2 DEF Latest
    <3>2. hist[d].val = Nil
      BY <2>0, <3>1 DEF WriteInv
    <3>3. snap[k] = Nil
      BY <1>6, <1>7, <2>2 DEF Stored
    <3> QED
      BY <3>1, <3>2, <3>3
  <2> QED
    BY <2>1, <2>2
<1>8. ASSUME ~Wild', NEW s \in 1 .. seqID PROVE Strayed(s) \/ Covered(s)'
  <2> DEFINE k == hist[s].key
  <2>1. k \in Keys
    BY KeyOfEntry
  <2>2. ckpt'.version = seqID /\ ckpt'.snap = snap
    BY <1>2
  <2>3. ASSUME Latest(k, s)
        PROVE  \E d \in s .. seqID : hist[d].key = k /\ snap[k] = hist[d].val
    BY <1>4, <1>7, <1>8, <2>1, <2>3
  <2>4. Strayed(s) \/ Latest(k, s)
    BY <1>5, <1>8
  <2> QED
    BY <1>1, <2>2, <2>3, <2>4 DEF Covered
<1>9. ckpt'.version = seqID
  BY <1>2
<1>10. ASSUME ~Wild', NEW s \in 1 .. seqID, NEW k, k = hist[s].key
       PROVE  Strayed(s)' \/ Latest(k, s)'
  BY <1>4, <1>5, <1>10
<1> QED
  BY <1>1, <1>4, <1>8, <1>9, <1>10 DEF CoverInv

\* Every step keeps CoverInv.
LEMMA NextCover == IndInv /\ WriteInv /\ CoverInv /\ [Next]_vars => CoverInv'
<1> SUFFICES ASSUME IndInv, WriteInv, CoverInv, [Next]_vars PROVE CoverInv'
  OBVIOUS
<1>1. ASSUME NEW w \in Workers, NEW l, pc' = [pc EXCEPT ![w] = l], l \notin Updating,
             pc[w] \notin Updating, UNCHANGED <<seqID, hist, heap, table, strays, ckpt>>
      PROVE  CoverInv'
  <2>1. \A v \in Workers : pc'[v] \in Updating <=> pc[v] \in Updating
    BY <1>1 DEF IndInv, TypeOK
  <2> QED
    BY <1>1, <2>1, CoverQuiet
<1>2. ASSUME NEW w \in Workers, Receive(w) PROVE CoverInv'
  <2>1. PICK c \in Commands : pc' = [pc EXCEPT ![w] = Start(c.op)]
    BY <1>2 DEF Receive, Goto
  <2>2. Start(c.op) \notin Updating
    BY StartPlaces, ConstantsAssumption DEF CommandType, Updating
  <2>3. pc[w] \notin Updating /\ UNCHANGED <<seqID, hist, heap, table, strays, ckpt>>
    BY <1>2 DEF Receive, heapVars, diskVars, Updating
  <2> QED
    BY <1>1, <2>1, <2>2, <2>3
<1>3. ASSUME NEW w \in Workers, PutLog(w) \/ CputNew(w) \/ CputMatch(w) \/ DeleteLog(w)
      PROVE  CoverInv'
  BY <1>3, CoverLog DEF PutLog, CputNew, CputMatch, DeleteLog, Updating
<1>4. ASSUME NEW w \in Workers, PutStore(w) \/ CputInsert(w) PROVE CoverInv'
  <2>1. pc[w] \in Updating /\ UNCHANGED <<seqID, hist, ckpt, strays>>
    BY <1>4 DEF PutStore, CputInsert, Unlock, Updating, diskVars
  <2>2. CASE StoreNew(w)
    BY <2>1, <2>2, CoverNew
  <2>3. CASE IsCell(table[Key(w)]) /\ StoreInPlace(w, table[Key(w)])
    <3>1. /\ table[Key(w)] \in 1 .. seqID /\ heap[table[Key(w)]] > 0
          /\ hist[table[Key(w)]].key = Key(w)
      BY <2>3, CommandFacts DEF IndInv, CellsOK, IsCell, Absent, NullPtr
    <3> QED
      BY <2>1, <2>3, <3>1, CoverInPlace
  <2> QED
    BY <1>4, <2>2, <2>3 DEF PutStore, CputInsert
<1>5. ASSUME NEW w \in Workers, CputStore(w) PROVE CoverInv'
  <2>1. /\ pc[w] = "cputStore" /\ pc[w] \in Updating /\ UNCHANGED <<seqID, hist, ckpt>>
        /\ strays \subseteq strays' /\ seq[w] = seqID /\ ptr[w] > 0
        /\ hist[ptr[w]].key = Key(w)
    BY <1>5, CputStoreCases
       DEF CputStore, Unlock, Updating, diskVars, IndInv, LocalsOK, WriteInv, Pointing, IsCell
  <2>2. CASE Wild'
    BY <2>1, <2>2, CoverDone
  <2>3. CASE /\ ptr[w] \in 1 .. seqID /\ heap[ptr[w]] > 0 /\ StoreInPlace(w, ptr[w])
             /\ ptr[w] = table[Key(w)] \/ <<seq[w], "replaced">> \in strays'
    BY <2>1, <2>3, CoverInPlace
  <2> QED
    BY <1>5, <2>2, <2>3, CputStoreCases
<1>6. ASSUME NEW w \in Workers, CputRead(w) PROVE CoverInv'
  <2> DEFINE p == IF table[Key(w)] = Absent THEN NullPtr ELSE table[Key(w)]
  <2>1. /\ pc[w] = "cputRead" /\ pc' = [pc EXCEPT ![w] = "cputCompare"]
        /\ table' = [table EXCEPT ![Key(w)] = p]
        /\ UNCHANGED <<seqID, hist, heap, strays, ckpt>>
    BY <1>6 DEF CputRead, Goto, diskVars
  <2>2. \A v \in Workers : pc'[v] \in Updating <=> pc[v] \in Updating
    BY <2>1 DEF IndInv, TypeOK, Updating
  <2>3. Key(w) \in Keys /\ table \in [Keys -> Int]
    BY CommandFacts DEF IndInv, TypeOK
  <2>0. p = table[Key(w)] \/ (table[Key(w)] = 0 /\ p = -1)
    BY DEF Absent, NullPtr
  <2> HIDE DEF p
  <2>4. ASSUME NEW k \in Keys
        PROVE  table'[k] = table[k] \/ (~IsCell(table[k]) /\ ~IsCell(table'[k]))
    <3>1. CASE k = Key(w)
      <4>1. table'[k] = p
        BY <2>1, <2>3, <3>1
      <4> QED
        BY <2>0, <3>1, <4>1 DEF IsCell
    <3>2. CASE k # Key(w)
      BY <2>1, <2>3, <3>2
    <3> QED
      BY <3>1, <3>2
  <2>5. ASSUME NEW k \in Keys, NEW s, Latest(k, s) PROVE Latest(k, s)'
    BY <2>1, <2>4, <2>5 DEF Latest
  <2>6. /\ \A s : (Pending(s) <=> Pending(s)') /\ (Strayed(s) <=> Strayed(s)')
        /\ \A s : Covered(s) => Covered(s)'
        /\ Wild <=> Wild'
    BY <2>1, <2>2 DEF Pending, Strayed, Covered, Wild
  <2>7. ASSUME ~Wild', NEW s \in 1 .. seqID, NEW k, k = hist[s].key
        PROVE  Pending(s)' \/ Strayed(s)' \/ Latest(k, s)'
    <3>1. k \in Keys
      BY <2>7, KeyOfEntry
    <3> QED
      BY <2>5, <2>6, <2>7, <3>1 DEF CoverInv
  <2>8. ASSUME ~Wild', NEW s \in 1 .. ckpt.version PROVE Strayed(s)' \/ Covered(s)'
    BY <2>6, <2>8 DEF CoverInv
  <2> QED
    BY <2>1, <2>7, <2>8 DEF CoverInv
<1>7. ASSUME NEW w \in Workers, DeleteErase(w) PROVE CoverInv'
  BY <1>7, CoverErase
<1>8. ASSUME NEW w \in Workers,
             \/ CputCheck(w) \/ CputMismatch(w) \/ Push(w) \/ Ack(w)
             \/ GetCheck(w) \/ GetRead(w) \/ GetSend(w) \/ GetEnd(w)
             \/ ListLock(w) \/ ListDone(w)
      PROVE  CoverInv'
  <2>1. PICK l \in {"cputRead", "cputNew", "ack", "idle", "getRead", "getSend", "getEnd", "listing"} :
           pc' = [pc EXCEPT ![w] = l]
    BY <1>8 DEF CputCheck, CputMismatch, Push, Ack, GetCheck, GetRead, GetSend, GetEnd, ListLock,
                ListDone, Answer, Goto
  <2>2. pc[w] \notin Updating /\ UNCHANGED <<seqID, hist, heap, table, strays, ckpt>>
    BY <1>8 DEF CputCheck, CputMismatch, Push, Ack, GetCheck, GetRead, GetSend, GetEnd, ListLock,
                ListDone, Updating, heapVars, diskVars
  <2>3. l \notin Updating
    BY DEF Updating
  <2> QED
    BY <1>1, <2>1, <2>2, <2>3
<1>9. CASE CkptRename
  BY <1>9, CoverCkpt
<1>10. CASE CkptTruncate \/ Fault \/ MayFault \/ Closeall \/ UNCHANGED vars
  <2>1. UNCHANGED <<pc, seqID, hist, heap, table, strays, ckpt>>
    BY <1>10 DEF CkptTruncate, Fault, MayFault, Closeall, Die, vars, heapVars, diskVars
  <2> QED
    BY <2>1, CoverQuiet
<1> QED
  BY <1>2, <1>3, <1>4, <1>5, <1>6, <1>7, <1>8, <1>9, <1>10 DEF Next, Step

\* A mutation that was answered +OK is in log.txt, or checkpoint.txt has its data or
\* that of a later one under its key, and it has been written to the replicas exactly
\* once; a CPUT to a Cell that was replaced or freed is the exception (AckedDurable).
THEOREM AcknowledgedIsDurable == Spec => []AckedDurable
<1>1. Init => CoverInv
  <2> SUFFICES ASSUME Init PROVE CoverInv
    OBVIOUS
  <2>1. seqID = 0 /\ ckpt.version = 0
    BY DEF Init
  <2> QED
    BY <2>1 DEF CoverInv
<1>2. IndInv /\ CoverInv => AckedDurable
  <2> SUFFICES ASSUME IndInv, CoverInv, NEW s \in acked
               PROVE  /\ \/ \E i \in 1 .. Len(log) : log[i] = hist[s]
                         \/ /\ s <= ckpt.version
                            /\ Covered(s) \/ <<s, "replaced">> \in strays \/ Wild
                      /\ Sent(s)
                      /\ \A i, j \in 1 .. Len(out) : out[i].seq = s /\ out[j].seq = s => i = j
    BY DEF AckedDurable
  <2>1. s \in 1 .. seqID /\ Sent(s)
    BY DEF IndInv, PushedOnce
  <2>2. \A i, j \in 1 .. Len(out) : out[i].seq = s /\ out[j].seq = s => i = j
    BY DEF IndInv, PushedOnce
  <2>3. /\ seqID \in Nat /\ Len(log) \in Nat /\ Len(log) <= seqID
        /\ ckpt.version \in Nat /\ seqID - Len(log) <= ckpt.version
        /\ \A i \in 1 .. Len(log) : log[i] = hist[seqID - Len(log) + i]
    BY DEF IndInv, TypeOK, LogContiguous
  <2>4. CASE s <= seqID - Len(log)
    <3>1. s \in 1 .. ckpt.version
      BY <2>1, <2>3, <2>4
    <3>2. Covered(s) \/ Strayed(s) \/ Wild
      BY <3>1 DEF CoverInv
    <3> QED
      BY <2>1, <2>2, <3>1, <3>2 DEF Strayed
  <2>5. CASE s > seqID - Len(log)
    <3> DEFINE i == s - (seqID - Len(log))
    <3>1. i \in 1 .. Len(log) /\ seqID - Len(log) + i = s
      BY <2>1, <2>3, <2>5
    <3>2. log[i] = hist[s]
      BY <2>3, <3>1
    <3> QED
      BY <2>1, <2>2, <3>1, <3>2
  <2> QED
    BY <2>1, <2>3, <2>4, <2>5
<1> QED
  BY <1>1, <1>2, NextCover, Invariance, WriteInvariance, PTL DEF Spec

-----------------------------------------------------------------------------
(***************************************************************************)
(* A data server whose clients only PUT and GET, and whose rows and        *)
(* columns have different names, for any number of threads, keys, payloads *)
(* and commands: it faults only by a missed search, what it sends to the   *)
(* replicas is what it logged, a GET is regular, and the server implements *)
(* KVMap.                                                                  *)
(***************************************************************************)
PutGetOnly == Rows \cap Cols = {} /\ \A c \in Commands : c.op \in {"PUT", "GET"}

PutPlaces == {"put", "putStore", "push", "ack"}
GetPlaces == {"get", "getRead", "getSend", "getEnd"}

(* A worker is idle or in the handler of its command.                      *)
Serving(w) == \/ pc[w] = "idle"
              \/ pc[w] \in PutPlaces /\ cmd[w].op = "PUT"
              \/ pc[w] \in GetPlaces /\ cmd[w].op = "GET"

(* Entry s is the s-th PUT, and the one that its worker was sent.          *)
HistPuts ==
  /\ \A s \in 1 .. seqID : hist[s].seq = s /\ hist[s].op = "PUT" /\ hist[s].val \in Values
  /\ \A w \in Workers : pc[w] \in PutPlaces \ {"put"} => hist[seq[w]].val = cmd[w].new

(* Every PUT allocates a Cell: no Cell is changed and no string deleted.   *)
FreshCells ==
  /\ freed = {}
  /\ \A k \in Keys : table[k] # Absent => table[k] \in 1 .. seqID /\ heap[table[k]] = table[k]

(* What a GET has found stays in the table, or makes way for newer data.   *)
Reading ==
  \A w \in Workers :
    /\ pc[w] \in {"getRead", "getSend", "getEnd"} => table[Key(w)] # Absent
    /\ pc[w] \in {"get", "getRead"} => floor[w] <= DataAt(Key(w))
    /\ pc[w] = "getSend" => ptr[w] >= floor[w] /\ hist[ptr[w]].key = Key(w)

PutGetInv ==
  /\ IndInv
  /\ \A w \in Workers : Serving(w)
  /\ HistPuts /\ FreshCells /\ Reading
  /\ PushFaithful

-----------------------------------------------------------------------------
\* What PutGetInv says of one worker and of the table, for use below.
LEMMA PutGetFacts ==
  ASSUME PutGetInv
  PROVE  /\ IndInv /\ TypeOK /\ seqID \in Nat /\ Len(hist) = seqID /\ Len(heap) = seqID
         /\ hist \in Seq(EntryType) /\ heap \in Seq(Int) /\ freed = {}
         /\ \A w \in Workers : Key(w) \in Keys /\ cmd[w].new \in Values
         /\ \A w \in Workers : pc[w] \in {"putStore", "push", "ack"} =>
              seq[w] \in 1 .. seqID /\ hist[seq[w]].key = Key(w)
         /\ \A w \in Workers : pc[w] = "putStore" => seq[w] = seqID /\ lock = w
         /\ \A w \in Workers : pc[w] = "getSend" => ptr[w] \in 1 .. seqID
         /\ \A k \in Keys : table[k] \in 0 .. seqID
         /\ \A k \in Keys : table[k] > 0 => heap[table[k]] = table[k] /\ hist[table[k]].key = k
         /\ \A k \in Keys : DataAt(k) = table[k]
<1> USE DEF PutGetInv, IndInv
<1>1. /\ seqID \in Nat /\ Len(hist) = seqID /\ Len(heap) = seqID
      /\ hist \in Seq(EntryType) /\ heap \in Seq(Int) /\ freed = {}
  BY DEF TypeOK, LogContiguous, CellsOK, FreshCells
<1>2. \A w \in Workers : Key(w) \in Keys /\ cmd[w].new \in Values
  BY CommandFacts
<1>3. /\ \A w \in Workers : pc[w] \in {"putStore", "push", "ack"} =>
              seq[w] \in 1 .. seqID /\ hist[seq[w]].key = Key(w)
      /\ \A w \in Workers : pc[w] = "putStore" => seq[w] = seqID /\ lock = w
  BY DEF LocalsOK, Logged, Updating, LockOK, Critical
<1>4. \A w \in Workers : pc[w] = "getSend" => ptr[w] \in 1 .. seqID
  BY <1>1 DEF LocalsOK, NullPtr
<1>5. \A k \in Keys : table[k] \in 0 .. seqID
  BY <1>1 DEF FreshCells, Absent
<1>6. \A k \in Keys : table[k] > 0 => heap[table[k]] = table[k] /\ hist[table[k]].key = k
  BY <1>5 DEF FreshCells, CellsOK, Absent, NullPtr
<1>7. \A k \in Keys : DataAt(k) = table[k]
  BY <1>1, <1>5, <1>6 DEF DataAt, IsCell
<1> QED
  BY <1>1, <1>2, <1>3, <1>4, <1>5, <1>6, <1>7

\* The steps a worker can take.
LEMMA PutGetSteps ==
  ASSUME PutGetInv, NEW w \in Workers, Step(w)
  PROVE  \/ PutLog(w) \/ PutStore(w) \/ Push(w) \/ Ack(w)
         \/ GetCheck(w) \/ GetRead(w) \/ GetSend(w) \/ GetEnd(w)
<1>1. pc[w] \in {"idle"} \cup PutPlaces \cup GetPlaces
  BY DEF PutGetInv, Serving
<1> QED
  BY <1>1 DEF PutPlaces, GetPlaces, Step, CputCheck, CputNew, CputInsert, CputRead, CputMatch,
              CputMismatch, CputStore, DeleteLog, DeleteErase, ListLock, ListDone

\* A PUT always inserts a new Cell: no column is named like a row.
LEMMA AlwaysInserts ==
  ASSUME PutGetOnly, PutGetInv, NEW w \in Workers
  PROVE  InsertsCell(w)
BY CommandFacts DEF PutGetInv, IndInv, TypeOK, InsertsCell, PutGetOnly

LEMMA InitPutGet == Init => PutGetInv
<1> SUFFICES ASSUME Init PROVE PutGetInv
  OBVIOUS
<1>1. IndInv
  BY InitInv
<1>2. \A w \in Workers : pc[w] = "idle"
  BY DEF Init
<1>3. HistPuts /\ FreshCells
  BY <1>2 DEF Init, HistPuts, FreshCells, PutPlaces
<1>4. Reading /\ PushFaithful
  BY <1>2 DEF Init, Reading, PushFaithful
<1> QED
  BY <1>1, <1>2, <1>3, <1>4 DEF PutGetInv, Serving

-----------------------------------------------------------------------------
\* A command arrives.
LEMMA ReceivePutGet ==
  ASSUME PutGetOnly, PutGetInv, IndInv', NEW w \in Workers, Receive(w)
  PROVE  PutGetInv'
<1>0. PICK c \in Commands : /\ cmd' = [cmd EXCEPT ![w] = c]
                            /\ pc' = [pc EXCEPT ![w] = Start(c.op)]
                            /\ floor' = [floor EXCEPT ![w] = DataAt(<<c.row, c.col>>)]
  BY DEF Receive, Goto
<1>1. /\ pc[w] = "idle" /\ UNCHANGED <<seq, ptr, seqID, table, rows, heap, freed, out, hist>>
      /\ \/ c.op = "PUT" /\ Start(c.op) = "put"
         \/ c.op = "GET" /\ Start(c.op) = "get"
  BY DEF Receive, heapVars, PutGetOnly, Start
<1>2. /\ pc'[w] \in {"put", "get"} /\ cmd'[w] = c /\ floor'[w] = DataAt(<<c.row, c.col>>)
      /\ pc'[w] = "put" => cmd'[w].op = "PUT"
      /\ pc'[w] = "get" => cmd'[w].op = "GET"
      /\ \A v \in Workers \ {w} : pc'[v] = pc[v] /\ cmd'[v] = cmd[v] /\ floor'[v] = floor[v]
  BY <1>0, <1>1 DEF PutGetInv, IndInv, TypeOK
<1>3. \A v \in Workers : Serving(v)'
  BY <1>1, <1>2 DEF PutGetInv, Serving, PutPlaces, GetPlaces
<1>4. HistPuts' /\ FreshCells' /\ PushFaithful'
  BY <1>1, <1>2 DEF PutGetInv, HistPuts, FreshCells, PushFaithful, PutPlaces
<1>5. Reading'
  <2>1. \A k : DataAt(k)' = DataAt(k)
    BY <1>1 DEF DataAt
  <2>2. \A v \in Workers \ {w} : Key(v)' = Key(v)
    BY <1>2 DEF Key
  <2>3. Key(w)' = <<c.row, c.col>> /\ floor'[w] = DataAt(Key(w)')
    BY <1>2 DEF Key
  <2>4. Key(w)' \in Keys
    BY CommandFacts, <1>2, ConstantsAssumption, <2>3 DEF Keys, CommandType
  <2>5. DataAt(Key(w)') \in Nat
    BY <2>4, PutGetFacts
  <2>6. floor'[w] <= DataAt(Key(w)')
    BY <2>3, <2>5
  <2>7. ASSUME NEW v \in Workers
        PROVE  /\ pc'[v] \in {"getRead", "getSend", "getEnd"} => table'[Key(v)'] # Absent
               /\ pc'[v] \in {"get", "getRead"} => floor'[v] <= DataAt(Key(v))'
               /\ pc'[v] = "getSend" => ptr'[v] >= floor'[v] /\ hist'[ptr'[v]].key = Key(v)'
    <3>1. CASE v = w
      BY <1>2, <2>1, <2>6, <3>1 DEF DataAt
    <3>2. CASE v # w
      BY <1>1, <1>2, <2>1, <2>2, <3>2 DEF PutGetInv, Reading, DataAt
    <3> QED
      BY <3>1, <3>2
  <2> QED
    BY <2>7 DEF Reading
<1> QED
  BY <1>3, <1>4, <1>5 DEF PutGetInv

\* getMapLock and putToLog.
LEMMA PutLogPutGet ==
  ASSUME PutGetInv, IndInv', NEW w \in Workers, PutLog(w)
  PROVE  PutGetInv'
<1> DEFINE e == Entry(seqID + 1, "PUT", Key(w), cmd[w].new)
<1>1. /\ pc[w] = "put" /\ pc' = [pc EXCEPT ![w] = "putStore"]
      /\ seqID' = seqID + 1 /\ seq' = [seq EXCEPT ![w] = seqID + 1]
      /\ hist' = Append(hist, e) /\ heap' = Append(heap, 0)
      /\ UNCHANGED <<cmd, ptr, table, freed, out, floor>>
  BY DEF PutLog, TakeLockAndLog, Goto, ghostVars
<1>2. /\ \A v \in Workers \ {w} : pc'[v] = pc[v] /\ seq'[v] = seq[v]
      /\ pc'[w] = "putStore" /\ seq'[w] = seqID + 1 /\ \A v \in Workers : Key(v)' = Key(v)
  BY <1>1 DEF PutGetInv, IndInv, TypeOK, Key
<1>3. e.seq = seqID + 1 /\ e.op = "PUT" /\ e.key = Key(w) /\ e.val = cmd[w].new /\ e \in EntryType
  BY PutGetFacts DEF Entry, EntryType
<1> HIDE DEF e
<1>4. /\ hist'[seqID + 1] = e /\ \A s \in 1 .. seqID : hist'[s] = hist[s] /\ heap'[s] = heap[s]
  BY <1>1, <1>3, PutGetFacts
<1>0. UNCHANGED <<cmd, ptr, table, floor>>
  BY <1>1
<1>5. \A v \in Workers : Serving(v)'
  BY <1>1, <1>2 DEF PutGetInv, Serving, PutPlaces, GetPlaces
<1>6. HistPuts'
  <2>1. \A s \in 1 .. seqID' : hist'[s].seq = s /\ hist'[s].op = "PUT" /\ hist'[s].val \in Values
    <3>1. \A s \in 1 .. seqID + 1 : s \in 1 .. seqID \/ s = seqID + 1
      BY PutGetFacts
    <3> QED
      BY <1>1, <1>3, <1>4, <3>1, PutGetFacts DEF PutGetInv, HistPuts
  <2>2. ASSUME NEW v \in Workers, pc'[v] \in PutPlaces \ {"put"}
        PROVE  hist'[seq'[v]].val = cmd'[v].new
    <3>1. CASE v = w
      BY <1>0, <1>2, <1>3, <1>4, <3>1
    <3>2. CASE v # w
      <4>1. pc[v] \in {"putStore", "push", "ack"} /\ seq'[v] = seq[v]
        BY <1>2, <2>2, <3>2 DEF PutPlaces
      <4>2. seq[v] \in 1 .. seqID
        BY <4>1, PutGetFacts
      <4> QED
        BY <1>0, <1>4, <4>1, <4>2 DEF PutGetInv, HistPuts, PutPlaces
    <3> QED
      BY <3>1, <3>2
  <2> QED
    BY <2>1, <2>2 DEF HistPuts
<1>7. FreshCells'
  <2>1. \A k \in Keys : table[k] # Absent => table[k] \in 1 .. seqID /\ heap[table[k]] = table[k]
    BY DEF PutGetInv, FreshCells
  <2> QED
    BY <1>1, <1>4, <2>1, PutGetFacts DEF FreshCells
<1>8. \A k \in Keys : DataAt(k)' = DataAt(k)
  <2>1. \A k \in Keys : table[k] \in 0 .. seqID
    BY PutGetFacts
  <2> QED
    BY <1>1, <1>4, <2>1, PutGetFacts DEF DataAt, IsCell
<1>9. Reading'
  <2>1. \A v \in Workers : pc'[v] \in GetPlaces => v # w /\ pc'[v] = pc[v]
    BY <1>2 DEF GetPlaces
  <2>2. \A v \in Workers : pc[v] = "getSend" => ptr[v] \in 1 .. seqID
    BY PutGetFacts
  <2>3. \A v \in Workers : Key(v) \in Keys
    BY PutGetFacts
  <2> QED
    BY <1>0, <1>2, <1>4, <1>8, <2>1, <2>2, <2>3 DEF PutGetInv, Reading, GetPlaces
<1>10. PushFaithful'
  <2>1. \A j \in 1 .. Len(out) : out[j].seq \in 1 .. seqID
    BY DEF PutGetInv, IndInv, PushedOnce
  <2> QED
    BY <1>1, <1>4, <2>1 DEF PutGetInv, PushFaithful
<1> QED
  BY <1>5, <1>6, <1>7, <1>9, <1>10 DEF PutGetInv

\* The new Cell is stored: the data under the key only becomes newer.
LEMMA PutStorePutGet ==
  ASSUME PutGetOnly, PutGetInv, IndInv', NEW w \in Workers, PutStore(w)
  PROVE  PutGetInv'
<1>1. /\ pc[w] = "putStore" /\ pc' = [pc EXCEPT ![w] = "push"]
      /\ table' = [table EXCEPT ![Key(w)] = seq[w]]
      /\ heap' = [heap EXCEPT ![seq[w]] = seq[w]]
      /\ UNCHANGED <<cmd, seq, ptr, seqID, freed, out, hist, floor>>
  BY AlwaysInserts DEF PutStore, StoreNew, Unlock, Goto, ghostVars
<1>2. /\ \A v \in Workers \ {w} : pc'[v] = pc[v]
      /\ pc'[w] = "push" /\ \A v \in Workers : Key(v)' = Key(v)
  BY <1>1 DEF PutGetInv, IndInv, TypeOK, Key
<1>3. seq[w] = seqID /\ seqID \in 1 .. seqID /\ Key(w) \in Keys
  BY <1>1, PutGetFacts
<1>4. /\ \A k \in Keys : table'[k] = (IF k = Key(w) THEN seqID ELSE table[k])
      /\ \A s \in 1 .. seqID : heap'[s] = (IF s = seqID THEN seqID ELSE heap[s])
  BY <1>1, <1>3, PutGetFacts DEF TypeOK
<1>5. \A v \in Workers : Serving(v)'
  BY <1>1, <1>2 DEF PutGetInv, Serving, PutPlaces, GetPlaces
<1>6. HistPuts' /\ PushFaithful'
  BY <1>1, <1>2 DEF PutGetInv, HistPuts, PushFaithful, PutPlaces
<1>7. FreshCells'
  BY <1>1, <1>3, <1>4 DEF PutGetInv, FreshCells
<1>8. \A k \in Keys : DataAt(k)' = table'[k] /\ table'[k] >= table[k] /\ table[k] \in Nat
  <2>1. \A k \in Keys : table[k] \in 0 .. seqID /\ table'[k] \in 0 .. seqID
    BY <1>3, <1>4, PutGetFacts
  <2>2. \A k \in Keys : table'[k] > 0 => heap'[table'[k]] = table'[k]
    BY <1>3, <1>4, <2>1, PutGetFacts
  <2> QED
    BY <1>3, <1>4, <2>1, <2>2 DEF DataAt, IsCell
<1>9. Reading'
  <2>1. \A v \in Workers : pc'[v] \in GetPlaces => v # w /\ pc'[v] = pc[v]
    BY <1>2 DEF GetPlaces
  <2>2. \A v \in Workers : Key(v) \in Keys /\ floor[v] \in Nat
    BY PutGetFacts DEF TypeOK
  <2>3. \A k \in Keys : /\ table[k] # Absent => table'[k] # Absent
                        /\ DataAt(k)' >= DataAt(k) /\ DataAt(k) \in Nat /\ DataAt(k)' \in Nat
    BY <1>3, <1>4, <1>8, PutGetFacts DEF Absent
  <2>4. ASSUME NEW v \in Workers, pc'[v] \in {"get", "getRead"} PROVE floor'[v] <= DataAt(Key(v))'
    <3>1. floor[v] <= DataAt(Key(v))
      BY <2>1, <2>4 DEF PutGetInv, Reading, GetPlaces
    <3>2. floor[v] <= DataAt(Key(v))'
      <4> DEFINE k == Key(v)
      <4>1. k \in Keys /\ DataAt(k)' >= DataAt(k) /\ DataAt(k) \in Nat /\ DataAt(k)' \in Nat
        BY <2>2, <2>3, <1>2
      <4> QED
        BY <1>2, <2>2, <3>1, <4>1 DEF DataAt
    <3> QED
      BY <1>1, <3>2
  <2> QED
    BY <1>1, <1>2, <2>1, <2>2, <2>3, <2>4 DEF PutGetInv, Reading, GetPlaces
<1> QED
  BY <1>5, <1>6, <1>7, <1>9 DEF PutGetInv

\* A worker that moves on, with table, log and stream as they are.
LEMMA QuietPutGet ==
  ASSUME PutGetInv, IndInv', NEW w \in Workers,
         \A v \in Workers \ {w} : pc'[v] = pc[v] /\ ptr'[v] = ptr[v],
         Serving(w)',
         pc'[w] \in PutPlaces => pc[w] \in PutPlaces \ {"put"} /\ pc'[w] # "put",
         pc'[w] # "get",
         pc'[w] \in {"getRead", "getSend", "getEnd"} => table[Key(w)] # Absent,
         pc'[w] = "getRead" => pc[w] = "get",
         pc'[w] = "getSend" => ptr'[w] >= floor[w] /\ hist[ptr'[w]].key = Key(w),
         UNCHANGED <<cmd, seq, seqID, table, heap, freed, hist, floor>>,
         PushFaithful'
  PROVE  PutGetInv'
<1>1. \A v \in Workers : Key(v)' = Key(v)
  BY DEF Key
<1>2. \A k : DataAt(k)' = DataAt(k)
  BY DEF DataAt
<1>3. \A v \in Workers : Serving(v)'
  BY DEF PutGetInv, Serving
<1>4. HistPuts' /\ FreshCells'
  BY DEF PutGetInv, HistPuts, FreshCells, PutPlaces
<1>5. Reading'
  BY <1>1, <1>2 DEF PutGetInv, Reading
<1> QED
  BY <1>3, <1>4, <1>5 DEF PutGetInv

\* The stream to the replicas and the reply.
LEMMA PushPutGet ==
  ASSUME PutGetInv, IndInv', NEW w \in Workers, Push(w) \/ Ack(w)
  PROVE  PutGetInv'
<1>1. /\ UNCHANGED <<cmd, seq, ptr, seqID, table, heap, freed, hist, floor>>
      /\ \/ pc[w] = "push" /\ pc' = [pc EXCEPT ![w] = "ack"]
         \/ pc[w] = "ack" /\ pc' = [pc EXCEPT ![w] = "idle"]
  BY DEF Push, Ack, Answer, Goto, heapVars, ghostVars
<1>2. /\ \A v \in Workers \ {w} : pc'[v] = pc[v]
      /\ \/ pc[w] = "push" /\ pc'[w] = "ack"
         \/ pc[w] = "ack" /\ pc'[w] = "idle"
  BY <1>1 DEF PutGetInv, IndInv, TypeOK
<1>3. Serving(w)'
  BY <1>1, <1>2 DEF PutGetInv, Serving, PutPlaces, GetPlaces
<1>4. PushFaithful'
  <2>1. CASE Push(w)
    <3> DEFINE e == Entry(seq[w], hist[seq[w]].op, Key(w), hist[seq[w]].val)
    <3>1. out' = Append(out, e)
      BY <2>1, PutGetFacts DEF Push
    <3>2. seq[w] \in 1 .. seqID /\ hist[seq[w]].key = Key(w) /\ hist[seq[w]].seq = seq[w]
      BY <2>1, PutGetFacts DEF Push, PutGetInv, HistPuts
    <3>3. hist[seq[w]] \in EntryType
      BY <3>2, PutGetFacts
    <3>4. e = hist[seq[w]] /\ e.seq = seq[w]
      BY <3>2, <3>3 DEF Entry, EntryType
    <3>5. out \in Seq(SentType) /\ Len(out) \in Nat
      BY PutGetFacts DEF TypeOK
    <3> HIDE DEF e
    <3>6. \A j \in 1 .. Len(out') : (j \in 1 .. Len(out) /\ out'[j] = out[j]) \/ out'[j] = e
      BY <3>1, <3>5
    <3> QED
      BY <1>1, <3>4, <3>6 DEF PutGetInv, PushFaithful
  <2>2. CASE Ack(w)
    BY <1>1, <2>2 DEF Ack, PutGetInv, PushFaithful
  <2> QED
    BY <2>1, <2>2
<1> QED
  BY <1>1, <1>2, <1>3, <1>4, QuietPutGet DEF PutPlaces

\* A GET.
LEMMA GetPutGet ==
  ASSUME PutGetInv, IndInv', NEW w \in Workers,
         GetCheck(w) \/ GetRead(w) \/ GetSend(w) \/ GetEnd(w)
  PROVE  PutGetInv'
<1>1. /\ UNCHANGED <<cmd, seq, seqID, table, heap, freed, hist, floor, out>>
      /\ \E l \in {"getRead", "getSend", "getEnd", "idle"} : pc' = [pc EXCEPT ![w] = l]
      /\ \A v \in Workers \ {w} : ptr'[v] = ptr[v]
  BY DEF GetCheck, GetRead, GetSend, GetEnd, Answer, Goto, heapVars, ghostVars, PutGetInv, IndInv, TypeOK
<1>2. /\ \A v \in Workers \ {w} : pc'[v] = pc[v]
      /\ pc'[w] \in {"getRead", "getSend", "getEnd", "idle"}
  BY <1>1 DEF PutGetInv, IndInv, TypeOK
<1>3. pc[w] \in GetPlaces /\ cmd[w].op = "GET"
  BY DEF GetCheck, GetRead, GetSend, GetEnd, GetPlaces, PutGetInv, Serving, PutPlaces
<1>4. Serving(w)' /\ PushFaithful'
  BY <1>1, <1>2, <1>3 DEF PutGetInv, Serving, GetPlaces, PushFaithful
<1>5. pc'[w] = "getRead" => pc[w] = "get" /\ table[Key(w)] # Absent
  BY DEF GetCheck, GetRead, GetSend, GetEnd, Answer, Goto, Finds, PutGetInv, IndInv, TypeOK
<1>6. pc'[w] = "getSend" => /\ table[Key(w)] # Absent
                            /\ ptr'[w] >= floor[w] /\ hist[ptr'[w]].key = Key(w)
  <2>1. SUFFICES ASSUME pc'[w] = "getSend" PROVE
                            /\ table[Key(w)] # Absent
                            /\ ptr'[w] >= floor[w] /\ hist[ptr'[w]].key = Key(w)
    OBVIOUS
  <2>2. pc[w] = "getRead" /\ IsCell(table[Key(w)]) /\ ptr' = [ptr EXCEPT ![w] = heap[table[Key(w)]]]
    BY <2>1 DEF GetCheck, GetRead, GetSend, GetEnd, Answer, Goto, PutGetInv, IndInv, TypeOK
  <2>3. Key(w) \in Keys /\ table[Key(w)] \in 0 .. seqID /\ table[Key(w)] > 0 /\ seqID \in Nat
    BY <2>2, PutGetFacts DEF IsCell
  <2>4. heap[table[Key(w)]] = table[Key(w)] /\ hist[table[Key(w)]].key = Key(w)
    BY <2>3, PutGetFacts
  <2>5. ptr'[w] = table[Key(w)]
    BY <2>2, <2>4 DEF PutGetInv, IndInv, TypeOK
  <2>6. floor[w] <= table[Key(w)] /\ floor[w] \in Nat
    BY <2>2, <2>3, PutGetFacts DEF PutGetInv, Reading, IndInv, TypeOK
  <2> QED
    BY <2>3, <2>4, <2>5, <2>6 DEF Absent
<1>7. pc'[w] = "getEnd" => table[Key(w)] # Absent
  BY DEF GetCheck, GetRead, GetSend, GetEnd, Answer, Goto, PutGetInv, Reading, IndInv, TypeOK
<1> QED
  BY <1>1, <1>2, <1>3, <1>4, <1>5, <1>6, <1>7, QuietPutGet DEF PutPlaces, GetPlaces

LEMMA NextPutGet == ASSUME PutGetOnly PROVE PutGetInv /\ [Next]_vars => PutGetInv'
<1> SUFFICES ASSUME PutGetInv, [Next]_vars PROVE PutGetInv'
  OBVIOUS
<1>0. IndInv'
  BY NextInv DEF PutGetInv
<1>1. ASSUME NEW w \in Workers, Receive(w) PROVE PutGetInv'
  BY <1>0, <1>1, ReceivePutGet
<1>2. ASSUME NEW w \in Workers, Step(w) PROVE PutGetInv'
  BY <1>0, <1>2, PutGetSteps, PutLogPutGet, PutStorePutGet, PushPutGet, GetPutGet
<1>3. ASSUME UNCHANGED <<pc, cmd, seq, ptr, seqID, table, heap, freed, hist, floor, out>>
      PROVE  PutGetInv'
  BY <1>0, <1>3 DEF PutGetInv, Serving, HistPuts, FreshCells, Reading, PushFaithful, Key, DataAt
<1>4. CASE CkptRename \/ CkptTruncate \/ Fault \/ MayFault \/ Closeall \/ UNCHANGED vars
  BY <1>3, <1>4 DEF CkptRename, CkptTruncate, Fault, MayFault, Closeall, Die, vars, heapVars, ghostVars
<1> QED
  BY <1>1, <1>2, <1>4 DEF Next

\* PutGetInv, the inductive invariant of a server whose clients PUT and GET.
THEOREM PutGetInvariance == ASSUME PutGetOnly PROVE Spec => []PutGetInv
BY InitPutGet, NextPutGet, PTL DEF Spec

\* FaultOnlyByMiss: although a GET looks the table up three times and never takes
\* the lock, it meets no null or freed pointer and no key that is gone, and neither
\* does a PUT, its push or the checkpointing.  What is left is that map::at misses a
\* key while another thread enters one.
THEOREM PutGetFaultOnlyByMiss == ASSUME PutGetOnly PROVE Spec => []FaultOnlyByMiss
<1>1. PutGetInv => FaultOnlyByMiss
  <2> SUFFICES ASSUME PutGetInv PROVE FaultOnlyByMiss
    OBVIOUS
  <2>1. \A k \in Keys : table[k] # NullPtr /\ (table[k] # Absent => IsCell(table[k]))
    BY PutGetFacts DEF NullPtr, Absent, IsCell
  <2>2. ~NullInTable
    BY <2>1 DEF NullInTable
  <2>3. freed = {} /\ \A k \in Keys : ~Stale(k)
    BY PutGetFacts DEF Stale
  <2>4. ASSUME NEW w \in Workers PROVE ~Doomed(w) /\ ~Damaged(w)
    <3>1. pc[w] \in {"idle"} \cup PutPlaces \cup GetPlaces
      BY DEF PutGetInv, Serving
    <3>2. InsertsCell(w)
      BY AlwaysInserts
    <3>3. pc[w] \in {"getRead", "getEnd"} => IsCell(table[Key(w)])
      BY <2>1, PutGetFacts DEF PutGetInv, Reading
    <3>4. ~Doomed(w)
      BY <3>1, <3>2, <3>3 DEF Doomed, PutPlaces, GetPlaces
    <3>5. Key(w) \in Keys
      BY PutGetFacts
    <3>6. ~Damaged(w)
      BY <2>3, <3>1, <3>5 DEF Damaged, PutPlaces, GetPlaces
    <3> QED
      BY <3>4, <3>6
  <2> QED
    BY <2>2, <2>3, <2>4 DEF FaultOnlyByMiss, CkptDoomed, CkptDamaged
<1> QED
  BY <1>1, PutGetInvariance, PTL

\* PushFaithful: push, which reads the data after the lock is released, sends
\* what was logged.
THEOREM PutGetPushFaithful == ASSUME PutGetOnly PROVE Spec => []PushFaithful
<1>1. PutGetInv => PushFaithful
  BY DEF PutGetInv
<1> QED
  BY <1>1, PutGetInvariance, PTL

\* GetRegular: a GET answers with data of its key that is no older than what was
\* there when it arrived.
THEOREM PutGetRegular == ASSUME PutGetOnly PROVE Spec => GetRegular
<1> DEFINE Regular ==
      \A w \in Workers :
        (pc[w] = "getSend" /\ pc'[w] = "getEnd") =>
          ptr[w] >= floor[w] /\ hist[ptr[w]].key = Key(w) /\ reply'[w] = hist[ptr[w]].val
<1>1. PutGetInv /\ [Next]_vars => [Regular]_vars
  <2> SUFFICES ASSUME PutGetInv, Next, NEW w \in Workers, pc[w] = "getSend", pc'[w] = "getEnd"
               PROVE  ptr[w] >= floor[w] /\ hist[ptr[w]].key = Key(w) /\ reply'[w] = hist[ptr[w]].val
    OBVIOUS
  <2>1. ASSUME NEW v \in Workers, Receive(v) \/ Step(v), v # w PROVE pc'[w] = pc[w]
    <3>1. \E l : pc' = [pc EXCEPT ![v] = l]
      BY <2>1, PutGetSteps DEF Receive, PutLog, PutStore, Push, Ack, GetCheck, GetRead, GetSend,
                               GetEnd, TakeLockAndLog, Unlock, Answer, Goto
    <3> QED
      BY <2>1, <3>1 DEF PutGetInv, IndInv, TypeOK
  <2>2. GetSend(w)
    <3>1. ~Receive(w)
      BY DEF Receive
    <3>2. Step(w) => GetSend(w)
      BY PutGetSteps DEF PutLog, PutStore, Push, Ack, GetCheck, GetRead, GetEnd
    <3>3. ~(CkptRename \/ CkptTruncate \/ Fault \/ MayFault \/ Closeall)
      BY DEF CkptRename, CkptTruncate, Fault, MayFault, Closeall, Die
    <3> QED
      BY <2>1, <3>1, <3>2, <3>3 DEF Next
  <2>3. reply' = [reply EXCEPT ![w] = hist[ptr[w]].val]
    BY <2>2, PutGetFacts DEF GetSend
  <2> QED
    BY <2>3 DEF PutGetInv, Reading, IndInv, TypeOK
<1> QED
  BY <1>1, PutGetInvariance, PTL DEF Spec, GetRegular

-----------------------------------------------------------------------------
(***************************************************************************)
(* The refinement.  The three variables of KVMap that are not variables of *)
(* the server, as the mapping in DataServer defines them.                  *)
(***************************************************************************)
kvBar == [k \in Keys |-> Stored(k)]

stateBar == [w \in Workers |-> CASE pc[w] = "idle" -> "idle"
                                [] pc[w] \in {"push", "ack", "getSend", "getEnd"} -> "done"
                                [] OTHER -> "pending"]

ansBar == [w \in Workers |-> CASE pc[w] \in {"push", "ack"} -> "+OK"
                              [] pc[w] = "getSend" -> hist[ptr[w]].val
                              [] OTHER -> reply[w]]

\* The value of a key is that of the PUT whose Cell is in the table.
LEMMA StoredValue ==
  ASSUME PutGetInv, NEW k \in Keys
  PROVE  /\ table[k] = 0 => Stored(k) = Nil
         /\ table[k] # 0 => table[k] \in 1 .. seqID /\ Stored(k) = hist[table[k]].val /\ Stored(k) # Nil
<1>1. table[k] \in 0 .. seqID /\ seqID \in Nat
  BY PutGetFacts
<1>2. table[k] # 0 => table[k] > 0 /\ heap[table[k]] = table[k] /\ table[k] \in 1 .. seqID
  BY <1>1, PutGetFacts
<1>3. \A t \in 1 .. seqID : hist[t].val # Nil
  BY ConstantsAssumption DEF PutGetInv, HistPuts
<1> QED
  BY <1>1, <1>2, <1>3 DEF Stored, IsCell

\* A step that leaves the table and the log as they are keeps the map.
LEMMA SameMap ==
  ASSUME UNCHANGED <<table, heap, hist>>
  PROVE  kvBar' = kvBar
BY DEF kvBar, Stored

\* A step of w changes only what w's client sees.
LEMMA OwnClient ==
  ASSUME PutGetInv, NEW w \in Workers,
         \A v \in Workers \ {w} : pc'[v] = pc[v] /\ ptr'[v] = ptr[v] /\ reply'[v] = reply[v],
         \A s \in 1 .. seqID : hist'[s] = hist[s]
  PROVE  /\ stateBar' = [stateBar EXCEPT ![w] = stateBar'[w]]
         /\ ansBar' = [ansBar EXCEPT ![w] = ansBar'[w]]
<1>1. \A v \in Workers : pc[v] = "getSend" => ptr[v] \in 1 .. seqID
  BY PutGetFacts
<1>2. stateBar' = [stateBar EXCEPT ![w] = stateBar'[w]]
  BY DEF stateBar
<1>3. ansBar' = [ansBar EXCEPT ![w] = ansBar'[w]]
  <2>1. \A v \in Workers \ {w} : ansBar'[v] = ansBar[v]
    BY <1>1 DEF ansBar
  <2>2. ansBar' = [v \in Workers |-> ansBar'[v]] /\ ansBar = [v \in Workers |-> ansBar[v]]
    BY DEF ansBar
  <2> HIDE DEF ansBar
  <2> QED
    BY <2>1, <2>2
<1> QED
  BY <1>2, <1>3

\* A step after which w's client sees what it saw before.
LEMMA SameClient ==
  ASSUME NEW w \in Workers, stateBar'[w] = stateBar[w], ansBar'[w] = ansBar[w],
         stateBar' = [stateBar EXCEPT ![w] = stateBar'[w]],
         ansBar' = [ansBar EXCEPT ![w] = ansBar'[w]]
  PROVE  stateBar' = stateBar /\ ansBar' = ansBar
<1>1. stateBar = [stateBar EXCEPT ![w] = stateBar[w]]
  BY DEF stateBar
<1>2. ansBar = [ansBar EXCEPT ![w] = ansBar[w]]
  BY DEF ansBar
<1> QED
  BY <1>1, <1>2

\* What one worker's client sees, by its place.
LEMMA Views ==
  ASSUME NEW w \in Workers
  PROVE  /\ pc[w] = "idle" => stateBar[w] = "idle" /\ ansBar[w] = reply[w]
         /\ pc[w] \in {"put", "putStore", "get", "getRead"} =>
              stateBar[w] = "pending" /\ ansBar[w] = reply[w]
         /\ pc[w] \in {"push", "ack"} => stateBar[w] = "done" /\ ansBar[w] = "+OK"
         /\ pc[w] = "getSend" => stateBar[w] = "done" /\ ansBar[w] = hist[ptr[w]].val
         /\ pc[w] = "getEnd" => stateBar[w] = "done" /\ ansBar[w] = reply[w]
BY DEF stateBar, ansBar

LEMMA ViewsPrime ==
  ASSUME NEW w \in Workers
  PROVE  /\ pc'[w] = "idle" => stateBar'[w] = "idle" /\ ansBar'[w] = reply'[w]
         /\ pc'[w] \in {"put", "putStore", "get", "getRead"} =>
              stateBar'[w] = "pending" /\ ansBar'[w] = reply'[w]
         /\ pc'[w] \in {"push", "ack"} => stateBar'[w] = "done" /\ ansBar'[w] = "+OK"
         /\ pc'[w] = "getSend" => stateBar'[w] = "done" /\ ansBar'[w] = hist'[ptr'[w]].val
         /\ pc'[w] = "getEnd" => stateBar'[w] = "done" /\ ansBar'[w] = reply'[w]
BY DEF stateBar, ansBar

\* The stuttering steps.
LEMMA StutterRefines ==
  ASSUME UNCHANGED <<alive, cmd, kvBar, stateBar, ansBar>>
  PROVE  UNCHANGED KV!kvVars
BY DEF KV!kvVars, kvBar, stateBar, ansBar

\* Receive is Invoke.
LEMMA ReceiveRefines ==
  ASSUME PutGetOnly, PutGetInv, NEW w \in Workers, Receive(w)
  PROVE  KV!Invoke(w)
<1>0. PICK c \in Commands : /\ cmd' = [cmd EXCEPT ![w] = c]
                            /\ pc' = [pc EXCEPT ![w] = Start(c.op)]
  BY DEF Receive, Goto
<1>1. /\ alive /\ pc[w] = "idle" /\ reply' = [reply EXCEPT ![w] = "none"]
      /\ UNCHANGED <<alive, ptr, table, heap, hist>>
      /\ Start(c.op) \in {"put", "get"}
  BY DEF Receive, heapVars, PutGetOnly, Start
<1>2. /\ \A v \in Workers \ {w} : pc'[v] = pc[v] /\ ptr'[v] = ptr[v] /\ reply'[v] = reply[v]
      /\ \A s \in 1 .. seqID : hist'[s] = hist[s]
      /\ pc'[w] \in {"put", "get"} /\ reply'[w] = "none"
  BY <1>0, <1>1 DEF PutGetInv, IndInv, TypeOK
<1>3. kvBar' = kvBar
  BY <1>1, SameMap
<1>4. stateBar[w] = "idle" /\ stateBar'[w] = "pending" /\ ansBar'[w] = "none"
  BY <1>1, <1>2, Views, ViewsPrime
<1>5. stateBar' = [stateBar EXCEPT ![w] = "pending"] /\ ansBar' = [ansBar EXCEPT ![w] = "none"]
  BY <1>2, <1>4, OwnClient
<1> QED
  BY <1>0, <1>1, <1>3, <1>4, <1>5 DEF KV!Invoke, kvBar, stateBar, ansBar

\* PutLog is not seen.
LEMMA PutLogRefines ==
  ASSUME PutGetInv, NEW w \in Workers, PutLog(w)
  PROVE  UNCHANGED KV!kvVars
<1> DEFINE e == Entry(seqID + 1, "PUT", Key(w), cmd[w].new)
<1>1. /\ pc[w] = "put" /\ pc' = [pc EXCEPT ![w] = "putStore"]
      /\ hist' = Append(hist, e) /\ heap' = Append(heap, 0)
      /\ UNCHANGED <<alive, cmd, ptr, reply, table>>
  BY DEF PutLog, TakeLockAndLog, Goto
<1> HIDE DEF e
<1>2. \A s \in 1 .. seqID : hist'[s] = hist[s] /\ heap'[s] = heap[s]
  BY <1>1, PutGetFacts
<1>3. /\ \A v \in Workers \ {w} : pc'[v] = pc[v] /\ ptr'[v] = ptr[v] /\ reply'[v] = reply[v]
      /\ pc'[w] = "putStore" /\ reply'[w] = reply[w]
  BY <1>1 DEF PutGetInv, IndInv, TypeOK
<1>4. kvBar' = kvBar
  <2>1. ASSUME NEW k \in Keys PROVE Stored(k)' = Stored(k)
    <3>1. table'[k] = table[k] /\ table[k] \in 0 .. seqID /\ seqID \in Nat
      BY <1>1, PutGetFacts
    <3>2. IsCell(table[k]) => table[k] \in 1 .. seqID /\ heap[table[k]] = table[k]
      BY <3>1, PutGetFacts DEF IsCell
    <3> QED
      BY <1>2, <3>1, <3>2 DEF Stored, IsCell
  <2> QED
    BY <2>1 DEF kvBar
<1>5. stateBar'[w] = stateBar[w] /\ ansBar'[w] = ansBar[w]
  BY <1>1, <1>3, Views, ViewsPrime
<1>6. stateBar' = stateBar /\ ansBar' = ansBar
  BY <1>2, <1>3, <1>5, OwnClient, SameClient
<1> QED
  BY <1>1, <1>4, <1>6, StutterRefines

\* PutStore is Put.
LEMMA PutStoreRefines ==
  ASSUME PutGetOnly, PutGetInv, NEW w \in Workers, PutStore(w)
  PROVE  KV!Put(w)
<1>1. /\ alive /\ pc[w] = "putStore" /\ pc' = [pc EXCEPT ![w] = "push"]
      /\ table' = [table EXCEPT ![Key(w)] = seq[w]]
      /\ heap' = [heap EXCEPT ![seq[w]] = seq[w]]
      /\ UNCHANGED <<alive, cmd, ptr, reply, hist>>
  BY AlwaysInserts DEF PutStore, StoreNew, Unlock, Goto
<1>2. /\ seq[w] = seqID /\ seqID \in Nat /\ seqID \in 1 .. seqID /\ Key(w) \in Keys /\ cmd[w].op = "PUT"
      /\ hist[seqID].val = cmd[w].new
  BY <1>1, PutGetFacts DEF PutGetInv, Serving, PutPlaces, GetPlaces, HistPuts
<1>3. /\ \A v \in Workers \ {w} : pc'[v] = pc[v] /\ ptr'[v] = ptr[v] /\ reply'[v] = reply[v]
      /\ \A s \in 1 .. seqID : hist'[s] = hist[s]
      /\ pc'[w] = "push"
  BY <1>1 DEF PutGetInv, IndInv, TypeOK
<1>4. /\ \A k \in Keys : table'[k] = (IF k = Key(w) THEN seqID ELSE table[k])
      /\ \A s \in 1 .. seqID : heap'[s] = (IF s = seqID THEN seqID ELSE heap[s])
  BY <1>1, <1>2, PutGetFacts DEF TypeOK
<1>5. kvBar' = [kvBar EXCEPT ![Key(w)] = cmd[w].new]
  <2>1. ASSUME NEW k \in Keys
        PROVE  Stored(k)' = IF k = Key(w) THEN cmd[w].new ELSE Stored(k)
    <3>1. CASE k = Key(w)
      <4>1. IsCell(table'[k]) /\ heap'[table'[k]] = seqID
        BY <1>2, <1>4, <3>1 DEF IsCell
      <4> QED
        BY <1>1, <1>2, <3>1, <4>1 DEF Stored
    <3>2. CASE k # Key(w)
      <4>1. table'[k] = table[k] /\ table[k] \in 0 .. seqID
        BY <1>4, <3>2, PutGetFacts
      <4>2. IsCell(table[k]) => table[k] \in 1 .. seqID /\ heap[table[k]] = table[k]
                                /\ heap'[table[k]] = table[k]
        BY <1>2, <1>4, <4>1, PutGetFacts DEF IsCell
      <4> QED
        BY <1>1, <3>2, <4>1, <4>2 DEF Stored
    <3> QED
      BY <3>1, <3>2
  <2> QED
    BY <1>2, <2>1 DEF kvBar
<1>6. stateBar[w] = "pending" /\ stateBar'[w] = "done" /\ ansBar'[w] = "+OK"
  BY <1>1, <1>3, Views, ViewsPrime
<1>7. stateBar' = [stateBar EXCEPT ![w] = "done"] /\ ansBar' = [ansBar EXCEPT ![w] = "+OK"]
  BY <1>3, <1>6, OwnClient
<1>8. KV!KeyOf(cmd[w]) = Key(w)
  BY DEF KV!KeyOf, Key
<1> QED
  BY <1>1, <1>2, <1>5, <1>6, <1>7, <1>8 DEF KV!Put, kvBar, stateBar, ansBar

\* Push is not seen, and Ack is Return.
LEMMA PushRefines ==
  ASSUME PutGetInv, NEW w \in Workers, Push(w) \/ Ack(w)
  PROVE  KV!Return(w) \/ UNCHANGED KV!kvVars
<1>1. /\ alive /\ UNCHANGED <<alive, cmd, ptr, table, heap, hist>>
      /\ \A s \in 1 .. seqID : hist'[s] = hist[s]
      /\ \A v \in Workers \ {w} : pc'[v] = pc[v] /\ ptr'[v] = ptr[v] /\ reply'[v] = reply[v]
      /\ \/ pc[w] = "push" /\ pc'[w] = "ack"
         \/ pc[w] = "ack" /\ pc'[w] = "idle" /\ reply'[w] = "+OK"
  <2>1. pc \in [Workers -> Places] /\ DOMAIN reply = Workers
    BY DEF PutGetInv, IndInv, TypeOK
  <2> QED
    BY <2>1 DEF Push, Ack, Answer, Goto, heapVars
<1>2. kvBar' = kvBar
  BY <1>1, SameMap
<1>3. stateBar[w] = "done" /\ ansBar[w] = "+OK" /\ ansBar'[w] = "+OK"
      /\ stateBar'[w] = (IF pc[w] = "push" THEN "done" ELSE "idle")
  BY <1>1, Views, ViewsPrime
<1>4. /\ stateBar' = [stateBar EXCEPT ![w] = stateBar'[w]]
      /\ ansBar' = [ansBar EXCEPT ![w] = ansBar'[w]]
  BY <1>1, OwnClient
<1>5. ansBar' = ansBar
  <2>1. ansBar = [ansBar EXCEPT ![w] = ansBar[w]]
    BY DEF ansBar
  <2> QED
    BY <1>3, <1>4, <2>1
<1>6. CASE pc[w] = "push"
  BY <1>1, <1>2, <1>3, <1>4, <1>6, SameClient, StutterRefines
<1>7. CASE pc[w] # "push"
  BY <1>1, <1>2, <1>3, <1>4, <1>5, <1>7 DEF KV!Return, kvBar, stateBar, ansBar
<1> QED
  BY <1>6, <1>7

\* GetCheck is Miss when it does not find the key, and else not seen.  It can
\* miss a key that is there only while a PUT inserts one that is not.
LEMMA GetCheckRefines ==
  ASSUME PutGetInv, NEW w \in Workers, GetCheck(w)
  PROVE  KV!Miss(w) \/ UNCHANGED KV!kvVars
<1>1. /\ alive /\ pc[w] = "get" /\ UNCHANGED <<alive, cmd, ptr, table, heap, hist>>
      /\ \A s \in 1 .. seqID : hist'[s] = hist[s]
      /\ \A v \in Workers \ {w} : pc'[v] = pc[v] /\ ptr'[v] = ptr[v] /\ reply'[v] = reply[v]
      /\ \/ pc'[w] = "getRead" /\ reply' = reply
         \/ FALSE \in Finds(Key(w)) /\ pc'[w] = "idle" /\ reply'[w] = "-ERR"
  <2>1. pc \in [Workers -> Places] /\ DOMAIN reply = Workers
    BY DEF PutGetInv, IndInv, TypeOK
  <2> QED
    BY <2>1 DEF GetCheck, Answer, Goto, heapVars
<1>2. kvBar' = kvBar
  BY <1>1, SameMap
<1>3. stateBar[w] = "pending" /\ ansBar[w] = reply[w] /\ Key(w) \in Keys /\ cmd[w].op = "GET"
  BY <1>1, Views, PutGetFacts DEF PutGetInv, Serving, PutPlaces
<1>4. /\ stateBar' = [stateBar EXCEPT ![w] = stateBar'[w]]
      /\ ansBar' = [ansBar EXCEPT ![w] = ansBar'[w]]
  BY <1>1, OwnClient
<1>5. CASE pc'[w] = "getRead"
  <2>1. stateBar'[w] = "pending" /\ ansBar'[w] = reply[w]
    BY <1>1, <1>5, ViewsPrime
  <2> QED
    BY <1>1, <1>2, <1>3, <1>4, <2>1, SameClient, StutterRefines
<1>6. CASE FALSE \in Finds(Key(w)) /\ pc'[w] = "idle" /\ reply'[w] = "-ERR"
  <2>1. stateBar'[w] = "idle" /\ ansBar'[w] = "-ERR"
    BY <1>6, ViewsPrime
  <2>2. kvBar[Key(w)] = Nil \/ \E v \in Workers : /\ stateBar[v] = "pending" /\ cmd[v].op = "PUT"
                                                 /\ kvBar[Key(v)] = Nil
    <3>1. table[Key(w)] = 0 \/ MapChanging
      BY <1>6 DEF Finds, Absent
    <3>2. CASE table[Key(w)] = 0
      BY <1>3, <3>2, StoredValue DEF kvBar
    <3>3. CASE MapChanging
      <4>1. PICK v \in Workers : pc[v] = "putStore" /\ table[Key(v)] = 0
        BY <3>3 DEF MapChanging, PutGetInv, Serving, PutPlaces, GetPlaces, Absent
      <4>2. Key(v) \in Keys /\ Stored(Key(v)) = Nil
        BY <4>1, PutGetFacts, StoredValue
      <4>3. stateBar[v] = "pending" /\ cmd[v].op = "PUT" /\ kvBar[Key(v)] = Nil
        BY <4>1, <4>2, Views DEF kvBar, PutGetInv, Serving, GetPlaces
      <4> QED
        BY <4>3
    <3> QED
      BY <3>1, <3>2, <3>3
  <2>3. \A v \in Workers : KV!KeyOf(cmd[v]) = Key(v)
    BY DEF KV!KeyOf, Key
  <2>4. kvBar[KV!KeyOf(cmd[w])] = Nil \/ KV!Inserting
    BY <2>2, <2>3 DEF KV!Inserting, kvBar, stateBar
  <2> QED
    BY <1>1, <1>2, <1>3, <1>4, <2>1, <2>4 DEF KV!Miss, kvBar, stateBar, ansBar
<1> QED
  BY <1>1, <1>5, <1>6

\* GetRead is Get.
LEMMA GetReadRefines ==
  ASSUME PutGetInv, NEW w \in Workers, GetRead(w)
  PROVE  KV!Get(w)
<1>1. /\ alive /\ pc[w] = "getRead" /\ pc' = [pc EXCEPT ![w] = "getSend"]
      /\ IsCell(table[Key(w)]) /\ ptr' = [ptr EXCEPT ![w] = heap[table[Key(w)]]]
      /\ UNCHANGED <<alive, cmd, reply, table, heap, hist>>
  BY DEF GetRead, Goto, heapVars
<1>2. /\ \A s \in 1 .. seqID : hist'[s] = hist[s]
      /\ \A v \in Workers \ {w} : pc'[v] = pc[v] /\ ptr'[v] = ptr[v] /\ reply'[v] = reply[v]
      /\ pc'[w] = "getSend" /\ ptr'[w] = heap[table[Key(w)]]
  BY <1>1 DEF PutGetInv, IndInv, TypeOK
<1>3. /\ Key(w) \in Keys /\ cmd[w].op = "GET"
      /\ kvBar[Key(w)] = hist[ptr'[w]].val /\ kvBar[Key(w)] # Nil
  <2>1. Key(w) \in Keys /\ cmd[w].op = "GET"
    BY <1>1, PutGetFacts DEF PutGetInv, Serving, PutPlaces
  <2>2. Stored(Key(w)) = hist[ptr'[w]].val
    BY <1>1, <1>2 DEF Stored
  <2>3. table[Key(w)] # 0
    BY <1>1, <2>1, PutGetFacts DEF IsCell
  <2> QED
    BY <2>1, <2>2, <2>3, StoredValue DEF kvBar
<1>4. kvBar' = kvBar
  BY <1>1, SameMap
<1>5. stateBar[w] = "pending" /\ stateBar'[w] = "done" /\ ansBar'[w] = kvBar[Key(w)]
  BY <1>1, <1>2, <1>3, Views, ViewsPrime
<1>6. stateBar' = [stateBar EXCEPT ![w] = "done"] /\ ansBar' = [ansBar EXCEPT ![w] = kvBar[Key(w)]]
  BY <1>2, <1>5, OwnClient
<1>7. KV!KeyOf(cmd[w]) = Key(w)
  BY DEF KV!KeyOf, Key
<1> QED
  BY <1>1, <1>3, <1>4, <1>5, <1>6, <1>7 DEF KV!Get, kvBar, stateBar, ansBar

\* GetSend is not seen, and GetEnd is Return.
LEMMA GetSendRefines ==
  ASSUME PutGetInv, NEW w \in Workers, GetSend(w) \/ GetEnd(w)
  PROVE  KV!Return(w) \/ UNCHANGED KV!kvVars
<1>1. /\ alive /\ UNCHANGED <<alive, cmd, ptr, table, heap, hist>>
      /\ \A s \in 1 .. seqID : hist'[s] = hist[s]
      /\ \A v \in Workers \ {w} : pc'[v] = pc[v] /\ ptr'[v] = ptr[v] /\ reply'[v] = reply[v]
      /\ \/ pc[w] = "getSend" /\ pc'[w] = "getEnd" /\ reply'[w] = hist[ptr[w]].val
         \/ pc[w] = "getEnd" /\ pc'[w] = "idle" /\ reply'[w] = reply[w]
  <2>1. pc \in [Workers -> Places] /\ DOMAIN reply = Workers /\ freed = {}
    BY DEF PutGetInv, IndInv, TypeOK, FreshCells
  <2> QED
    BY <2>1 DEF GetSend, GetEnd, Goto, heapVars
<1>2. kvBar' = kvBar
  BY <1>1, SameMap
<1>3. stateBar[w] = "done" /\ ansBar'[w] = ansBar[w]
      /\ stateBar'[w] = (IF pc[w] = "getSend" THEN "done" ELSE "idle")
  BY <1>1, Views, ViewsPrime
<1>4. /\ stateBar' = [stateBar EXCEPT ![w] = stateBar'[w]]
      /\ ansBar' = [ansBar EXCEPT ![w] = ansBar'[w]]
  BY <1>1, OwnClient
<1>5. ansBar' = ansBar
  <2>1. ansBar = [ansBar EXCEPT ![w] = ansBar[w]]
    BY DEF ansBar
  <2> QED
    BY <1>3, <1>4, <2>1
<1>6. CASE pc[w] = "getSend"
  BY <1>1, <1>2, <1>3, <1>4, <1>6, SameClient, StutterRefines
<1>7. CASE pc[w] # "getSend"
  BY <1>1, <1>2, <1>3, <1>4, <1>5, <1>7 DEF KV!Return, kvBar, stateBar, ansBar
<1> QED
  BY <1>6, <1>7

\* ImplementsKV: with PUT and GET only, every step of the server is a step of
\* the map of module KVMap, or leaves it as it is.
THEOREM PutGetImplementsKV == ASSUME PutGetOnly PROVE Spec => ImplementsKV
<1>1. Init => KV!Init
  <2> SUFFICES ASSUME Init PROVE KV!Init
    OBVIOUS
  <2>1. \A k \in Keys : Stored(k) = Nil
    BY DEF Init, Stored, IsCell, Absent
  <2>2. \A w \in Workers : pc[w] = "idle" /\ reply[w] = "none"
    BY DEF Init
  <2>3. kvBar = [k \in Keys |-> Nil]
    BY <2>1 DEF kvBar
  <2>4. stateBar = [w \in Workers |-> "idle"] /\ ansBar = [w \in Workers |-> "none"]
    BY <2>2 DEF stateBar, ansBar
  <2> QED
    BY <2>3, <2>4 DEF Init, KV!Init, kvBar, stateBar, ansBar
<1>2. PutGetInv /\ [Next]_vars => [KV!Next]_(KV!kvVars)
  <2> SUFFICES ASSUME PutGetInv, [Next]_vars PROVE KV!Next \/ UNCHANGED KV!kvVars
    OBVIOUS
  <2>1. ASSUME NEW w \in Workers, Receive(w) PROVE KV!Next
    BY <2>1, ReceiveRefines DEF KV!Next
  <2>2. ASSUME NEW w \in Workers, Step(w) PROVE KV!Next \/ UNCHANGED KV!kvVars
    BY <2>2, PutGetSteps, PutLogRefines, PutStoreRefines, PushRefines, GetCheckRefines,
       GetReadRefines, GetSendRefines DEF KV!Next
  <2>3. ASSUME UNCHANGED <<pc, ptr, reply, table, heap, hist>>
        PROVE  UNCHANGED <<kvBar, stateBar, ansBar>>
    BY <2>3 DEF kvBar, stateBar, ansBar, Stored
  <2>4. CASE CkptRename \/ CkptTruncate \/ UNCHANGED vars
    BY <2>3, <2>4, StutterRefines DEF CkptRename, CkptTruncate, vars, heapVars
  <2>5. CASE Fault \/ MayFault \/ Closeall
    <3>1. alive /\ alive' = FALSE /\ UNCHANGED <<cmd, kvBar, stateBar, ansBar>>
      BY <2>3, <2>5 DEF Fault, MayFault, Closeall, Die, heapVars
    <3>2. KV!Stop
      BY <3>1 DEF KV!Stop, kvBar, stateBar, ansBar
    <3> QED
      BY <3>2 DEF KV!Next
  <2> QED
    BY <2>1, <2>2, <2>4, <2>5 DEF Next
<1> QED
  BY <1>1, <1>2, PutGetInvariance, PTL DEF Spec, ImplementsKV, KV!Spec

-----------------------------------------------------------------------------
(***************************************************************************)
(* Recovery.  Target(k) is what RecoverableState says a restart finds      *)
(* under k.  LastLogged says the same of the two files without running the *)
(* replay: the last entry for k in the log, or else the checkpoint, has    *)
(* that value.                                                             *)
(***************************************************************************)
Target(k) == IF \E w \in Workers : pc[w] \in Updating /\ Key(w) = k
               THEN hist[seqID].val ELSE Stored(k)

\* Entry i of l is the last of the first n that is for key k.
LastOf(l, n, k, i) ==
  /\ i \in 1 .. n /\ l[i].key = k
  /\ \A j \in 1 .. n : j > i => l[j].key # k

LastLogged ==
  /\ \A k \in Keys :
       \/ ckpt.snap[k] = Target(k) /\ \A i \in 1 .. Len(log) : log[i].key # k
       \/ \E i \in 1 .. Len(log) : LastOf(log, Len(log), k, i) /\ log[i].val = Target(k)
  /\ ckptPc = "renamed" => \A k \in Keys : ckpt.snap[k] = Stored(k)

\* Every set of numbers has a least one.
LEMMA LeastNumber ==
  ASSUME NEW T, T \subseteq Nat, T # {}
  PROVE  \E x \in T : \A y \in T : x <= y
<1> DEFINE R == {ss \in Nat \X Nat : ss[1] < ss[2]}
<1>1. R = OpToRel(<, Nat)
  BY DEF OpToRel
<1>2. IsWellFoundedOn(R, Nat)
  BY <1>1, NatLessThanWellFounded
<1>3. PICK x \in T : \A y \in T : <<y, x>> \notin R
  <2> HIDE DEF R
  <2> QED
    BY <1>2, WFMin
<1>4. ASSUME NEW y \in T PROVE x <= y
  <2>1. x \in Nat /\ y \in Nat
    OBVIOUS
  <2>2. y < x => <<y, x>> \in R
    BY <2>1
  <2> QED
    BY <1>3, <2>1, <2>2
<1> QED
  BY <1>4

\* Induction up to N, with the set of the numbers for which the claim holds.
LEMMA InductionTo ==
  ASSUME NEW N \in Nat, NEW S, 0 \in S, \A n \in 0 .. N - 1 : n \in S => n + 1 \in S
  PROVE  0 .. N \subseteq S
<1>1. SUFFICES ASSUME (0 .. N) \ S # {} PROVE FALSE
  OBVIOUS
<1>2. PICK x \in (0 .. N) \ S : \A y \in (0 .. N) \ S : x <= y
  <2>1. (0 .. N) \ S \subseteq Nat
    OBVIOUS
  <2> QED
    BY <1>1, <2>1, LeastNumber
<1>3. x # 0 /\ x - 1 \in 0 .. N - 1 /\ x - 1 \in S
  BY <1>2
<1> QED
  BY <1>2, <1>3

\* What recoverLog does, as the equation of the function in Recovered.
ReplayStep(g, base, l, i) == IF i = 0 THEN base ELSE ReplayLogCommand(g[i-1], l[i])

\* There is such a function, because each of its values depends on an earlier one.
LEMMA ReplayExists ==
  ASSUME NEW base, NEW l, Len(l) \in Nat
  PROVE  \E g : g = [i \in 0 .. Len(l) |-> ReplayStep(g, base, l, i)]
<1> DEFINE S == {n \in 0 .. Len(l) : \E g : g = [i \in 0 .. n |-> ReplayStep(g, base, l, i)]}
<1>1. 0 \in S
  <2> DEFINE g == [i \in 0 .. 0 |-> base]
  <2>1. g = [i \in 0 .. 0 |-> ReplayStep(g, base, l, i)]
    BY DEF ReplayStep
  <2> HIDE DEF g
  <2> QED
    BY <2>1
<1>2. ASSUME NEW n \in 0 .. Len(l) - 1, n \in S PROVE n + 1 \in S
  <2>1. PICK g : g = [i \in 0 .. n |-> ReplayStep(g, base, l, i)]
    BY <1>2
  <2> DEFINE h == [i \in 0 .. n + 1 |-> IF i <= n THEN g[i] ELSE ReplayLogCommand(g[n], l[n + 1])]
  <2>2. \A i \in 0 .. n : h[i] = g[i] /\ g[i] = ReplayStep(g, base, l, i)
    BY <2>1
  <2>3. h[n + 1] = ReplayLogCommand(g[n], l[n + 1]) /\ h[n] = g[n]
    OBVIOUS
  <2>4. ASSUME NEW i \in 0 .. n + 1 PROVE h[i] = ReplayStep(h, base, l, i)
    <3>1. CASE i = n + 1
      BY <2>3, <3>1 DEF ReplayStep
    <3>2. CASE i # n + 1
      <4>1. i \in 0 .. n /\ (i # 0 => i - 1 \in 0 .. n)
        BY <3>2
      <4> QED
        BY <2>2, <4>1 DEF ReplayStep
    <3> QED
      BY <3>1, <3>2
  <2>5. h = [i \in 0 .. n + 1 |-> ReplayStep(h, base, l, i)]
    <3>1. h = [i \in 0 .. n + 1 |-> h[i]]
      OBVIOUS
    <3> HIDE DEF h
    <3> QED
      BY <2>4, <3>1
  <2> HIDE DEF h
  <2>6. n + 1 \in 0 .. Len(l)
    OBVIOUS
  <2> QED
    BY <2>5, <2>6
<1> HIDE DEF S
<1>3. \A n \in 0 .. Len(l) - 1 : n \in S => n + 1 \in S
  BY <1>2
<1>4. 0 .. Len(l) \subseteq S
  <2> DEFINE N == Len(l)
  <2>1. N \in Nat /\ \A n \in 0 .. N - 1 : n \in S => n + 1 \in S
    BY <1>3
  <2> HIDE DEF N
  <2>2. 0 .. N \subseteq S
    BY <1>1, <2>1, InductionTo
  <2> QED
    BY <2>2 DEF N
<1>5. Len(l) \in S
  BY <1>4
<1> QED
  BY <1>5 DEF S

\* What the replay of a log of PUTs has under a key after n entries: the value of
\* the last entry for the key, or what the checkpoint had.
LEMMA ReplayValue ==
  ASSUME NEW base \in [Keys -> Values \cup {Nil, Junk}], NEW l \in Seq(EntryType), NEW g,
         \A i \in 1 .. Len(l) : l[i].op = "PUT", Dotted = {},
         \A i \in 0 .. Len(l) : g[i] = ReplayStep(g, base, l, i)
  PROVE  LET n == Len(l) IN
           /\ g[n] \in [Keys -> Values \cup {Nil, Junk}]
           /\ \A k \in Keys :
                \/ g[n][k] = base[k] /\ \A i \in 1 .. n : l[i].key # k
                \/ \E i \in 1 .. n : LastOf(l, n, k, i) /\ g[n][k] = l[i].val
<1> DEFINE P(n) ==
       /\ g[n] \in [Keys -> Values \cup {Nil, Junk}]
       /\ \A k \in Keys : \/ g[n][k] = base[k] /\ \A i \in 1 .. n : l[i].key # k
                        \/ \E i \in 1 .. n : LastOf(l, n, k, i) /\ g[n][k] = l[i].val
       S == {n \in 0 .. Len(l) : P(n)}
<1>0. Len(l) \in Nat
  OBVIOUS
<1>1. 0 \in S
  <2>1. g[0] = base
    BY <1>0 DEF ReplayStep
  <2> QED
    BY <1>0, <2>1
<1>2. ASSUME NEW n \in 0 .. Len(l) - 1, n \in S PROVE n + 1 \in S
  <2> DEFINE e == l[n + 1]
  <2>1. n + 1 \in 1 .. Len(l) /\ n + 1 \in 0 .. Len(l) /\ n \in Nat
    BY <1>0
  <2>2. e \in EntryType /\ e.op = "PUT"
    BY <2>1
  <2>3. g[n + 1] = [g[n] EXCEPT ![e.key] = e.val]
    <3>1. g[n + 1] = ReplayLogCommand(g[n], e)
      BY <1>0, <2>1 DEF ReplayStep
    <3>2. Reparse(e.val) = e.val
      BY DEF Reparse
    <3> QED
      BY <2>2, <3>1, <3>2 DEF ReplayLogCommand
  <2>4. e.key \in Keys /\ e.val \in Values \cup {Nil}
    BY <2>2 DEF EntryType
  <2>5. g[n] \in [Keys -> Values \cup {Nil, Junk}] /\ g[n + 1] \in [Keys -> Values \cup {Nil, Junk}]
    BY <1>2, <2>3, <2>4
  <2>6. ASSUME NEW k \in Keys
        PROVE  \/ g[n + 1][k] = base[k] /\ \A i \in 1 .. n + 1 : l[i].key # k
               \/ \E i \in 1 .. n + 1 : LastOf(l, n + 1, k, i) /\ g[n + 1][k] = l[i].val
    <3> HIDE DEF e
    <3>0. \A i \in 1 .. n + 1 : i \in 1 .. n \/ i = n + 1
      BY <2>1
    <3>1. CASE k = e.key
      <4>1. g[n + 1][k] = e.val
        BY <2>3, <2>4, <2>5, <3>1
      <4>2. LastOf(l, n + 1, k, n + 1)
        BY <2>1, <3>1 DEF LastOf, e
      <4> QED
        BY <2>1, <4>1, <4>2 DEF e
    <3>2. CASE k # e.key
      <4>1. g[n + 1][k] = g[n][k]
        BY <2>3, <2>4, <2>5, <3>2
      <4>2. CASE g[n][k] = base[k] /\ \A i \in 1 .. n : l[i].key # k
        BY <3>0, <3>2, <4>1, <4>2 DEF e
      <4>3. CASE \E i \in 1 .. n : LastOf(l, n, k, i) /\ g[n][k] = l[i].val
        <5>1. PICK i \in 1 .. n : LastOf(l, n, k, i) /\ g[n][k] = l[i].val
          BY <4>3
        <5>2. LastOf(l, n + 1, k, i)
          BY <2>1, <3>0, <3>2, <5>1 DEF LastOf, e
        <5> QED
          BY <2>1, <4>1, <5>1, <5>2
      <4> QED
        BY <1>2, <4>2, <4>3
    <3> QED
      BY <3>1, <3>2
  <2> QED
    BY <2>1, <2>5, <2>6
<1> HIDE DEF S
<1>3. 0 .. Len(l) \subseteq S
  <2> DEFINE N == Len(l)
  <2>1. N \in Nat /\ \A n \in 0 .. N - 1 : n \in S => n + 1 \in S
    BY <1>0, <1>2
  <2> HIDE DEF N
  <2>2. 0 .. N \subseteq S
    BY <1>1, <2>1, InductionTo
  <2> QED
    BY <2>2 DEF N
<1>4. Len(l) \in S
  BY <1>0, <1>3
<1> QED
  BY <1>4 DEF S

\* Recovered is the last value of such a function.
LEMMA RecoveredIsReplay ==
  ASSUME Len(log) \in Nat
  PROVE  \E g : /\ \A i \in 0 .. Len(log) : g[i] = ReplayStep(g, RecoverCheckpoint, log, i)
                /\ Recovered = g[Len(log)]
<1> DEFINE F(h) == [i \in 0 .. Len(log) |->
                     IF i = 0 THEN RecoverCheckpoint ELSE ReplayLogCommand(h[i-1], log[i])]
           g == CHOOSE h : h = F(h)
<1>1. Recovered = g[Len(log)]
  BY DEF Recovered
<1>2. \E h : h = F(h)
  <2>1. PICK h : h = [i \in 0 .. Len(log) |-> ReplayStep(h, RecoverCheckpoint, log, i)]
    BY ReplayExists
  <2>2. \A i \in 0 .. Len(log) :
          ReplayStep(h, RecoverCheckpoint, log, i)
            = IF i = 0 THEN RecoverCheckpoint ELSE ReplayLogCommand(h[i-1], log[i])
    BY DEF ReplayStep
  <2>3. h = F(h)
    BY <2>1, <2>2
  <2> QED
    BY <2>3
<1>3. g = F(g)
  BY <1>2
<1>4. \A i \in 0 .. Len(log) : g[i] = ReplayStep(g, RecoverCheckpoint, log, i)
  <2> HIDE DEF g
  <2> QED
    BY <1>3 DEF ReplayStep
<1> QED
  BY <1>1, <1>4

-----------------------------------------------------------------------------
\* Only the thread in putStore has logged something that is not in the table.
LEMMA TargetFacts ==
  ASSUME PutGetInv
  PROVE  /\ (\A w \in Workers : pc[w] # "putStore") => \A k \in Keys : Target(k) = Stored(k)
         /\ lock \in {Free, Ckpt} => \A w \in Workers : pc[w] # "putStore"
         /\ \A w \in Workers : pc[w] = "putStore" =>
              \A k \in Keys : Target(k) = IF k = Key(w) THEN hist[seqID].val ELSE Stored(k)
<1>1. \A w \in Workers : pc[w] \in Updating => pc[w] = "putStore"
  BY DEF PutGetInv, Serving, PutPlaces, GetPlaces, Updating
<1>2. \A w \in Workers : pc[w] = "putStore" => pc[w] \in Updating /\ lock = w
  BY PutGetFacts DEF Updating
<1> QED
  BY <1>1, <1>2, ConstantsAssumption DEF Target

\* A step that neither touches the files nor begins or ends a store.
LEMMA QuietLastLogged ==
  ASSUME LastLogged, UNCHANGED <<log, ckpt, ckptPc, hist, seqID, table, heap>>,
         \A w \in Workers : pc'[w] \in Updating <=> pc[w] \in Updating,
         \A w \in Workers : pc[w] \in Updating => cmd'[w] = cmd[w]
  PROVE  LastLogged'
<1>1. \A k : Stored(k)' = Stored(k)
  BY DEF Stored
<1>2. \A k : Target(k)' = Target(k)
  BY <1>1 DEF Target, Key
<1> QED
  BY <1>1, <1>2 DEF LastLogged, LastOf

\* The new entry is the last one for its key, and what its thread will store.
LEMMA PutLogLastLogged ==
  ASSUME PutGetInv, PutGetInv', LastLogged, NEW w \in Workers, PutLog(w)
  PROVE  LastLogged'
<1> DEFINE e == Entry(seqID + 1, "PUT", Key(w), cmd[w].new)
           n == Len(log)
<1>1. /\ lock = Free /\ pc[w] = "put" /\ pc' = [pc EXCEPT ![w] = "putStore"]
      /\ seqID' = seqID + 1 /\ log' = Append(log, e)
      /\ hist' = Append(hist, e) /\ heap' = Append(heap, 0)
      /\ UNCHANGED <<cmd, table, ckpt, ckptPc>>
  BY DEF PutLog, TakeLockAndLog, Goto
<1>2. pc'[w] = "putStore" /\ Key(w)' = Key(w)
  BY <1>1, PutGetFacts DEF TypeOK, Key
<1>3. e.key = Key(w) /\ e.val = cmd[w].new
  BY DEF Entry
<1>4. n \in Nat /\ log \in Seq(EntryType)
  BY PutGetFacts DEF TypeOK
<1> HIDE DEF e
<1>5. /\ Len(log') = n + 1 /\ log'[n + 1] = e /\ \A i \in 1 .. n : log'[i] = log[i]
      /\ hist'[seqID'] = e /\ \A i \in 1 .. seqID : hist'[i] = hist[i] /\ heap'[i] = heap[i]
  BY <1>1, <1>4, PutGetFacts
<1> HIDE DEF n
<1>6. \A k \in Keys : Stored(k)' = Stored(k)
  <2>1. ASSUME NEW k \in Keys PROVE Stored(k)' = Stored(k)
    <3>1. table[k] \in 0 .. seqID /\ (table[k] > 0 => heap[table[k]] = table[k])
      BY PutGetFacts
    <3> QED
      BY <1>1, <1>5, <3>1, PutGetFacts DEF Stored, IsCell
  <2> QED
    BY <2>1
<1>7. \A k \in Keys : /\ Target(k) = Stored(k)
                      /\ Target(k)' = IF k = Key(w) THEN cmd[w].new ELSE Stored(k)
  <2>1. \A k \in Keys : Target(k)' = IF k = Key(w)' THEN hist'[seqID'].val ELSE Stored(k)'
    <3>1. \A v \in Workers : pc'[v] \in Updating <=> v = w
      BY <1>1, <1>2, PutGetFacts, TargetFacts DEF Updating, PutGetInv, IndInv, LockOK, Critical
    <3> QED
      BY <3>1 DEF Target
  <2> QED
    BY <1>1, <1>2, <1>3, <1>5, <1>6, <2>1, TargetFacts
<1>0. \A i \in 1 .. n + 1 : i \in 1 .. n \/ i = n + 1
  BY <1>4
<1>8. ASSUME NEW k \in Keys
      PROVE  \/ ckpt'.snap[k] = Target(k)' /\ \A i \in 1 .. Len(log') : log'[i].key # k
             \/ \E i \in 1 .. Len(log') : LastOf(log', Len(log'), k, i) /\ log'[i].val = Target(k)'
  <2>1. CASE k = Key(w)
    <3>1. LastOf(log', n + 1, k, n + 1)
      BY <1>0, <1>3, <1>4, <1>5, <2>1 DEF LastOf
    <3> QED
      BY <1>3, <1>4, <1>5, <1>7, <2>1, <3>1
  <2>2. CASE k # Key(w)
    <3>1. Target(k)' = Target(k)
      BY <1>7, <2>2
    <3>2. CASE ckpt.snap[k] = Target(k) /\ \A i \in 1 .. n : log[i].key # k
      BY <1>0, <1>1, <1>3, <1>5, <2>2, <3>1, <3>2
    <3>3. CASE \E i \in 1 .. n : LastOf(log, n, k, i) /\ log[i].val = Target(k)
      <4>1. PICK i \in 1 .. n : LastOf(log, n, k, i) /\ log[i].val = Target(k)
        BY <3>3
      <4>2. LastOf(log', n + 1, k, i)
        BY SMTT(20), <1>0, <1>3, <1>4, <1>5, <2>2, <4>1 DEF LastOf
      <4> QED
        BY <1>4, <1>5, <3>1, <4>1, <4>2
    <3> QED
      BY <3>2, <3>3 DEF LastLogged, n
  <2> QED
    BY <2>1, <2>2
<1>9. ckptPc' = "renamed" => \A k \in Keys : ckpt'.snap[k] = Stored(k)'
  BY <1>1, <1>6 DEF LastLogged
<1> QED
  BY <1>8, <1>9 DEF LastLogged

\* The store puts into the table what the log already says.
LEMMA PutStoreLastLogged ==
  ASSUME PutGetOnly, PutGetInv, PutGetInv', LastLogged, NEW w \in Workers, PutStore(w)
  PROVE  LastLogged'
<1>1. /\ pc[w] = "putStore" /\ pc' = [pc EXCEPT ![w] = "push"] /\ lock' = Free
      /\ table' = [table EXCEPT ![Key(w)] = seq[w]]
      /\ heap' = [heap EXCEPT ![seq[w]] = seq[w]]
      /\ UNCHANGED <<log, ckpt, ckptPc, hist, seqID>>
  BY AlwaysInserts DEF PutStore, StoreNew, Unlock, Goto, diskVars
<1>2. seq[w] = seqID /\ seqID \in 1 .. seqID /\ Key(w) \in Keys /\ lock = w
  BY <1>1, PutGetFacts
<1>3. /\ \A k \in Keys : table'[k] = (IF k = Key(w) THEN seqID ELSE table[k])
      /\ \A c \in 1 .. seqID : heap'[c] = (IF c = seqID THEN seqID ELSE heap[c])
  BY <1>1, <1>2, PutGetFacts DEF TypeOK
<1>4. \A k \in Keys : Stored(k)' = IF k = Key(w) THEN hist[seqID].val ELSE Stored(k)
  <2>1. ASSUME NEW k \in Keys PROVE Stored(k)' = IF k = Key(w) THEN hist[seqID].val ELSE Stored(k)
    <3>1. table[k] \in 0 .. seqID /\ (table[k] > 0 => heap[table[k]] = table[k])
      BY PutGetFacts
    <3>2. CASE k = Key(w)
      BY <1>1, <1>2, <1>3, <3>2 DEF Stored, IsCell
    <3>3. CASE k # Key(w)
      <4>1. table'[k] = table[k] /\ (table[k] > 0 => heap'[table[k]] = table[k])
        BY <1>2, <1>3, <3>1, <3>3
      <4> QED
        BY <1>1, <3>1, <3>3, <4>1 DEF Stored, IsCell
    <3> QED
      BY <3>2, <3>3
  <2> QED
    BY <2>1
<1>5. \A k \in Keys : Target(k)' = Target(k)
  <2>1. \A k \in Keys : Target(k) = IF k = Key(w) THEN hist[seqID].val ELSE Stored(k)
    BY <1>1, TargetFacts
  <2>2. \A k \in Keys : Target(k)' = Stored(k)'
    <3>1. \A v \in Workers : pc'[v] \notin Updating
      BY <1>1, ConstantsAssumption DEF PutGetInv, IndInv, LockOK, Critical
    <3> QED
      BY <3>1 DEF Target
  <2> QED
    BY <1>4, <2>1, <2>2
<1>6. ckptPc' # "renamed"
  BY <1>1, <1>2, ConstantsAssumption DEF PutGetInv, IndInv, LockOK
<1> QED
  BY <1>1, <1>5, <1>6 DEF LastLogged, LastOf

\* The checkpoint is taken when every logged PUT is in the table, ...
LEMMA CkptRenameLastLogged ==
  ASSUME PutGetInv, PutGetInv', LastLogged, CkptRename
  PROVE  LastLogged'
<1>0. PICK snap : /\ \A k \in Keys : snap[k] \in Reads(k)
                  /\ ckpt' = [version |-> seqID, snap |-> snap]
  BY DEF CkptRename, Snapshot
<1>1. lock = Free /\ UNCHANGED <<pc, cmd, seqID, table, heap, hist, log>>
  BY DEF CkptRename, heapVars
<1>5. \A k \in Keys : snap[k] = Stored(k)
  BY <1>0, PutGetFacts DEF Reads, Stale
<1>2. \A k \in Keys : Target(k) = Stored(k)
  BY <1>1, TargetFacts
<1>3. \A k \in Keys : Stored(k)' = Stored(k) /\ ckpt'.snap[k] = Stored(k)
  BY <1>0, <1>1, <1>5 DEF Stored
<1>4. \A k \in Keys : Target(k)' = Target(k)
  BY <1>1, <1>3 DEF Target, Key
<1> QED
  BY <1>0, <1>1, <1>2, <1>3, <1>4 DEF LastLogged, LastOf

\* ... and the lock is held until the log is empty.
LEMMA CkptTruncateLastLogged ==
  ASSUME PutGetInv, PutGetInv', LastLogged, CkptTruncate
  PROVE  LastLogged'
<1>1. /\ ckptPc = "renamed" /\ ckptPc' = "sleep" /\ log' = <<>>
      /\ UNCHANGED <<pc, cmd, seqID, table, heap, hist, ckpt>>
  BY DEF CkptTruncate, heapVars
<1>2. lock = Ckpt
  BY <1>1 DEF PutGetInv, IndInv, LockOK
<1>3. \A k \in Keys : Target(k) = Stored(k)
  BY <1>2, TargetFacts
<1>4. \A k \in Keys : Stored(k)' = Stored(k)
  BY <1>1 DEF Stored
<1>5. \A k \in Keys : Target(k)' = Target(k)
  BY <1>1, <1>4 DEF Target, Key
<1>6. Len(log') = 0
  BY <1>1
<1> QED
  BY <1>1, <1>3, <1>5, <1>6 DEF LastLogged

LEMMA NextLastLogged ==
  ASSUME PutGetOnly, PutGetInv, PutGetInv', LastLogged, [Next]_vars
  PROVE  LastLogged'
<1>1. CASE UNCHANGED vars
  BY <1>1, QuietLastLogged DEF vars, diskVars, heapVars
<1>2. ASSUME NEW w \in Workers, Receive(w) PROVE LastLogged'
  <2>1. /\ pc[w] = "idle" /\ \E c \in Commands : pc' = [pc EXCEPT ![w] = Start(c.op)]
        /\ \E c \in Commands : cmd' = [cmd EXCEPT ![w] = c]
        /\ UNCHANGED <<log, ckpt, ckptPc, hist, seqID, table, heap>>
    BY <1>2 DEF Receive, Goto, diskVars, heapVars
  <2>2. \A c \in Commands : Start(c.op) \in {"put", "get"}
    BY DEF PutGetOnly, Start
  <2>3. \A v \in Workers : /\ v # w => pc'[v] = pc[v] /\ cmd'[v] = cmd[v]
                           /\ v = w => pc'[v] \in {"put", "get"}
    BY <2>1, <2>2, PutGetFacts DEF TypeOK
  <2> QED
    BY <2>1, <2>3, QuietLastLogged DEF Updating
<1>3. ASSUME NEW w \in Workers, Push(w) \/ Ack(w) \/ GetCheck(w) \/ GetRead(w) \/ GetSend(w) \/ GetEnd(w)
      PROVE  LastLogged'
  <2>1. /\ pc[w] \in {"push", "ack", "get", "getRead", "getSend", "getEnd"}
        /\ \E p \in {"ack", "idle", "getRead", "getSend", "getEnd"} : pc' = [pc EXCEPT ![w] = p]
        /\ UNCHANGED <<cmd, log, ckpt, ckptPc, hist, seqID, table, heap>>
    BY <1>3 DEF Push, Ack, GetCheck, GetRead, GetSend, GetEnd, Answer, Goto, diskVars, heapVars
  <2>2. \A v \in Workers : /\ v # w => pc'[v] = pc[v]
                           /\ v = w => pc'[v] \in {"ack", "idle", "getRead", "getSend", "getEnd"}
    BY <2>1, PutGetFacts DEF TypeOK
  <2> QED
    BY <2>1, <2>2, QuietLastLogged DEF Updating
<1>4. CASE Fault \/ MayFault \/ Closeall
  <2>1. UNCHANGED <<pc, cmd, log, ckpt, ckptPc, hist, seqID, table, heap>>
    BY <1>4 DEF Fault, MayFault, Closeall, Die, diskVars, heapVars
  <2> QED
    BY <2>1, QuietLastLogged
<1> QED
  BY <1>1, <1>2, <1>3, <1>4, PutGetSteps, PutLogLastLogged, PutStoreLastLogged,
     CkptRenameLastLogged, CkptTruncateLastLogged DEF Next

LEMMA InitLastLogged == ASSUME Init PROVE LastLogged
<1>1. \A k \in Keys : Stored(k) = Nil /\ ckpt.snap[k] = Nil
  BY DEF Init, Stored, IsCell, Absent
<1>2. \A k \in Keys : Target(k) = Stored(k)
  BY DEF Init, Target, Updating
<1>3. Len(log) = 0 /\ ckptPc = "sleep"
  BY DEF Init
<1> QED
  BY <1>1, <1>2, <1>3 DEF LastLogged

\* What the files say is what the replay of recoverCheckpoint and recoverLog computes.
LEMMA FilesRecover ==
  ASSUME PutGetInv, LastLogged, Dotted = {}
  PROVE  RecoverableState
<1> DEFINE n == Len(log)
<1>1. n \in Nat /\ log \in Seq(EntryType) /\ ckpt.snap \in [Keys -> Values \cup {Nil, Junk}]
  BY PutGetFacts DEF TypeOK
<1>2. RecoverCheckpoint = ckpt.snap
  BY <1>1 DEF RecoverCheckpoint, Reparse
<1>3. \A i \in 1 .. n : log[i].op = "PUT"
  <2>1. \A i \in 1 .. n : log[i] = hist[seqID - n + i] /\ seqID - n + i \in 1 .. seqID
    BY <1>1, PutGetFacts DEF IndInv, LogContiguous
  <2> QED
    BY <2>1 DEF PutGetInv, HistPuts
<1>4. PICK g : /\ \A i \in 0 .. n : g[i] = ReplayStep(g, RecoverCheckpoint, log, i)
               /\ Recovered = g[n]
  BY <1>1, RecoveredIsReplay
<1>5. /\ g[n] \in [Keys -> Values \cup {Nil, Junk}]
      /\ \A k \in Keys : \/ g[n][k] = ckpt.snap[k] /\ \A i \in 1 .. n : log[i].key # k
                       \/ \E i \in 1 .. n : LastOf(log, n, k, i) /\ g[n][k] = log[i].val
  BY <1>1, <1>2, <1>3, <1>4, ReplayValue
<1>6. \A k \in Keys : Recovered[k] = Target(k)
  <2>1. ASSUME NEW k \in Keys PROVE Recovered[k] = Target(k)
    <3>1. CASE ckpt.snap[k] = Target(k) /\ \A i \in 1 .. n : log[i].key # k
      BY <1>4, <1>5, <3>1 DEF LastOf
    <3>2. CASE \E i \in 1 .. n : LastOf(log, n, k, i) /\ log[i].val = Target(k)
      <4>1. PICK i \in 1 .. n : LastOf(log, n, k, i) /\ log[i].val = Target(k)
        BY <3>2
      <4>2. log[i].key = k
        BY <4>1 DEF LastOf
      <4>3. PICK j \in 1 .. n : LastOf(log, n, k, j) /\ g[n][k] = log[j].val
        BY <1>5, <4>2
      <4>4. i = j
        BY <1>1, <4>1, <4>3 DEF LastOf
      <4> QED
        BY <1>4, <4>1, <4>3, <4>4
    <3> QED
      BY <3>1, <3>2 DEF LastLogged
  <2> QED
    BY <2>1
<1>7. Recovered = [k \in Keys |-> Recovered[k]]
  BY <1>4, <1>5
<1>8. Recovered = [k \in Keys |-> Target(k)]
  <2> HIDE DEF n
  <2> QED
    BY <1>6, <1>7
<1> QED
  BY <1>8 DEF RecoverableState, Target

\* A restart finds, in checkpoint.txt and log.txt, the table as it was when the
\* server died, with the PUT that was logged and not yet stored carried out, at
\* whatever step of putToLog, writeToDisk or the replies the server dies.  The
\* values must not contain the line that separates the records.
THEOREM PutGetRecoverable ==
  ASSUME PutGetOnly, Dotted = {} PROVE Spec => []RecoverableState
<1>1. Init => LastLogged
  BY InitLastLogged
<1>2. PutGetInv /\ PutGetInv' /\ LastLogged /\ [Next]_vars => LastLogged'
  BY NextLastLogged
<1>3. PutGetInv /\ LastLogged => RecoverableState
  BY FilesRecover
<1> QED
  BY <1>1, <1>2, <1>3, PutGetInvariance, PTL DEF Spec
=============================================================================
