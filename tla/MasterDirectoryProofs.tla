------------------------ MODULE MasterDirectoryProofs ------------------------
(***************************************************************************)
(* Proofs about the master's directory, for any number of threads, nodes   *)
(* and rows, whichever rows the threads are asked for.                     *)
(***************************************************************************)
EXTENDS MasterDirectory, FiniteSetTheorems, TLAPS

(* The type of every variable of the directory.                            *)
DirType ==
  /\ node_index \in [Rows -> Nodes \cup {Unassigned}]
  /\ row_num \in [Nodes -> Nat]
  /\ pc \in [Threads -> {"idle", "start", "scan", "assign", "count", "counted", "found", "reply"}]
  /\ row \in [Threads -> Rows]
  /\ i \in [Threads -> Nat]
  /\ minID \in [Threads -> Nodes]
  /\ min \in [Threads -> Nat]
  /\ requests \in Nat
  /\ answers \subseteq Rows \X Nodes
  /\ inTurn \in BOOLEAN
  /\ known \in [Threads -> BOOLEAN]
  /\ placed \in [Nodes -> Nat]
  /\ \A t \in Threads : pc[t] = "scan" => i[t] < NumNodes
  /\ \A t \in Threads : pc[t] = "found" => node_index[row[t]] \in Nodes

(* The threads that have assigned a row to node n and not yet counted it.  *)
Pending(n) == {t \in Threads : pc[t] \in {"count", "counted"} /\ minID[t] = n}

Finite == \A n \in Nodes : IsFiniteSet(RowsOf(n)) /\ IsFiniteSet(Pending(n))

(* A thread past its lookup and before its assignment has a new row.       *)
New == \A t \in Threads : pc[t] \in {"start", "scan", "assign"} => node_index[row[t]] = Unassigned

(* The lost updates: a count is at most the number of assignments less     *)
(* those whose count is still to come, and so is a count that was read.    *)
Counts ==
  /\ \A n \in Nodes : row_num[n] + Cardinality(Pending(n)) <= placed[n]
  /\ \A t \in Threads : pc[t] = "counted" =>
       min[t] + Cardinality(Pending(minID[t])) <= placed[minID[t]]

(* What holds whatever the threads do.                                     *)
DirectoryInv ==
  /\ DirType /\ Finite
  /\ \A t \in Threads : pc[t] \in {"start", "scan", "assign"} => ~known[t]
  /\ Counts

(* What holds as long as requests come one after the other.                *)
Served ==
  /\ \A t, u \in Threads : pc[t] # "idle" /\ pc[u] # "idle" => t = u
  /\ New
  /\ \A t \in Threads : pc[t] \in {"count", "counted", "reply"} => node_index[row[t]] = minID[t]
  /\ \A x \in answers : node_index[x[1]] = x[2]
Level ==
  /\ \A n \in Nodes : row_num[n] + Cardinality(Pending(n)) = Cardinality(RowsOf(n))
  /\ \A n, m \in Nodes : row_num[n] <= row_num[m] + 1
Least(t, S) == \A k \in S : row_num[minID[t]] <= row_num[k]
Scanned ==
  \A t \in Threads :
    /\ pc[t] \in {"scan", "counted"} => min[t] = row_num[minID[t]]
    /\ pc[t] = "scan" => Least(t, 0 .. i[t] - 1)
    /\ pc[t] \in {"assign", "count", "counted"} => Least(t, Nodes)
InTurnInv ==
  /\ DirType /\ Finite
  /\ inTurn => Served /\ Level /\ Scanned

-----------------------------------------------------------------------------
\* The types and the finite sets.
LEMMA InitDir == Init => DirType /\ Finite
<1> SUFFICES ASSUME Init PROVE DirType /\ Finite
  OBVIOUS
<1>1. DirType
  BY DirectoryAssumption DEF Init, DirType, Nodes
<1>2. \A n \in Nodes : RowsOf(n) = {} /\ Pending(n) = {}
  BY DirectoryAssumption DEF Init, RowsOf, Pending, Nodes
<1> QED
  BY <1>1, <1>2, FS_EmptySet DEF Finite

LEMMA NextDirType ==
  ASSUME DirType, NEW t \in Threads, WhereTest(t) \/ Work(t)
  PROVE  DirType'
<1> USE DEF DirType, Goto, history
<1>0. Nodes = 0 .. NumNodes - 1 /\ NumNodes \in Nat \ {0} /\ 0 \in Nodes
      /\ Unassigned \notin Nodes
  BY DirectoryAssumption DEF Nodes
<1>1. CASE WhereTest(t)
  <2>1. inTurn' \in BOOLEAN /\ requests' \in Nat
    BY <1>1 DEF WhereTest
  <2>2. PICK r \in Rows :
          /\ row' = [row EXCEPT ![t] = r]
          /\ known' = [known EXCEPT ![t] = node_index[r] # Unassigned]
          /\ pc' = [pc EXCEPT ![t] = IF node_index[r] = Unassigned THEN "start" ELSE "found"]
    BY <1>1 DEF WhereTest
  <2>3. UNCHANGED <<node_index, row_num, i, minID, min, answers, placed>>
    BY <1>0, <1>1 DEF WhereTest
  <2> QED
    BY <1>0, <2>1, <2>2, <2>3
<1>2. CASE ScanStart(t)
  BY <1>0, <1>2 DEF ScanStart
<1>3. CASE ScanNode(t)
  <2>1. i[t] \in Nodes /\ i'[t] \in Nat
    BY <1>0, <1>3 DEF ScanNode
  <2>2. /\ minID' \in [Threads -> Nodes] /\ min' \in [Threads -> Nat] /\ i' \in [Threads -> Nat]
        /\ pc' \in [Threads -> {"idle", "start", "scan", "assign", "count", "counted", "found", "reply"}]
    BY <1>0, <1>3, <2>1 DEF ScanNode
  <2>3. UNCHANGED <<node_index, row_num, row, requests, answers, inTurn, known, placed>>
    BY <1>3 DEF ScanNode
  <2>4. \A u \in Threads : pc'[u] = "scan" => i'[u] < NumNodes
    BY <1>0, <1>3, <2>1 DEF ScanNode
  <2>5. \A u \in Threads : pc'[u] = "found" => pc[u] = "found"
    BY <1>3 DEF ScanNode
  <2> QED
    BY <2>2, <2>3, <2>4, <2>5
<1>4. CASE Assign(t)
  <2>1. placed' \in [Nodes -> Nat]
    BY <1>4 DEF Assign
  <2>2. UNCHANGED <<row_num, row, i, minID, min, requests, answers, inTurn, known>>
    BY <1>4 DEF Assign
  <2>3. /\ node_index' = [node_index EXCEPT ![row[t]] = minID[t]] /\ minID[t] \in Nodes
        /\ pc' = [pc EXCEPT ![t] = "count"]
    BY <1>4 DEF Assign
  <2> QED
    BY <1>0, <2>1, <2>2, <2>3
<1>5. CASE CountRead(t)
  BY <1>0, <1>5 DEF CountRead
<1>6. CASE CountWrite(t)
  BY SMTT(20), <1>0, <1>6 DEF CountWrite
<1>7. CASE Found(t)
  <2>1. node_index[row[t]] \in Nodes
    BY <1>7 DEF Found
  <2>2. PICK n \in Nodes, kept \in Nodes :
          /\ minID' = [minID EXCEPT ![t] = n]
          /\ node_index' = [node_index EXCEPT ![row[t]] = kept]
    BY <1>0, <1>7, <2>1 DEF Found
  <2> QED
    BY <1>0, <1>7, <2>2 DEF Found
<1>8. CASE Reply(t)
  <2>1. answers' \subseteq Rows \X Nodes
    BY <1>8 DEF Reply
  <2>2. /\ UNCHANGED <<node_index, row_num, row, i, minID, min, requests, inTurn, known, placed>>
        /\ pc' = [pc EXCEPT ![t] = "idle"]
    BY <1>8 DEF Reply
  <2> QED
    BY <2>1, <2>2
<1> QED
  BY <1>1, <1>2, <1>3, <1>4, <1>5, <1>6, <1>7, <1>8 DEF Work

\* A step other than the assignment and the write of a count changes neither the
\* counts nor the threads that have still to count a row; and no row is taken from
\* its node but the one that is looked up.
LEMMA SamePending ==
  ASSUME DirType, NEW t \in Threads, WhereTest(t) \/ Work(t), ~Assign(t), ~CountWrite(t)
  PROVE  /\ UNCHANGED <<row_num, placed>>
         /\ \A n \in Nodes : Pending(n)' = Pending(n)
<1>1. UNCHANGED <<row_num, placed>>
  BY DEF WhereTest, Work, ScanStart, ScanNode, CountRead, Found, Reply, history
<1>2. /\ \A u \in Threads \ {t} : pc'[u] = pc[u] /\ minID'[u] = minID[u]
      /\ pc'[t] \in {"count", "counted"} <=> pc[t] \in {"count", "counted"}
      /\ pc[t] \in {"count", "counted"} => minID'[t] = minID[t]
  BY DEF WhereTest, Work, ScanStart, ScanNode, CountRead, Found, Reply, Goto, DirType
<1> QED
  BY <1>1, <1>2 DEF Pending

LEMMA SameRows ==
  ASSUME DirType, NEW t \in Threads, WhereTest(t) \/ Work(t), ~Assign(t), NEW n \in Nodes
  PROVE  /\ RowsOf(n)' \subseteq RowsOf(n) \cup {row[t]}
         /\ node_index' = node_index => RowsOf(n)' = RowsOf(n)
<1>1. \A r \in Rows \ {row[t]} : node_index'[r] = node_index[r]
  BY DEF WhereTest, Work, ScanStart, ScanNode, CountRead, CountWrite, Found, Reply, DirType
<1> QED
  BY <1>1 DEF RowsOf

\* The assignment of a new row.
LEMMA AssignSets ==
  ASSUME DirType, Finite, NEW t \in Threads, Assign(t)
  PROVE  \A n \in Nodes :
           /\ n # minID[t] => Pending(n)' = Pending(n) /\ RowsOf(n)' = RowsOf(n) \ {row[t]}
           /\ n = minID[t] => /\ Pending(n)' = Pending(n) \cup {t} /\ t \notin Pending(n)
                              /\ RowsOf(n)' = RowsOf(n) \cup {row[t]}
<1>1. /\ pc[t] = "assign" /\ node_index' = [node_index EXCEPT ![row[t]] = minID[t]]
      /\ pc' = [pc EXCEPT ![t] = "count"] /\ minID' = minID
      /\ row[t] \in Rows /\ minID[t] \in Nodes
  BY DEF Assign, Goto, DirType
<1>2. \A n \in Nodes : Pending(n)' = IF n = minID[t] THEN Pending(n) \cup {t} ELSE Pending(n)
  BY <1>1 DEF Pending, DirType
<1>3. \A n \in Nodes : RowsOf(n)' = IF n = minID[t] THEN RowsOf(n) \cup {row[t]} ELSE RowsOf(n) \ {row[t]}
  BY <1>1 DEF RowsOf, DirType
<1> QED
  BY <1>1, <1>2, <1>3 DEF Pending

LEMMA AssignCards ==
  ASSUME DirType, Finite, NEW t \in Threads, Assign(t), node_index[row[t]] = Unassigned
  PROVE  \A n \in Nodes :
           LET d == IF n = minID[t] THEN 1 ELSE 0 IN
             /\ Cardinality(Pending(n)') = Cardinality(Pending(n)) + d
             /\ Cardinality(RowsOf(n)') = Cardinality(RowsOf(n)) + d
<1>1. \A n \in Nodes : row[t] \notin RowsOf(n) /\ IsFiniteSet(RowsOf(n)) /\ IsFiniteSet(Pending(n))
                       /\ Cardinality(RowsOf(n)) \in Nat /\ Cardinality(Pending(n)) \in Nat
  BY DirectoryAssumption, FS_CardinalityType DEF RowsOf, Finite, Nodes
<1>2. minID[t] \in Nodes
  BY DEF DirType
<1>3. ASSUME NEW n \in Nodes, n = minID[t]
      PROVE  /\ Cardinality(Pending(n)') = Cardinality(Pending(n)) + 1
             /\ Cardinality(RowsOf(n)') = Cardinality(RowsOf(n)) + 1
  BY <1>1, <1>3, AssignSets, FS_AddElement
<1>4. ASSUME NEW n \in Nodes, n # minID[t]
      PROVE  Pending(n)' = Pending(n) /\ RowsOf(n)' = RowsOf(n)
  BY <1>1, <1>4, AssignSets
<1> QED
  BY <1>1, <1>3, <1>4

LEMMA AssignPending ==
  ASSUME DirType, Finite, NEW t \in Threads, Assign(t)
  PROVE  \A n \in Nodes :
           Cardinality(Pending(n)') = Cardinality(Pending(n)) + IF n = minID[t] THEN 1 ELSE 0
<1>1. \A n \in Nodes : IsFiniteSet(Pending(n)) /\ Cardinality(Pending(n)) \in Nat
  BY FS_CardinalityType DEF Finite
<1>2. ASSUME NEW n \in Nodes, n = minID[t]
      PROVE  Cardinality(Pending(n)') = Cardinality(Pending(n)) + 1
  BY <1>1, <1>2, AssignSets, FS_AddElement
<1> QED
  BY <1>1, <1>2, AssignSets

\* The write of a count.
LEMMA CountCards ==
  ASSUME DirType, Finite, NEW t \in Threads, CountWrite(t)
  PROVE  /\ \A n \in Nodes : RowsOf(n)' = RowsOf(n) /\ Pending(n)' = Pending(n) \ {t}
         /\ \A n \in Nodes \ {minID[t]} : Pending(n)' = Pending(n)
         /\ \A n \in Nodes : n = minID[t] => /\ Cardinality(Pending(n)') = Cardinality(Pending(n)) - 1
                                           /\ Cardinality(Pending(n)) \in Nat
<1>1. /\ pc[t] = "counted" /\ pc' = [pc EXCEPT ![t] = "reply"]
      /\ UNCHANGED <<node_index, minID>> /\ minID[t] \in Nodes
  BY DEF CountWrite, Goto, DirType
<1>2. \A n \in Nodes : Pending(n)' = Pending(n) \ {t}
  BY <1>1 DEF Pending, DirType
<1>3. \A n \in Nodes \ {minID[t]} : t \notin Pending(n)
  BY DEF Pending
<1>4. \A n \in Nodes : n = minID[t] => t \in Pending(n) /\ IsFiniteSet(Pending(n))
  BY <1>1 DEF Pending, Finite
<1>5. \A n \in Nodes : n = minID[t] => Cardinality(Pending(n)') = Cardinality(Pending(n)) - 1
  BY <1>1, <1>2, <1>4, FS_RemoveElement
<1>6. \A n \in Nodes : RowsOf(n)' = RowsOf(n)
  BY <1>1 DEF RowsOf
<1> QED
  BY <1>2, <1>3, <1>4, <1>5, <1>6, FS_CardinalityType

LEMMA NextFinite ==
  ASSUME DirType, Finite, NEW t \in Threads, WhereTest(t) \/ Work(t)
  PROVE  Finite'
<1>1. \A n \in Nodes : IsFiniteSet(RowsOf(n)) /\ IsFiniteSet(Pending(n))
  BY DEF Finite
<1>2. CASE Assign(t)
  <2>1. \A n \in Nodes : /\ IsFiniteSet(RowsOf(n) \cup {row[t]}) /\ IsFiniteSet(RowsOf(n) \ {row[t]})
                        /\ IsFiniteSet(Pending(n) \cup {t})
    BY <1>1, FS_AddElement, FS_Subset
  <2> QED
    BY <1>1, <1>2, <2>1, AssignSets DEF Finite
<1>3. CASE CountWrite(t)
  <2>1. \A n \in Nodes : IsFiniteSet(Pending(n) \ {t})
    BY <1>1, FS_Subset
  <2> QED
    BY <1>1, <1>3, <2>1, CountCards DEF Finite
<1>4. CASE ~Assign(t) /\ ~CountWrite(t)
  <2>1. \A n \in Nodes : /\ RowsOf(n)' \subseteq RowsOf(n) \cup {row[t]} /\ Pending(n)' = Pending(n)
    BY <1>4, SamePending, SameRows
  <2>2. \A n \in Nodes : IsFiniteSet(RowsOf(n) \cup {row[t]})
    BY <1>1, FS_AddElement
  <2>3. \A n \in Nodes : IsFiniteSet(RowsOf(n)')
    BY <2>1, <2>2, FS_Subset
  <2> QED
    BY <1>1, <2>1, <2>3 DEF Finite
<1> QED
  BY <1>2, <1>3, <1>4

-----------------------------------------------------------------------------
\* Whatever the threads do.
LEMMA InitDirectory == Init => DirectoryInv
<1> SUFFICES ASSUME Init PROVE DirectoryInv
  OBVIOUS
<1>1. \A n \in Nodes : Pending(n) = {} /\ row_num[n] = 0 /\ placed[n] = 0
  BY DirectoryAssumption DEF Init, Pending, Nodes
<1>2. \A t \in Threads : pc[t] = "idle"
  BY DEF Init
<1>3. Counts
  BY <1>1, <1>2, FS_EmptySet DEF Counts
<1> QED
  BY <1>2, <1>3, InitDir DEF DirectoryInv

\* A step changes only its own thread's locals, and node_index only for the row
\* of a thread that assigns it or looks it up.
LEMMA OwnStep ==
  ASSUME DirType, NEW t \in Threads, WhereTest(t) \/ Work(t)
  PROVE  /\ \A u \in Threads \ {t} : pc'[u] = pc[u] /\ row'[u] = row[u] /\ i'[u] = i[u]
                                    /\ minID'[u] = minID[u] /\ min'[u] = min[u] /\ known'[u] = known[u]
         /\ WhereTest(t) => /\ pc[t] = "idle"
                            /\ pc'[t] = (IF node_index[row'[t]] = Unassigned THEN "start" ELSE "found")
                            /\ known'[t] = (node_index[row'[t]] # Unassigned)
         /\ ~WhereTest(t) => pc[t] # "idle" /\ row'[t] = row[t] /\ known'[t] = known[t]
         /\ ~Assign(t) /\ ~Found(t) => UNCHANGED node_index
         /\ Assign(t) => node_index' = [node_index EXCEPT ![row[t]] = minID[t]]
<1>1. /\ ~Assign(t) /\ ~Found(t) => UNCHANGED node_index
      /\ Assign(t) => node_index' = [node_index EXCEPT ![row[t]] = minID[t]]
  BY DEF WhereTest, Work, ScanStart, ScanNode, Assign, CountRead, CountWrite, Found, Reply
<1>2. ~WhereTest(t) => pc[t] # "idle" /\ row' = row /\ known' = known
  BY DEF Work, ScanStart, ScanNode, Assign, CountRead, CountWrite, Found, Reply, history
<1>3. /\ \A u \in Threads \ {t} : pc'[u] = pc[u] /\ i'[u] = i[u] /\ minID'[u] = minID[u] /\ min'[u] = min[u]
  BY DEF WhereTest, Work, ScanStart, ScanNode, Assign, CountRead, CountWrite, Found, Reply, Goto, DirType
<1>4. WhereTest(t) => /\ pc[t] = "idle"
                      /\ pc'[t] = (IF node_index[row'[t]] = Unassigned THEN "start" ELSE "found")
                      /\ known'[t] = (node_index[row'[t]] # Unassigned)
                      /\ \A u \in Threads \ {t} : row'[u] = row[u] /\ known'[u] = known[u]
  <2> SUFFICES ASSUME WhereTest(t)
               PROVE  /\ pc[t] = "idle"
                      /\ pc'[t] = (IF node_index[row'[t]] = Unassigned THEN "start" ELSE "found")
                      /\ known'[t] = (node_index[row'[t]] # Unassigned)
                      /\ \A u \in Threads \ {t} : row'[u] = row[u] /\ known'[u] = known[u]
    OBVIOUS
  <2>1. PICK r \in Rows :
          /\ row' = [row EXCEPT ![t] = r]
          /\ known' = [known EXCEPT ![t] = node_index[r] # Unassigned]
          /\ pc' = [pc EXCEPT ![t] = IF node_index[r] = Unassigned THEN "start" ELSE "found"]
    BY DEF WhereTest, Goto
  <2>2. pc[t] = "idle" /\ row'[t] = r
    BY <2>1 DEF WhereTest, DirType
  <2> QED
    BY <2>1, <2>2 DEF DirType
<1> QED
  BY <1>1, <1>2, <1>3, <1>4

LEMMA NextDirectory ==
  ASSUME DirectoryInv, NEW t \in Threads, WhereTest(t) \/ Work(t)
  PROVE  DirectoryInv'
<1> USE DEF DirectoryInv
<1>1. DirType' /\ Finite'
  BY NextDirType, NextFinite
<1>2. \A u \in Threads : pc'[u] \in {"start", "scan", "assign"} => ~known'[u]
  <2> SUFFICES ASSUME pc'[t] \in {"start", "scan", "assign"} PROVE ~known'[t]
    BY OwnStep
  <2>1. ~WhereTest(t) => pc[t] \in {"start", "scan", "assign"}
    BY DEF Work, ScanStart, ScanNode, Assign, CountRead, CountWrite, Found, Reply, Goto, DirType
  <2> QED
    BY <2>1, OwnStep
<1>4. Counts'
  <2>0. \A n \in Nodes : placed[n] \in Nat /\ Cardinality(Pending(n)) \in Nat /\ row_num[n] \in Nat
    BY FS_CardinalityType DEF Finite, DirType
  <2>1. \A u \in Threads : minID[u] \in Nodes /\ minID'[u] \in Nodes /\ min[u] \in Nat
    BY <1>1 DEF DirType
  <2>2. CASE Assign(t)
    <3>2. /\ UNCHANGED <<row_num, minID, min>>
          /\ \A u \in Threads : pc'[u] = "counted" => pc[u] = "counted"
      BY <2>2 DEF Assign, Goto, DirType
    <3>3. \A n \in Nodes : \E d \in {0, 1} : /\ Cardinality(Pending(n)') = Cardinality(Pending(n)) + d
                                          /\ placed'[n] = placed[n] + d
      <4>1. placed' = [placed EXCEPT ![minID[t]] = @ + 1] /\ minID[t] \in Nodes
        BY <2>1, <2>2 DEF Assign
      <4> QED
        BY <2>0, <2>2, <4>1, AssignPending DEF DirType
    <3> QED
      BY <2>0, <2>1, <3>2, <3>3 DEF Counts
  <2>3. CASE CountWrite(t)
    <3> DEFINE m == minID[t]
    <3>1. /\ pc[t] = "counted" /\ row_num' = [row_num EXCEPT ![m] = min[t] + 1]
          /\ UNCHANGED <<minID, min, placed>>
          /\ \A u \in Threads : pc'[u] = "counted" => u # t /\ pc[u] = "counted"
      BY <2>3 DEF CountWrite, Goto, DirType, history
    <3>2. \A n \in Nodes : row_num'[n] = IF n = m THEN min[t] + 1 ELSE row_num[n]
      BY <3>1 DEF DirType
    <3>3. \A n \in Nodes : /\ n # m => Pending(n)' = Pending(n)
                           /\ n = m => Cardinality(Pending(n)') = Cardinality(Pending(n)) - 1
      BY <2>3, CountCards
    <3>4. min[t] + Cardinality(Pending(m)) <= placed[m]
      BY <3>1 DEF Counts
    <3> HIDE DEF m
    <3>5. \A n \in Nodes : row_num'[n] + Cardinality(Pending(n)') <= placed'[n]
      <4>1. \A n \in Nodes : placed'[n] = placed[n]
        BY <3>1
      <4> QED
        BY <2>0, <2>1, <3>2, <3>3, <3>4, <4>1 DEF Counts
    <3>6. ASSUME NEW u \in Threads, pc'[u] = "counted"
          PROVE  min'[u] + Cardinality(Pending(minID[u])') <= placed'[minID[u]]
      <4>1. min[u] + Cardinality(Pending(minID[u])) <= placed[minID[u]] /\ minID[u] \in Nodes
        BY <2>1, <3>1, <3>6 DEF Counts
      <4> DEFINE k == minID[u]
      <4>2. k \in Nodes /\ Cardinality(Pending(k)') <= Cardinality(Pending(k))
            /\ Cardinality(Pending(k)') \in Int
        BY <2>0, <2>1, <3>1, <3>3
      <4> QED
        BY <2>0, <2>1, <3>1, <4>1, <4>2
    <3> QED
      BY <3>1, <3>5, <3>6 DEF Counts
  <2>4. CASE ~Assign(t) /\ ~CountWrite(t)
    <3>1. UNCHANGED <<row_num, placed>> /\ \A n \in Nodes : Pending(n)' = Pending(n)
      BY <2>4, SamePending
    <3>2. ASSUME NEW u \in Threads, pc'[u] = "counted"
          PROVE  \/ min'[u] = row_num[minID[u]] /\ minID'[u] = minID[u]
                 \/ min'[u] = min[u] /\ minID'[u] = minID[u] /\ pc[u] = "counted"
      <4>1. CASE u = t
        BY <3>2, <4>1, <2>4 DEF WhereTest, Work, ScanStart, ScanNode, Assign, CountRead, CountWrite, Found, Reply, Goto, DirType
      <4> QED
        BY <3>2, <4>1, OwnStep
    <3> QED
      BY <2>0, <2>1, <3>1, <3>2 DEF Counts
  <2> QED
    BY <2>2, <2>3, <2>4
<1> QED
  BY <1>1, <1>2, <1>4

\* DirectoryInv, the inductive invariant for any requests.
THEOREM DirectoryInvariance == Spec => []DirectoryInv
<1>1. DirectoryInv /\ [Next]_vars => DirectoryInv'
  <2> SUFFICES ASSUME DirectoryInv, [Next]_vars PROVE DirectoryInv'
    OBVIOUS
  <2>1. CASE UNCHANGED vars
    <3>1. DirType' /\ \A n \in Nodes : RowsOf(n)' = RowsOf(n) /\ Pending(n)' = Pending(n)
      BY <2>1 DEF vars, history, DirectoryInv, DirType, RowsOf, Pending
    <3>2. \A t \in Threads : minID[t] \in Nodes
      BY DEF DirectoryInv, DirType
    <3>3. Finite' /\ Counts'
      BY <2>1, <3>1, <3>2 DEF vars, history, DirectoryInv, Finite, Counts
    <3> QED
      BY <2>1, <3>1, <3>3 DEF vars, history, DirectoryInv
  <2> QED
    BY <2>1, NextDirectory DEF Next
<1> QED
  BY <1>1, InitDirectory, PTL DEF Spec

\* AssignedOnce: a row that has a node is taken from it only by a request that was
\* looked up before the row had one, or for node 0 by a lookup that misses while
\* another thread inserts.
THEOREM DirectoryAssignedOnce == Spec => AssignedOnce
<1> DEFINE Stays == \A r \in Rows : node_index[r] # Unassigned /\ node_index'[r] # node_index[r] =>
                      \E t \in Threads : /\ row[t] = r
                                         /\ \/ pc[t] = "assign" /\ ~known[t]
                                            \/ pc[t] = "found" /\ node_index'[r] = 0 /\ Inserting(t)
<1>1. DirectoryInv /\ [Next]_vars => [Stays]_vars
  <2> SUFFICES ASSUME DirectoryInv, NEW t \in Threads, WhereTest(t) \/ Work(t) PROVE Stays
    BY DEF Next
  <2>1. Assign(t) => pc[t] = "assign" /\ ~known[t] /\ \A r \in Rows \ {row[t]} : node_index'[r] = node_index[r]
    BY DEF Assign, DirectoryInv, DirType
  <2>2. ASSUME Found(t)
        PROVE  /\ pc[t] = "found" /\ \A r \in Rows \ {row[t]} : node_index'[r] = node_index[r]
               /\ node_index'[row[t]] = node_index[row[t]] \/ (node_index'[row[t]] = 0 /\ Inserting(t))
    BY <2>2 DEF Found, DirectoryInv, DirType
  <2>3. row[t] \in Rows
    BY DEF DirectoryInv, DirType
  <2>4. ~Assign(t) /\ ~Found(t) => UNCHANGED node_index
    BY OwnStep DEF DirectoryInv
  <2> QED
    BY <2>1, <2>2, <2>3, <2>4
<1> QED
  BY <1>1, DirectoryInvariance, PTL DEF Spec, AssignedOnce

-----------------------------------------------------------------------------
\* Requests that are served one after the other.
LEMMA InitInTurn == Init => InTurnInv
<1> SUFFICES ASSUME Init PROVE InTurnInv
  OBVIOUS
<1>1. \A n \in Nodes : RowsOf(n) = {} /\ Pending(n) = {} /\ row_num[n] = 0
  BY DirectoryAssumption DEF Init, RowsOf, Pending, Nodes
<1>2. Level
  BY <1>1, FS_EmptySet DEF Level
<1>3. Served /\ Scanned
  BY DEF Init, Served, New, Scanned
<1> QED
  BY <1>2, <1>3, InitDir DEF InTurnInv

\* When a thread acts in turn, every other thread is idle.
LEMMA Alone ==
  ASSUME InTurnInv, inTurn', NEW t \in Threads, WhereTest(t) \/ Work(t)
  PROVE  inTurn /\ \A u \in Threads \ {t} : pc[u] = "idle" /\ pc'[u] = "idle"
<1>1. WhereTest(t) => inTurn /\ \A u \in Threads : pc[u] = "idle"
  BY DEF WhereTest
<1>2. ~WhereTest(t) => inTurn' = inTurn /\ pc[t] # "idle"
  BY DEF history, Work, ScanStart, ScanNode, Assign, CountRead, CountWrite, Found, Reply
<1>3. inTurn /\ \A u \in Threads \ {t} : pc[u] = "idle"
  BY <1>1, <1>2 DEF InTurnInv, Served
<1> QED
  BY <1>3, OwnStep DEF InTurnInv

\* A lookup that nobody races with finds the row.
LEMMA FoundAlone ==
  ASSUME InTurnInv, inTurn', NEW t \in Threads, Found(t)
  PROVE  minID' = [minID EXCEPT ![t] = node_index[row[t]]] /\ UNCHANGED <<node_index, row>>
<1>1. \A u \in Threads \ {t} : pc[u] = "idle"
  BY Alone DEF Work
<1>2. ~Inserting(t)
  BY <1>1 DEF Inserting
<1>3. node_index = [node_index EXCEPT ![row[t]] = node_index[row[t]]]
  BY DEF InTurnInv, DirType
<1> QED
  BY <1>2, <1>3 DEF Found

LEMMA NextServed ==
  ASSUME InTurnInv, inTurn', NEW t \in Threads, WhereTest(t) \/ Work(t)
  PROVE  Served'
<1> USE DEF InTurnInv
<1>0. /\ inTurn /\ DirType /\ Served /\ New
      /\ \A u \in Threads \ {t} : pc[u] = "idle" /\ pc'[u] = "idle"
  BY Alone DEF Served
<1>1. \A u, v \in Threads : pc'[u] # "idle" /\ pc'[v] # "idle" => u = v
  BY <1>0
<1>2. New'
  <2>1. SUFFICES ASSUME pc'[t] \in {"start", "scan", "assign"}
                 PROVE  node_index'[row'[t]] = Unassigned
    BY <1>0 DEF New
  <2>2. ~Assign(t)
    BY <1>0, <2>1 DEF Assign, Goto, DirType
  <2>3. ~WhereTest(t) => pc[t] \in {"start", "scan", "assign"}
    BY <1>0, <2>1 DEF Work, ScanStart, ScanNode, Assign, CountRead, CountWrite, Found, Reply, Goto, DirType
  <2> QED
    BY <1>0, <2>1, <2>2, <2>3, OwnStep, FoundAlone DEF New
<1>3. pc'[t] \in {"count", "counted", "reply"} => node_index'[row'[t]] = minID'[t]
  <2>1. CASE Assign(t)
    BY <1>0, <2>1 DEF Assign, DirType
  <2>2. CASE CountRead(t) \/ CountWrite(t)
    BY <1>0, <2>2 DEF CountRead, CountWrite, Served
  <2>3. CASE Found(t)
    <3>1. minID' = [minID EXCEPT ![t] = node_index[row[t]]] /\ UNCHANGED <<node_index, row>>
      BY <2>3, FoundAlone
    <3> QED
      BY <1>0, <3>1 DEF DirType
  <2>4. CASE WhereTest(t) \/ ScanStart(t) \/ ScanNode(t) \/ Reply(t)
    BY <1>0, <2>4 DEF WhereTest, ScanStart, ScanNode, Reply, Goto, DirType
  <2> QED
    BY <2>1, <2>2, <2>3, <2>4 DEF Work
<1>4. \A x \in answers' : node_index'[x[1]] = x[2]
  <2>1. CASE Assign(t)
    <3>1. node_index[row[t]] = Unassigned /\ UNCHANGED answers
      BY <1>0, <2>1 DEF Assign, New
    <3>2. \A x \in answers : x[1] \in Rows /\ node_index[x[1]] = x[2] /\ x[2] # Unassigned
      BY <1>0, DirectoryAssumption DEF Served, DirType, Nodes
    <3> QED
      BY <1>0, <2>1, <3>1, <3>2, OwnStep DEF DirType
  <2>2. CASE Reply(t)
    <3>1. /\ answers' = answers \cup {<<row[t], minID[t]>>} /\ node_index[row[t]] = minID[t]
          /\ UNCHANGED node_index
      BY <1>0, <2>2 DEF Reply, Served
    <3> QED
      BY <1>0, <3>1 DEF Served
  <2>3. CASE ~Assign(t) /\ ~Reply(t)
    <3>1. UNCHANGED <<node_index, answers>>
      BY <2>3, FoundAlone DEF history, WhereTest, Work, ScanStart, ScanNode, CountRead, CountWrite, Found
    <3> QED
      BY <1>0, <3>1 DEF Served
  <2> QED
    BY <2>1, <2>2, <2>3
<1> QED
  BY <1>0, <1>1, <1>2, <1>3, <1>4 DEF Served

LEMMA NextLevel ==
  ASSUME InTurnInv, inTurn', NEW t \in Threads, WhereTest(t) \/ Work(t)
  PROVE  Level'
<1> USE DEF InTurnInv
<1>0. inTurn /\ DirType /\ Finite /\ New /\ Level /\ Scanned
  BY Alone DEF Served
<1>1. \A n \in Nodes : /\ Cardinality(RowsOf(n)) \in Nat /\ Cardinality(Pending(n)) \in Nat
                       /\ row_num[n] \in Nat
  BY <1>0, FS_CardinalityType DEF Finite, DirType
<1>2. CASE Assign(t)
  <2>1. node_index[row[t]] = Unassigned /\ UNCHANGED row_num
    BY <1>0, <1>2 DEF New, Assign
  <2>2. \A n \in Nodes : \E d \in {0, 1} : /\ Cardinality(Pending(n)') = Cardinality(Pending(n)) + d
                                        /\ Cardinality(RowsOf(n)') = Cardinality(RowsOf(n)) + d
    BY <1>0, <1>2, <2>1, AssignCards
  <2> QED
    BY <1>0, <1>1, <2>1, <2>2 DEF Level
<1>3. CASE CountWrite(t)
  <2> DEFINE m == minID[t]
  <2>1. /\ m \in Nodes /\ min[t] = row_num[m] /\ \A k \in Nodes : row_num[m] <= row_num[k]
        /\ row_num' = [row_num EXCEPT ![m] = min[t] + 1]
    BY <1>0, <1>3 DEF CountWrite, Scanned, Least, DirType
  <2>2. \A n \in Nodes : row_num'[n] = IF n = m THEN row_num[m] + 1 ELSE row_num[n]
    BY <1>0, <2>1 DEF DirType
  <2>3. \A n \in Nodes : /\ RowsOf(n)' = RowsOf(n)
                         /\ n # m => Pending(n)' = Pending(n)
                         /\ n = m => Cardinality(Pending(n)') = Cardinality(Pending(n)) - 1
    BY <1>0, <1>3, CountCards
  <2> HIDE DEF m
  <2>4. \A n \in Nodes : row_num'[n] + Cardinality(Pending(n)') = Cardinality(RowsOf(n)')
    BY <1>0, <1>1, <2>1, <2>2, <2>3 DEF Level
  <2>5. \A n, k \in Nodes : row_num'[n] <= row_num'[k] + 1
    BY <1>0, <1>1, <2>1, <2>2 DEF Level
  <2> QED
    BY <2>4, <2>5 DEF Level
<1>4. CASE ~Assign(t) /\ ~CountWrite(t)
  <2>1. UNCHANGED node_index
    BY <1>0, <1>4, OwnStep, FoundAlone
  <2>2. UNCHANGED row_num /\ \A n \in Nodes : Pending(n)' = Pending(n)
    BY <1>0, <1>4, SamePending
  <2>3. \A n \in Nodes : RowsOf(n)' = RowsOf(n)
    BY <2>1 DEF RowsOf
  <2> QED
    BY <1>0, <2>2, <2>3 DEF Level
<1> QED
  BY <1>2, <1>3, <1>4

\* The loop over nodes_list: minID has the least count of the nodes passed.
LEMMA NextScanned ==
  ASSUME InTurnInv, inTurn', NEW t \in Threads, WhereTest(t) \/ Work(t)
  PROVE  Scanned'
<1> USE DEF InTurnInv
<1>0. /\ inTurn /\ DirType /\ Scanned
      /\ \A u \in Threads \ {t} : pc[u] = "idle" /\ pc'[u] = "idle"
  BY Alone
<1>1. SUFFICES /\ pc'[t] \in {"scan", "counted"} => min'[t] = row_num'[minID'[t]]
               /\ pc'[t] = "scan" => \A k \in 0 .. i'[t] - 1 : row_num'[minID'[t]] <= row_num'[k]
               /\ pc'[t] \in {"assign", "count", "counted"} =>
                    \A k \in Nodes : row_num'[minID'[t]] <= row_num'[k]
  BY <1>0 DEF Scanned, Least
<1>2. CASE WhereTest(t) \/ Found(t) \/ Reply(t) \/ CountWrite(t)
  BY <1>0, <1>2 DEF WhereTest, Found, Reply, CountWrite, Goto, DirType
<1>3. CASE Assign(t) \/ CountRead(t)
  BY <1>0, <1>3 DEF Assign, CountRead, Goto, DirType, Scanned, Least
<1>4. CASE ScanStart(t)
  BY <1>0, <1>4 DEF ScanStart, Goto, DirType
<1>5. CASE ScanNode(t)
  <2>1. /\ pc[t] = "scan" /\ i[t] \in Nodes /\ i[t] \in Nat /\ UNCHANGED row_num
        /\ minID'[t] = (IF row_num[i[t]] < min[t] THEN i[t] ELSE minID[t])
        /\ min'[t] = (IF row_num[i[t]] < min[t] THEN row_num[i[t]] ELSE min[t])
        /\ i'[t] = i[t] + 1
        /\ pc'[t] = (IF i[t] + 1 = NumNodes THEN "assign" ELSE "scan")
    BY <1>0, <1>5, DirectoryAssumption DEF ScanNode, Goto, DirType, Nodes
  <2>2. min[t] = row_num[minID[t]] /\ \A k \in 0 .. i[t] - 1 : row_num[minID[t]] <= row_num[k]
    BY <1>0, <2>1 DEF Scanned, Least
  <2>3. /\ \A k \in Nodes : row_num[k] \in Nat
        /\ minID[t] \in Nodes /\ \A k \in 0 .. i[t] : k \in Nodes
        /\ i[t] + 1 = NumNodes => Nodes = 0 .. i[t]
    <3>1. NumNodes \in Nat /\ Nodes = 0 .. NumNodes - 1 /\ i[t] < NumNodes
      BY <1>0, <2>1, DirectoryAssumption DEF DirType, Nodes
    <3>2. (\A k \in Nodes : row_num[k] \in Nat) /\ minID[t] \in Nodes
      BY <1>0 DEF DirType
    <3> QED
      BY <2>1, <3>1, <3>2
  <2>4. min'[t] = row_num[minID'[t]] /\ min'[t] <= min[t] /\ min'[t] <= row_num[i[t]]
    BY <2>1, <2>2, <2>3
  <2>5. \A k \in 0 .. i[t] : k \in 0 .. i[t] - 1 \/ k = i[t]
    BY <2>1
  <2>6. \A k \in 0 .. i[t] : row_num[minID'[t]] <= row_num[k]
    <3> SUFFICES ASSUME NEW k \in 0 .. i[t] PROVE min'[t] <= row_num[k]
      BY <2>4
    <3>1. min[t] <= row_num[k] \/ k = i[t]
      BY <2>2, <2>5
    <3>2. min'[t] \in Nat /\ min[t] \in Nat /\ row_num[k] \in Nat
      BY <2>1, <2>2, <2>3
    <3> QED
      BY <2>4, <3>1, <3>2
  <2> QED
    BY <2>1, <2>3, <2>4, <2>6
<1> QED
  BY <1>2, <1>3, <1>4, <1>5 DEF Work

\* InTurnInv, the inductive invariant for requests served one after the other.
THEOREM DirectoryInTurn == Spec => []InTurnInv
<1>1. InTurnInv /\ [Next]_vars => InTurnInv'
  <2> SUFFICES ASSUME InTurnInv, [Next]_vars PROVE InTurnInv'
    OBVIOUS
  <2>1. CASE UNCHANGED vars
    <3>1. /\ DirType' /\ (inTurn => Served')
          /\ \A n \in Nodes : RowsOf(n)' = RowsOf(n) /\ Pending(n)' = Pending(n)
      BY <2>1 DEF vars, history, InTurnInv, DirType, Served, New, RowsOf, Pending
    <3>2. Finite' /\ (inTurn => Level')
      BY <2>1, <3>1 DEF vars, history, InTurnInv, Finite, Level
    <3>3. inTurn => Scanned'
      BY <2>1 DEF vars, history, InTurnInv, Scanned, Least
    <3> QED
      BY <2>1, <3>1, <3>2, <3>3 DEF vars, history, InTurnInv
  <2>2. CASE Next
    <3> PICK t \in Threads : WhereTest(t) \/ Work(t)
      BY <2>2 DEF Next
    <3>1. DirType' /\ Finite'
      BY NextDirType, NextFinite DEF InTurnInv
    <3> QED
      BY <3>1, NextServed, NextLevel, NextScanned DEF InTurnInv
  <2> QED
    BY <2>1, <2>2
<1> QED
  BY <1>1, InitInTurn, PTL DEF Spec

\* OneAnswer: requests served one after the other, by whichever threads, are told
\* one node for a row.
THEOREM DirectoryOneAnswer == Spec => []OneAnswer
<1>1. InTurnInv => OneAnswer
  BY DEF InTurnInv, Served, OneAnswer
<1> QED
  BY <1>1, DirectoryInTurn, PTL

\* Balanced: no lost increment makes a node's count exceed the rows assigned to
\* it; and requests served one after the other keep the counts right and the
\* nodes level.
THEOREM DirectoryBalanced == Spec => []Balanced
<1>1. DirectoryInv /\ InTurnInv => Balanced
  <2> SUFFICES ASSUME DirectoryInv, InTurnInv PROVE Balanced
    OBVIOUS
  <2>1. \A n \in Nodes : /\ Cardinality(RowsOf(n)) \in Nat /\ Cardinality(Pending(n)) \in Nat
                         /\ row_num[n] \in Nat
    BY FS_CardinalityType DEF InTurnInv, Finite, DirType
  <2>2. \A n \in Nodes : row_num[n] <= placed[n]
    BY <2>1 DEF DirectoryInv, DirType, Counts
  <2>3. ASSUME inTurn, Idle
        PROVE  \A n \in Nodes : row_num[n] = Cardinality(RowsOf(n))
    <3>1. \A n \in Nodes : Pending(n) = {}
      BY <2>3 DEF Idle, Pending
    <3> QED
      BY <2>1, <2>3, <3>1, FS_EmptySet DEF InTurnInv, Level
  <2> QED
    BY <2>2, <2>3 DEF Balanced, InTurnInv, Level
<1> QED
  BY <1>1, DirectoryInvariance, DirectoryInTurn, PTL
=============================================================================
