--------------------------- MODULE MasterDirectory ---------------------------
(***************************************************************************)
(* The master's directory of rows: parse_WHERE of                          *)
(* kvstore/master/masterWorker.cc, run by the threads of the master's      *)
(* pool.  node_index and nodes_list[i].row_num are shared; only two of the *)
(* accesses to node_index are under node_index_mutex, none of those to     *)
(* row_num are.  A step is one access to shared state.                     *)
(***************************************************************************)
EXTENDS Integers, FiniteSets

CONSTANTS
  Threads,     \* worker threads of the master
  NumNodes,    \* storage nodes in nodes_list
  Rows,        \* row names
  Unassigned,  \* no entry in node_index
  MaxRequests  \* bound: WHERE requests in all

ASSUME DirectoryAssumption ==
  /\ NumNodes \in Nat \ {0} /\ MaxRequests \in Nat
  /\ Unassigned \notin 0 .. NumNodes - 1

Nodes == 0 .. NumNodes - 1

VARIABLES
  node_index,  \* row -> node
  row_num,     \* node -> number of rows
  pc, row,     \* per thread: place in parse_WHERE, and the row asked for
  i, minID, min,  \* per thread: the loop over nodes_list
  requests,    \* number of requests received
  answers,     \* history: <<row, node>> for every answer sent
  inTurn,      \* history: no request came while another was being served
  known,       \* history, per thread: its row had a node when it was asked for
  placed       \* history: node -> number of assignments to it

history == <<answers, inTurn, known, placed>>
vars == <<node_index, row_num, pc, row, i, minID, min, requests, history>>

Init ==
  /\ node_index = [r \in Rows |-> Unassigned]
  /\ row_num = [n \in Nodes |-> 0]
  /\ pc = [t \in Threads |-> "idle"]
  /\ row \in [Threads -> Rows] /\ \A t \in Threads : row[t] = CHOOSE r \in Rows : TRUE
  /\ i = [t \in Threads |-> 0]
  /\ minID = [t \in Threads |-> 0]
  /\ min = [t \in Threads |-> 0]
  /\ requests = 0
  /\ answers = {}
  /\ inTurn = TRUE
  /\ known = [t \in Threads |-> FALSE]
  /\ placed = [n \in Nodes |-> 0]

Goto(t, l) == pc' = [pc EXCEPT ![t] = l]

\* MUTANT: the row is assigned without being looked up.
WhereTest_AlwaysNew(t) ==
  /\ pc[t] = "idle" /\ requests < MaxRequests
  /\ requests' = requests + 1
  /\ inTurn' = (inTurn /\ \A u \in Threads : pc[u] = "idle")
  /\ \E r \in Rows :
       /\ row' = [row EXCEPT ![t] = r]
       /\ known' = [known EXCEPT ![t] = node_index[r] # Unassigned]
  /\ Goto(t, "start")
  /\ UNCHANGED <<node_index, row_num, i, minID, min, answers, placed>>

\* A request is read, and its row looked up under the mutex.
WhereTest(t) ==
  /\ pc[t] = "idle" /\ requests < MaxRequests
  /\ requests' = requests + 1
  /\ inTurn' = (inTurn /\ \A u \in Threads : pc[u] = "idle")
  /\ \E r \in Rows :
       /\ row' = [row EXCEPT ![t] = r]
       /\ known' = [known EXCEPT ![t] = node_index[r] # Unassigned]
       /\ Goto(t, IF node_index[r] = Unassigned THEN "start" ELSE "found")
  /\ UNCHANGED <<node_index, row_num, i, minID, min, answers, placed>>

\* min = nodes_list[0].row_num
ScanStart(t) ==
  /\ pc[t] = "start"
  /\ min' = [min EXCEPT ![t] = row_num[0]]
  /\ minID' = [minID EXCEPT ![t] = 0]
  /\ i' = [i EXCEPT ![t] = 0]
  /\ Goto(t, "scan")
  /\ UNCHANGED <<node_index, row_num, row, requests, history>>

\* MUTANT: a later node with as many rows is taken.
ScanNode_NotStrict(t) ==
  /\ pc[t] = "scan"
  /\ minID' = [minID EXCEPT ![t] = IF row_num[i[t]] >= min[t] THEN i[t] ELSE @]
  /\ min' = [min EXCEPT ![t] = IF row_num[i[t]] >= min[t] THEN row_num[i[t]] ELSE @]
  /\ i' = [i EXCEPT ![t] = @ + 1]
  /\ Goto(t, IF i[t] + 1 = NumNodes THEN "assign" ELSE "scan")
  /\ UNCHANGED <<node_index, row_num, row, requests, history>>

\* One turn of the loop that finds the node with the least rows.
ScanNode(t) ==
  /\ pc[t] = "scan"
  /\ minID' = [minID EXCEPT ![t] = IF row_num[i[t]] < min[t] THEN i[t] ELSE @]
  /\ min' = [min EXCEPT ![t] = IF row_num[i[t]] < min[t] THEN row_num[i[t]] ELSE @]
  /\ i' = [i EXCEPT ![t] = @ + 1]
  /\ Goto(t, IF i[t] + 1 = NumNodes THEN "assign" ELSE "scan")
  /\ UNCHANGED <<node_index, row_num, row, requests, history>>

\* node_index[row] = minID, under the mutex.
Assign(t) ==
  /\ pc[t] = "assign"
  /\ node_index' = [node_index EXCEPT ![row[t]] = minID[t]]
  /\ placed' = [placed EXCEPT ![minID[t]] = @ + 1]
  /\ Goto(t, "count")
  /\ UNCHANGED <<row_num, row, i, minID, min, requests, answers, inTurn, known>>

\* row_num = row_num + 1 is a read and a write; min is reused for the value
\* that was read.
CountRead(t) ==
  /\ pc[t] = "count"
  /\ min' = [min EXCEPT ![t] = row_num[minID[t]]]
  /\ Goto(t, "counted")
  /\ UNCHANGED <<node_index, row_num, row, i, minID, requests, history>>

CountWrite(t) ==
  /\ pc[t] = "counted"
  /\ row_num' = [row_num EXCEPT ![minID[t]] = min[t] + 1]
  /\ Goto(t, "reply")
  /\ UNCHANGED <<node_index, row, i, minID, min, requests, history>>

\* Another thread is just inserting a row that node_index does not have.
Inserting(t) == \E u \in Threads \ {t} : pc[u] = "assign" /\ node_index[row[u]] = Unassigned

\* int nodeID = node_index[row], without the mutex.  While another thread
\* inserts, the search may miss the entry: operator[] then inserts <row, 0>, and
\* whichever of the two entries lies before the other is found from then on.
Found(t) ==
  /\ pc[t] = "found"
  /\ \E n \in {node_index[row[t]]} \cup (IF Inserting(t) THEN {0} ELSE {}) :
       /\ minID' = [minID EXCEPT ![t] = n]
       /\ \E kept \in {node_index[row[t]], n} : node_index' = [node_index EXCEPT ![row[t]] = kept]
  /\ Goto(t, "reply")
  /\ UNCHANGED <<row_num, row, i, min, requests, history>>

Reply(t) ==
  /\ pc[t] = "reply"
  /\ answers' = answers \cup {<<row[t], minID[t]>>}
  /\ Goto(t, "idle")
  /\ UNCHANGED <<node_index, row_num, row, i, minID, min, requests, inTurn, known, placed>>

Work(t) == \/ ScanStart(t) \/ ScanNode(t) \/ Assign(t)
           \/ CountRead(t) \/ CountWrite(t) \/ Found(t) \/ Reply(t)

Next == \E t \in Threads : WhereTest(t) \/ Work(t)

Spec == Init /\ [][Next]_vars

-----------------------------------------------------------------------------
(* Properties *)

Idle == \A t \in Threads : pc[t] = "idle"
RowsOf(n) == {r \in Rows : node_index[r] = n}

\* Unsynchronised increments may be lost, but a node never counts more rows
\* than were assigned to it.  As long as requests are served one after the
\* other, row_num is the number of rows of each node, and no node has two rows
\* more than another: the least loaded node gets the next row.
Balanced ==
  /\ \A n \in Nodes : row_num[n] <= placed[n]
  /\ inTurn /\ Idle =>
       /\ \A n \in Nodes : row_num[n] = Cardinality(RowsOf(n))
       /\ \A n, m \in Nodes : row_num[n] <= row_num[m] + 1

\* A row that has a node is taken from it, and its data lost from sight, in two
\* ways only: by a request that was looked up before the row had a node (the two
\* critical sections of parse_WHERE), or for node 0, by a lookup without the
\* mutex while another thread inserts a row.
AssignedOnce ==
  [][\A r \in Rows : node_index[r] # Unassigned /\ node_index'[r] # node_index[r] =>
       \E t \in Threads : /\ row[t] = r
                          /\ \/ pc[t] = "assign" /\ ~known[t]
                             \/ pc[t] = "found" /\ node_index'[r] = 0 /\ Inserting(t)]_vars

\* As long as requests are served one after the other, WHERE names one node
\* for a row, whoever asks.
OneAnswer == inTurn => \A x, y \in answers : x[1] = y[1] => x[2] = y[2]
=============================================================================
