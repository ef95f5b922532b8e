------------------------------ MODULE PoolProofs ------------------------------
(***************************************************************************)
(* Proofs about the thread pool, for any number of threads and             *)
(* connections: no connection is lost, served twice or deleted twice,      *)
(* except in the two races that FreedOnce names.                           *)
(***************************************************************************)
EXTENDS Pool, SequenceTheorems, FiniteSetTheorems, TLAPS

(* A connection is accepted once, and is then queued at one place or held  *)
(* by one thread.                                                          *)
QueuedOnce == \A i, j \in DOMAIN workQueue : workQueue[i] = workQueue[j] => i = j
HeldOnce   == \A t, u \in Threads : task[t] = task[u] /\ task[t] # None => t = u
Apart      == \A t \in Threads : task[t] \notin Queued
Fresh      == \A c \in Conns : sock[c] = "none" =>
                freed[c] = 0 /\ c \notin Queued \cup ongoing /\ \A t \in Threads : task[t] # c
EmptyHanded == \A t \in Threads : pc[t] \in {"lock", "test", "towait", "waiting"} => task[t] = None
NotLost    == \A c \in Conns : sock[c] # "none" /\ freed[c] = 0 =>
                c \in Queued \/ \E t \in Threads : task[t] = c

(* What is being served or was deleted is in the queue no more.            *)
Dequeued == \A c \in Queued : c \notin ongoing /\ freed[c] = 0

(* closeAll deletes what it visits, and a thread what it holds.            *)
Deletions ==
  /\ \A c \in Conns : freed[c] <= 1 + (IF c \in visited THEN 1 ELSE 0)
  /\ \A t \in Threads : task[t] # None =>
       freed[task[t]] <= (IF task[t] \in visited THEN 1 ELSE 0)

(* The shutdown: closed is set when closeAll starts, before it visits      *)
(* anything; a connection visited while its thread is past the test of     *)
(* closed is in crossed.                                                   *)
Closing ==
  /\ closed <=> main # "accept"
  /\ main = "accept" => visited = {}
  /\ main # "killed" => \A c \in visited : freed[c] > 0
  /\ main # "killed" => \A t \in Threads :
       pc[t] \in {"erasing", "deleting"} /\ task[t] \in visited => task[t] \in crossed

(* Without a race, ongoing is what the threads serve.                      *)
Serving(t) == task[t] # None /\ pc[t] \in {"run", "ran", "erasing", "done"}
Ongoing ==
  raced \/ /\ \A c \in ongoing : \E t \in Threads : task[t] = c /\ Serving(t)
           /\ \A t \in Threads : Serving(t) => task[t] \in ongoing

PoolInv ==
  /\ TypeOK
  /\ QueuedOnce /\ HeldOnce /\ Apart /\ Fresh /\ EmptyHanded /\ NotLost
  /\ Dequeued
  /\ Deletions
  /\ Closing
  /\ Ongoing
  /\ FreedOnce

-----------------------------------------------------------------------------
\* push: the queue gains one connection, at its end.
LEMMA Pushed ==
  ASSUME TypeOK, QueuedOnce, NEW c \in Conns, c \notin Queued,
         workQueue' = Append(workQueue, c)
  PROVE  workQueue' \in Seq(Conns) /\ QueuedOnce' /\ Queued' = Queued \cup {c}
<1>1. /\ workQueue \in Seq(Conns) /\ workQueue' \in Seq(Conns)
      /\ DOMAIN workQueue = 1 .. Len(workQueue) /\ Len(workQueue) \in Nat
      /\ DOMAIN workQueue' = 1 .. Len(workQueue) + 1
      /\ workQueue'[Len(workQueue) + 1] = c
      /\ \A i \in 1 .. Len(workQueue) : workQueue'[i] = workQueue[i]
  BY DEF TypeOK
<1>2. Queued' = Queued \cup {c}
  BY <1>1 DEF Queued
<1>3. QueuedOnce'
  BY <1>1 DEF QueuedOnce, Queued
<1> QED
  BY <1>1, <1>2, <1>3

\* front and pop: the queue loses the connection that was first.
LEMMA Popped ==
  ASSUME TypeOK, QueuedOnce, workQueue # <<>>, workQueue' = Tail(workQueue)
  PROVE  /\ workQueue' \in Seq(Conns) /\ QueuedOnce'
         /\ Head(workQueue) \in Queued /\ Queued' = Queued \ {Head(workQueue)}
<1>1. /\ workQueue \in Seq(Conns) /\ workQueue' \in Seq(Conns)
      /\ DOMAIN workQueue = 1 .. Len(workQueue) /\ Len(workQueue) \in Nat \ {0}
      /\ DOMAIN workQueue' = 1 .. Len(workQueue) - 1
      /\ Head(workQueue) = workQueue[1]
      /\ \A i \in 1 .. Len(workQueue) - 1 : workQueue'[i] = workQueue[i + 1]
  BY DEF TypeOK
<1>2. Head(workQueue) \in Queued
  BY <1>1 DEF Queued
<1>3. Queued' = Queued \ {Head(workQueue)}
  <2>1. ASSUME NEW i \in DOMAIN workQueue'
        PROVE  workQueue'[i] \in Queued \ {Head(workQueue)}
    BY <1>1 DEF Queued, QueuedOnce
  <2>2. ASSUME NEW i \in DOMAIN workQueue, workQueue[i] # Head(workQueue)
        PROVE  i - 1 \in DOMAIN workQueue' /\ workQueue'[i - 1] = workQueue[i]
    BY <1>1, <2>2
  <2> QED
    BY <2>1, <2>2 DEF Queued
<1>4. QueuedOnce'
  BY <1>1 DEF QueuedOnce
<1> QED
  BY <1>1, <1>2, <1>3, <1>4

LEMMA QueuedConns == TypeOK => Queued \subseteq Conns
BY DEF TypeOK, Queued

\* Nothing is open, queued, held or deleted at first.
LEMMA InitPool == Init => PoolInv
<1> SUFFICES ASSUME Init PROVE PoolInv
  OBVIOUS
<1>1. TypeOK
  <2>1. workQueue \in Seq(Conns)
    BY DEF Init
  <2>2. closed \in BOOLEAN /\ raced \in BOOLEAN
    BY DEF Init
  <2>3. freed \in [Conns -> 0 .. 2]
    BY DEF Init
  <2> QED
    BY <2>1, <2>2, <2>3 DEF Init, TypeOK, Places
<1>2. Queued = {}
  BY DEF Init, Queued
<1>3. QueuedOnce /\ HeldOnce /\ Apart /\ Fresh /\ EmptyHanded /\ NotLost /\ Dequeued
  BY <1>2, PoolAssumption DEF Init, QueuedOnce, HeldOnce, Apart, Fresh, EmptyHanded, NotLost, Dequeued
<1>4. Deletions /\ Closing /\ Ongoing /\ FreedOnce
  BY DEF Init, Deletions, Closing, Ongoing, Serving, FreedOnce
<1> QED
  BY <1>1, <1>3, <1>4 DEF PoolInv

-----------------------------------------------------------------------------
\* A client speaks or leaves.
LEMMA ClientPool ==
  ASSUME PoolInv, NEW c \in Conns, Quit(c) \/ Leave(c)
  PROVE  PoolInv'
<1> USE DEF PoolInv
<1>1. /\ sock[c] # "none" /\ sock' \in [Conns -> {"none", "open", "quit", "gone"}]
      /\ \A d \in Conns : sock'[d] = "none" <=> sock[d] = "none"
      /\ UNCHANGED <<workQueue, mutex, pc, task, ongoing, closed, main, visited, freed, raced, crossed>>
  BY DEF Quit, Leave, TypeOK
<1>2. TypeOK'
  BY <1>1 DEF TypeOK
<1>3. Queued' = Queued /\ QueuedOnce'
  BY <1>1 DEF Queued, QueuedOnce
<1>4. HeldOnce' /\ Apart' /\ Fresh' /\ EmptyHanded' /\ NotLost' /\ Dequeued'
  BY <1>1, <1>3 DEF HeldOnce, Apart, Fresh, EmptyHanded, NotLost, Dequeued
<1>5. Deletions' /\ Closing' /\ Ongoing' /\ FreedOnce'
  BY <1>1 DEF Deletions, Closing, Ongoing, Serving, FreedOnce
<1> QED
  BY <1>2, <1>3, <1>4, <1>5

\* A connection is accepted and queued; a thread may be woken.
LEMMA AcceptPool ==
  ASSUME PoolInv, NEW c \in Conns, Accept(c)
  PROVE  PoolInv'
<1> USE DEF PoolInv
<1>1. /\ main = "accept" /\ sock[c] = "none" /\ sock' = [sock EXCEPT ![c] = "open"]
      /\ workQueue' = Append(workQueue, c)
      /\ UNCHANGED <<mutex, task, ongoing, closed, main, visited, freed, raced, crossed>>
  BY DEF Accept, AddTask
<1>2. /\ pc' \in [Threads -> Places]
      /\ \A t \in Threads : pc'[t] # pc[t] => pc[t] = "waiting" /\ pc'[t] = "lock"
  <2>1. pc \in [Threads -> Places] /\ "lock" \in Places
    BY DEF TypeOK, Places
  <2>2. UNCHANGED pc \/ (\E t \in Threads : pc[t] = "waiting" /\ pc' = [pc EXCEPT ![t] = "lock"])
    BY DEF Accept, AddTask
  <2> QED
    BY <2>1, <2>2
<1>3. c \notin Queued /\ freed[c] = 0 /\ c \notin ongoing /\ \A t \in Threads : task[t] # c
  BY <1>1 DEF Fresh
<1>4. workQueue' \in Seq(Conns) /\ QueuedOnce' /\ Queued' = Queued \cup {c}
  BY <1>1, <1>3, Pushed
<1>5. TypeOK'
  BY <1>1, <1>2, <1>4 DEF TypeOK
<1>6. HeldOnce' /\ Apart' /\ Fresh' /\ EmptyHanded' /\ NotLost' /\ Dequeued'
  <2>1. \A d \in Conns : sock'[d] = (IF d = c THEN "open" ELSE sock[d])
    BY <1>1 DEF TypeOK
  <2> QED
    BY <1>1, <1>2, <1>3, <1>4, <2>1, QueuedConns
       DEF HeldOnce, Apart, Fresh, EmptyHanded, NotLost, Dequeued
<1>7. Deletions' /\ Closing'
  BY <1>1, <1>2 DEF Deletions, Closing
<1>8. Ongoing' /\ FreedOnce'
  <2>1. \A t \in Threads : Serving(t)' <=> Serving(t)
    BY <1>1, <1>2 DEF Serving
  <2> QED
    BY <1>1, <1>2, <2>1 DEF Ongoing, FreedOnce
<1> QED
  BY <1>4, <1>5, <1>6, <1>7, <1>8

\* SIGINT.
LEMMA ShutdownPool ==
  ASSUME PoolInv, Shutdown
  PROVE  PoolInv'
<1> USE DEF PoolInv
<1>1. /\ main = "accept" /\ main' = "closing" /\ closed'
      /\ UNCHANGED <<sock, workQueue, mutex, task, ongoing, visited, freed, raced, crossed>>
  BY DEF Shutdown
<1>2. /\ pc' \in [Threads -> Places]
      /\ \A t \in Threads : pc'[t] # pc[t] => pc[t] = "waiting" /\ pc'[t] = "lock"
  BY DEF Shutdown, TypeOK, Places
<1>3. TypeOK'
  BY <1>1, <1>2 DEF TypeOK, Shutdown
<1>4. Queued' = Queued /\ QueuedOnce'
  BY <1>1 DEF Queued, QueuedOnce
<1>5. HeldOnce' /\ Apart' /\ Fresh' /\ EmptyHanded' /\ NotLost' /\ Dequeued'
  BY <1>1, <1>2, <1>4 DEF HeldOnce, Apart, Fresh, EmptyHanded, NotLost, Dequeued
<1>6. Deletions' /\ Closing'
  BY <1>1, <1>2 DEF Deletions, Closing
<1>7. Ongoing' /\ FreedOnce'
  <2>1. \A t \in Threads : Serving(t)' <=> Serving(t)
    BY <1>1, <1>2 DEF Serving
  <2> QED
    BY <1>1, <1>2, <2>1 DEF Ongoing, FreedOnce
<1> QED
  BY <1>3, <1>4, <1>5, <1>6, <1>7

\* One round of the loop of closeAll.  The connection is in ongoing: it is held
\* by a thread that has not deleted it, or an update of ongoing was lost.
LEMMA ClosePool ==
  ASSUME PoolInv, CloseAll
  PROVE  PoolInv'
<1> USE DEF PoolInv
<1>1. CASE EndLoop
  <2>1. /\ main = "closing" /\ main' = "exit" /\ ongoing \subseteq visited
        /\ UNCHANGED <<sock, workQueue, mutex, pc, task, ongoing, closed, visited, freed, raced, crossed>>
    BY <1>1 DEF EndLoop, CloseEnd
  <2>2. TypeOK'
    BY <2>1 DEF TypeOK
  <2>3. Queued' = Queued /\ QueuedOnce'
    BY <2>1 DEF Queued, QueuedOnce
  <2>4. HeldOnce' /\ Apart' /\ Fresh' /\ EmptyHanded' /\ NotLost' /\ Dequeued'
    BY <2>1, <2>3 DEF HeldOnce, Apart, Fresh, EmptyHanded, NotLost, Dequeued
  <2>5. Deletions' /\ Closing' /\ Ongoing'
    BY <2>1 DEF Deletions, Closing, Ongoing, Serving
  <2>6. FreedOnce'
    BY <2>1 DEF FreedOnce, Ongoing, Serving, Closing
  <2> QED
    BY <2>2, <2>3, <2>4, <2>5, <2>6
<1>2. CASE \E c \in Conns : CloseOne(c)
  <2> PICK c \in Conns : CloseOne(c)
    BY <1>2
  <2>1. /\ main = "closing" /\ c \in ongoing /\ c \notin visited
        /\ visited' = visited \cup {c}
        /\ UNCHANGED <<sock, workQueue, mutex, pc, task, ongoing, closed, raced>>
    BY DEF CloseOne
  <2>2. Queued' = Queued /\ QueuedOnce' /\ c \notin Queued
    BY <2>1 DEF Queued, QueuedOnce, Dequeued
  <2>3. CASE main' = "killed" /\ UNCHANGED <<freed, crossed>>
    <3>1. TypeOK'
      BY <2>1, <2>3 DEF TypeOK
    <3>2. HeldOnce' /\ Apart' /\ Fresh' /\ EmptyHanded' /\ NotLost' /\ Dequeued'
      BY <2>1, <2>2, <2>3 DEF HeldOnce, Apart, Fresh, EmptyHanded, NotLost, Dequeued
    <3>3. Deletions'
      BY <2>1, <2>3 DEF Deletions, TypeOK
    <3>4. Closing' /\ Ongoing' /\ FreedOnce'
      BY <2>1, <2>3 DEF Closing, Ongoing, Serving, FreedOnce
    <3> QED
      BY <2>2, <3>1, <3>2, <3>3, <3>4
  <2>4. CASE /\ freed' = [freed EXCEPT ![c] = @ + 1]
             /\ crossed' = (IF PastTest(c) THEN crossed \cup {c} ELSE crossed)
             /\ UNCHANGED main
    <3>1. /\ \A d \in Conns : freed'[d] = (IF d = c THEN freed[c] + 1 ELSE freed[d])
          /\ \A d \in Conns : freed[d] \in 0 .. 2
          /\ freed[c] <= 1 /\ crossed \subseteq crossed'
      BY <2>1, <2>4 DEF TypeOK, Deletions
    <3>2. TypeOK'
      <4>1. freed' \in [Conns -> 0 .. 2]
        BY <3>1, <2>4 DEF TypeOK
      <4> QED
        BY <2>1, <2>4, <4>1 DEF TypeOK
    <3>3. HeldOnce' /\ Apart' /\ Fresh' /\ EmptyHanded' /\ NotLost' /\ Dequeued'
      BY <2>1, <2>2, <3>1, QueuedConns DEF HeldOnce, Apart, Fresh, EmptyHanded, NotLost, Dequeued
    <3>4. Deletions'
      BY <2>1, <3>1 DEF Deletions, TypeOK
    <3>5. Closing'
      BY <2>1, <2>4, <3>1 DEF Closing, PastTest, TypeOK
    <3>6. Ongoing'
      BY <2>1, <2>4 DEF Ongoing, Serving
    <3>7. FreedOnce'
      <4>1. freed'[c] > 1 => raced \/ c \in crossed'
        BY <2>1, <3>1 DEF Ongoing, Serving, Deletions
      <4> QED
        BY <2>1, <2>4, <3>1, <4>1 DEF FreedOnce
    <3> QED
      BY <2>2, <3>2, <3>3, <3>4, <3>5, <3>6, <3>7
  <2> QED
    BY <2>3, <2>4 DEF CloseOne
<1> QED
  BY <1>1, <1>2 DEF CloseAll

-----------------------------------------------------------------------------
\* A step of a thread that keeps its task and changes neither queue nor ongoing.
LEMMA QuietPool ==
  ASSUME PoolInv, TypeOK', NEW t \in Threads,
         main \in {"accept", "closing"},
         \A u \in Threads \ {t} : pc'[u] = pc[u],
         pc'[t] \in {"lock", "test", "towait", "waiting"} => task[t] = None,
         task[t] = None \/ (pc[t] \in {"run", "ran", "erasing", "done"}
                               <=> pc'[t] \in {"run", "ran", "erasing", "done"}),
         pc'[t] \in {"erasing", "deleting"} => ~closed,
         UNCHANGED <<sock, workQueue, task, ongoing, closed, main, visited, freed, raced, crossed>>
  PROVE  PoolInv'
<1> USE DEF PoolInv
<1>2. Queued' = Queued /\ QueuedOnce'
  BY DEF Queued, QueuedOnce
<1>3. HeldOnce' /\ Apart' /\ Fresh' /\ EmptyHanded' /\ NotLost' /\ Dequeued'
  BY <1>2 DEF HeldOnce, Apart, Fresh, EmptyHanded, NotLost, Dequeued
<1>4. Deletions'
  BY DEF Deletions
<1>5. Closing'
  BY DEF Closing
<1>6. Ongoing' /\ FreedOnce'
  <2>1. \A u \in Threads : Serving(u)' <=> Serving(u)
    BY DEF Serving
  <2> QED
    BY <2>1 DEF Ongoing, FreedOnce
<1> QED
  BY <1>2, <1>3, <1>4, <1>5, <1>6

\* Locking, the tests, waiting, and the moves between the updates of ongoing.
LEMMA LockPool ==
  ASSUME PoolInv, NEW t \in Threads, main \in {"accept", "closing"},
         Lock(t) \/ Wait(t) \/ Wake(t) \/ StartInsert(t) \/ Run(t) \/ TestClosed(t) \/ Cancelled(t)
  PROVE  PoolInv'
<1>0. /\ pc[t] \in {"lock", "towait", "waiting"} => task[t] = None
      /\ pc \in [Threads -> Places] /\ mutex \in Threads \cup {None} /\ TypeOK
  BY DEF EmptyHanded, TypeOK, PoolInv
<1>1. CASE Lock(t)
  <2>1. TypeOK'
    BY <1>0, <1>1, PoolAssumption DEF Lock, TypeOK, Places
  <2>2. /\ \A u \in Threads \ {t} : pc'[u] = pc[u]
        /\ pc'[t] = "test"
        /\ UNCHANGED <<sock, workQueue, task, ongoing, closed, main, visited, freed, raced, crossed>>
    BY <1>0, <1>1 DEF Lock
  <2> QED
    BY <1>0, <1>1, <2>1, <2>2, QuietPool DEF Lock
<1>2. CASE Wait(t)
  <2>1. TypeOK'
    BY <1>0, <1>2 DEF Wait, TypeOK, Places
  <2>2. /\ \A u \in Threads \ {t} : pc'[u] = pc[u]
        /\ pc'[t] = "waiting"
        /\ UNCHANGED <<sock, workQueue, task, ongoing, closed, main, visited, freed, raced, crossed>>
    BY <1>0, <1>2 DEF Wait
  <2> QED
    BY <1>0, <1>2, <2>1, <2>2, QuietPool DEF Wait
<1>3. CASE Wake(t)
  <2>1. TypeOK'
    BY <1>0, <1>3 DEF Wake, TypeOK, Places
  <2>2. /\ \A u \in Threads \ {t} : pc'[u] = pc[u]
        /\ pc'[t] = "lock"
        /\ UNCHANGED <<sock, workQueue, task, ongoing, closed, main, visited, freed, raced, crossed>>
    BY <1>0, <1>3 DEF Wake
  <2> QED
    BY <1>0, <1>3, <2>1, <2>2, QuietPool DEF Wake
<1>4. CASE StartInsert(t)
  <2>1. TypeOK'
    BY <1>0, <1>4 DEF StartInsert, TypeOK, Places
  <2>2. /\ \A u \in Threads \ {t} : pc'[u] = pc[u]
        /\ pc'[t] = "inserting"
        /\ UNCHANGED <<sock, workQueue, task, ongoing, closed, main, visited, freed, raced, crossed>>
    BY <1>0, <1>4 DEF StartInsert
  <2> QED
    BY <1>0, <1>4, <2>1, <2>2, QuietPool DEF StartInsert
<1>5. CASE Run(t)
  <2>1. TypeOK'
    BY <1>0, <1>5 DEF Run, TypeOK, Places
  <2>2. /\ \A u \in Threads \ {t} : pc'[u] = pc[u]
        /\ pc'[t] = "ran"
        /\ UNCHANGED <<sock, workQueue, task, ongoing, closed, main, visited, freed, raced, crossed>>
    BY <1>0, <1>5 DEF Run
  <2> QED
    BY <1>0, <1>5, <2>1, <2>2, QuietPool DEF Run
<1>6. CASE TestClosed(t)
  <2>1. TypeOK'
    BY <1>0, <1>6 DEF TestClosed, AfterRun, TypeOK, Places
  <2>2. /\ \A u \in Threads \ {t} : pc'[u] = pc[u]
        /\ pc'[t] = (IF closed THEN "done" ELSE "erasing")
        /\ UNCHANGED <<sock, workQueue, task, ongoing, closed, main, visited, freed, raced, crossed>>
    BY <1>0, <1>6 DEF TestClosed, AfterRun
  <2> QED
    BY <1>0, <1>6, <2>1, <2>2, QuietPool DEF TestClosed
<1>7. CASE Cancelled(t)
  <2>1. TypeOK'
    BY <1>0, <1>7, PoolAssumption DEF Cancelled, TypeOK, Places
  <2>2. /\ \A u \in Threads \ {t} : pc'[u] = pc[u]
        /\ pc'[t] = "done"
        /\ UNCHANGED <<sock, workQueue, task, ongoing, closed, main, visited, freed, raced, crossed>>
    BY <1>0, <1>7 DEF Cancelled
  <2> QED
    BY <1>0, <1>7, <2>1, <2>2, QuietPool DEF Cancelled
<1> QED
  BY <1>1, <1>2, <1>3, <1>4, <1>5, <1>6, <1>7

\* The tests under the mutex, and the pop.
LEMMA TestPool ==
  ASSUME PoolInv, NEW t \in Threads, main \in {"accept", "closing"}, Test(t)
  PROVE  PoolInv'
<1>0. /\ pc[t] = "test" /\ task[t] = None /\ mutex = t
      /\ UNCHANGED <<sock, ongoing, closed, main, visited, freed, raced, crossed>>
      /\ TypeOK /\ pc \in [Threads -> Places]
  BY DEF Test, EmptyHanded, TypeOK, PoolInv
<1>1. CASE /\ mutex' = None /\ pc' = [pc EXCEPT ![t] = "done"]
           /\ UNCHANGED <<workQueue, task>>
  <2>1. TypeOK'
    BY <1>0, <1>1 DEF TypeOK, Places
  <2>2. pc'[t] = "done" /\ \A u \in Threads \ {t} : pc'[u] = pc[u]
    BY <1>0, <1>1
  <2> QED
    BY <1>0, <1>1, <2>1, <2>2, QuietPool
<1>2. CASE pc' = [pc EXCEPT ![t] = "towait"] /\ UNCHANGED <<workQueue, task, mutex>>
  <2>1. TypeOK'
    BY <1>0, <1>2 DEF TypeOK, Places
  <2>2. pc'[t] = "towait" /\ \A u \in Threads \ {t} : pc'[u] = pc[u]
    BY <1>0, <1>2
  <2> QED
    BY <1>0, <1>2, <2>1, <2>2, QuietPool
<1>3. CASE ~closed /\ Pop(t) /\ mutex' = None /\ pc' = [pc EXCEPT ![t] = "popped"]
  <2> USE DEF PoolInv
  <2> DEFINE c == Head(workQueue)
  <2>1. workQueue # <<>> /\ workQueue' = Tail(workQueue) /\ task' = [task EXCEPT ![t] = c]
    BY <1>3 DEF Pop
  <2>2. /\ workQueue' \in Seq(Conns) /\ QueuedOnce' /\ c \in Queued /\ Queued' = Queued \ {c}
    BY <2>1, Popped
  <2>3. c \in Conns /\ c # None
    BY <2>2, QueuedConns, PoolAssumption
  <2>4. freed[c] = 0 /\ c \notin ongoing /\ sock[c] # "none" /\ \A u \in Threads : task[u] # c
    BY <2>2, <2>3 DEF Dequeued, Fresh, Apart
  <2> HIDE DEF c
  <2>5. \A u \in Threads : /\ pc'[u] = (IF u = t THEN "popped" ELSE pc[u])
                            /\ task'[u] = (IF u = t THEN c ELSE task[u])
    BY <1>3, <2>1 DEF TypeOK
  <2>6. TypeOK'
    BY <1>0, <1>3, <2>1, <2>2, <2>3, <2>5 DEF TypeOK, Places
  <2>7. HeldOnce' /\ Apart' /\ EmptyHanded' /\ Dequeued'
    BY <1>0, <2>2, <2>4, <2>5 DEF HeldOnce, Apart, EmptyHanded, Dequeued
  <2>8. Fresh' /\ NotLost'
    <3>1. Fresh'
      BY <1>0, <2>2, <2>3, <2>4, <2>5 DEF Fresh
    <3>2. \A d \in Conns : d # c /\ (\E u \in Threads : task[u] = d) => \E u \in Threads : task'[u] = d
      BY <1>0, <2>5, PoolAssumption
    <3>3. NotLost'
      BY <1>0, <2>2, <2>3, <2>5, <3>2 DEF NotLost
    <3> QED
      BY <3>1, <3>3
  <2>9. Deletions' /\ Closing'
    <3>1. c \notin visited
      BY <1>3 DEF Closing
    <3> QED
      BY <1>0, <2>3, <2>4, <2>5, <3>1 DEF Deletions, Closing
  <2>10. Ongoing' /\ FreedOnce'
    <3>1. \A u \in Threads : (Serving(u)' <=> Serving(u)) /\ (Serving(u) => task'[u] = task[u])
      BY <1>0, <2>5 DEF Serving
    <3> QED
      BY <1>0, <1>3, <2>5, <3>1 DEF Ongoing, FreedOnce, Closing
  <2> QED
    BY <2>2, <2>6, <2>7, <2>8, <2>9, <2>10
<1> QED
  BY <1>1, <1>2, <1>3 DEF Test

\* The insertion into ongoing and the removal from it, which may be lost.
LEMMA UpdatePool ==
  ASSUME PoolInv, NEW t \in Threads, main \in {"accept", "closing"}, EndInsert(t) \/ Erase(t)
  PROVE  PoolInv'
<1> USE DEF PoolInv
<1> DEFINE c == task[t]
<1>0. /\ UNCHANGED <<sock, workQueue, mutex, task, closed, main, visited, freed, crossed>>
      /\ c \in Conns /\ c # None /\ c \notin Queued
  BY DEF EndInsert, Erase, TypeOK, Apart
<1>1. Queued' = Queued /\ QueuedOnce'
  BY <1>0 DEF Queued, QueuedOnce
<1>2. \/ raced' = TRUE /\ ongoing' = ongoing
      \/ raced' = raced /\ ongoing' \in {ongoing \cup {c}, ongoing \ {c}}
  BY DEF EndInsert, Insert, Erase
<1>3. raced' \in BOOLEAN /\ ongoing' \subseteq Conns /\ \A d \in ongoing' : d \in ongoing \/ d = c
  BY <1>0, <1>2 DEF TypeOK
<1>4. \/ pc[t] = "inserting" /\ pc' = [pc EXCEPT ![t] = "run"]
      \/ pc[t] = "erasing" /\ pc' = [pc EXCEPT ![t] = "deleting"]
  BY DEF EndInsert, Erase
<1>5. \A u \in Threads : u # t => pc'[u] = pc[u]
  BY <1>4 DEF TypeOK
<1>6. TypeOK'
  BY <1>0, <1>3, <1>4 DEF TypeOK, Places
<1>7. HeldOnce' /\ Apart' /\ Fresh' /\ EmptyHanded' /\ NotLost' /\ Dequeued'
  BY <1>0, <1>1, <1>3, <1>4, <1>5 DEF HeldOnce, Apart, Fresh, EmptyHanded, NotLost, Dequeued, TypeOK
<1>8. Deletions' /\ Closing'
  BY <1>0, <1>4, <1>5 DEF Deletions, Closing, TypeOK
<1>9. Ongoing'
  <2>1. SUFFICES ASSUME ~raced' PROVE Ongoing'
    BY DEF Ongoing
  <2>2. \A u \in Threads : u # t => task[u] # c /\ (Serving(u)' <=> Serving(u))
    BY <1>0, <1>5 DEF HeldOnce, Serving
  <2>3. ~raced /\ (\/ EndInsert(t) /\ ongoing' = ongoing \cup {c}
                   \/ Erase(t) /\ ongoing' = ongoing \ {c})
    BY <2>1 DEF EndInsert, Insert, Erase, TypeOK
  <2>4. CASE EndInsert(t) /\ ongoing' = ongoing \cup {c}
    <3>1. pc'[t] = "run" /\ Serving(t)' /\ ~Serving(t)
      BY <1>0, <2>4 DEF EndInsert, TypeOK, Serving
    <3> QED
      BY <1>0, <2>2, <2>3, <2>4, <3>1 DEF Ongoing
  <2>5. CASE Erase(t) /\ ongoing' = ongoing \ {c}
    <3>1. pc'[t] = "deleting" /\ ~Serving(t)'
      BY <1>0, <2>5 DEF Erase, TypeOK, Serving
    <3> QED
      BY <1>0, <2>2, <2>3, <2>5, <3>1 DEF Ongoing
  <2> QED
    BY <2>3, <2>4, <2>5
<1>10. FreedOnce'
  BY <1>0, <1>2 DEF FreedOnce
<1> QED
  BY <1>1, <1>6, <1>7, <1>8, <1>9, <1>10

\* The thread deletes its connection: closeAll has not, unless they crossed.
LEMMA DeletePool ==
  ASSUME PoolInv, NEW t \in Threads, main \in {"accept", "closing"}, Delete(t)
  PROVE  PoolInv'
<1> USE DEF PoolInv
<1> DEFINE c == task[t]
<1>0. /\ pc[t] = "deleting" /\ freed' = [freed EXCEPT ![c] = @ + 1]
      /\ task' = [task EXCEPT ![t] = None] /\ pc' = [pc EXCEPT ![t] = "lock"]
      /\ UNCHANGED <<sock, workQueue, mutex, ongoing, closed, main, visited, raced, crossed>>
      /\ c \in Conns /\ c # None /\ c \notin Queued
  BY DEF Delete, TypeOK, Apart
<1>1. Queued' = Queued /\ QueuedOnce'
  BY <1>0 DEF Queued, QueuedOnce
<1>2. /\ \A d \in Conns : freed'[d] = (IF d = c THEN freed[c] + 1 ELSE freed[d])
      /\ \A d \in Conns : freed[d] \in 0 .. 2
      /\ freed[c] <= (IF c \in visited THEN 1 ELSE 0)
  BY <1>0 DEF TypeOK, Deletions
<1>3. \A u \in Threads : /\ u # t => pc'[u] = pc[u] /\ task'[u] = task[u] /\ task[u] # c
                         /\ pc'[t] = "lock" /\ task'[t] = None
  BY <1>0 DEF TypeOK, HeldOnce
<1>4. TypeOK'
  <2>1. freed' \in [Conns -> 0 .. 2]
    BY <1>0, <1>2 DEF TypeOK
  <2> QED
    BY <1>0, <1>3, <2>1 DEF TypeOK, Places
<1> HIDE DEF c
<1>5. HeldOnce' /\ Apart' /\ EmptyHanded' /\ Dequeued'
  <2>1. None \notin Queued /\ Queued \subseteq Conns
    BY QueuedConns, PoolAssumption
  <2> QED
    BY <1>0, <1>1, <1>2, <1>3, <2>1 DEF HeldOnce, Apart, EmptyHanded, Dequeued
<1>6. Fresh' /\ NotLost'
  <2>1. sock[c] # "none"
    BY <1>0 DEF Fresh, c
  <2>2. \A d \in Conns : d # c => ((\E u \in Threads : task'[u] = d) <=> (\E u \in Threads : task[u] = d))
    BY <1>0, <1>3, PoolAssumption DEF c
  <2> QED
    BY <1>0, <1>1, <1>2, <1>3, <2>1, <2>2, PoolAssumption DEF Fresh, NotLost
<1>7. Deletions'
  BY <1>0, <1>2, <1>3 DEF Deletions, TypeOK
<1>8. Closing'
  BY <1>0, <1>2, <1>3 DEF Closing, TypeOK
<1>9. Ongoing'
  <2>1. \A u \in Threads : (Serving(u)' <=> Serving(u)) /\ (Serving(u) => task'[u] = task[u])
    BY <1>0, <1>3 DEF Serving
  <2> QED
    BY <1>0, <1>3, <2>1 DEF Ongoing
<1>10. FreedOnce'
  <2>1. freed'[c] > 1 => c \in crossed
    BY <1>0, <1>2 DEF Closing, c
  <2> QED
    BY <1>0, <1>2, <2>1 DEF FreedOnce
<1> QED
  BY <1>1, <1>4, <1>5, <1>6, <1>7, <1>8, <1>9, <1>10

-----------------------------------------------------------------------------
LEMMA NextPool == PoolInv /\ [Next]_vars => PoolInv'
<1> SUFFICES ASSUME PoolInv, [Next]_vars PROVE PoolInv'
  OBVIOUS
<1>1. CASE UNCHANGED vars
  BY <1>1 DEF vars, PoolInv, TypeOK, QueuedOnce, HeldOnce, Apart, Fresh, EmptyHanded, NotLost,
              Dequeued, Deletions, Closing, Ongoing, Serving, FreedOnce, Queued
<1>2. CASE \E c \in Conns : Accept(c) \/ Quit(c) \/ Leave(c)
  BY <1>2, AcceptPool, ClientPool
<1>3. CASE Shutdown
  BY <1>3, ShutdownPool
<1>4. CASE CloseAll
  BY <1>4, ClosePool
<1>5. CASE \E t \in Threads : ThreadFun(t)
  BY <1>5, LockPool, TestPool, UpdatePool, DeletePool DEF ThreadFun
<1> QED
  BY <1>1, <1>2, <1>3, <1>4, <1>5 DEF Next

\* PoolInv, the inductive invariant of the pool: where every connection is, what
\* the flag closed and the set ongoing say of it, and who has deleted it.
THEOREM PoolInvariance == Spec => []PoolInv
<1> QED
  BY InitPool, NextPool, PTL DEF Spec

\* A set with no two members has at most one.
LEMMA AtMostOne ==
  ASSUME NEW S, \A x, y \in S : x = y
  PROVE  /\ Cardinality(S) \in Nat /\ Cardinality(S) <= 1
         /\ S = {} => Cardinality(S) = 0
<1>1. CASE S = {}
  BY <1>1, FS_EmptySet
<1>2. CASE S # {}
  <2>1. PICK x \in S : S = {x}
    BY <1>2
  <2> QED
    BY <1>2, <2>1, FS_Singleton
<1> QED
  BY <1>1, <1>2

\* OneHolder: whatever the interleaving of the pool's threads, the accept loop
\* and closeAll, a connection is in the queue once, with one thread, or deleted.
THEOREM PoolOneHolder == Spec => []OneHolder
<1>1. PoolInv => OneHolder
  <2> SUFFICES ASSUME PoolInv, NEW c \in Conns
               PROVE  LET places  == {i \in DOMAIN workQueue : workQueue[i] = c}
                          holders == {t \in Threads : task[t] = c}
                      IN  /\ Cardinality(places) + Cardinality(holders) <= 1
                          /\ freed[c] > 0 => places = {}
                          /\ sock[c] # "none" /\ freed[c] = 0 => places # {} \/ holders # {}
    BY DEF OneHolder
  <2> DEFINE places  == {i \in DOMAIN workQueue : workQueue[i] = c}
             holders == {t \in Threads : task[t] = c}
  <2>1. \A i, j \in places : i = j
    BY DEF PoolInv, QueuedOnce
  <2>2. \A t, u \in holders : t = u
    BY PoolAssumption DEF PoolInv, HeldOnce
  <2>3. places = {} <=> c \notin Queued
    BY DEF Queued
  <2>4. places = {} \/ holders = {}
    BY <2>3 DEF PoolInv, Apart
  <2>5. freed[c] > 0 => c \notin Queued
    BY DEF PoolInv, Dequeued
  <2>6. sock[c] # "none" /\ freed[c] = 0 => places # {} \/ holders # {}
    BY <2>3 DEF PoolInv, NotLost
  <2> HIDE DEF places, holders
  <2>7. Cardinality(places) + Cardinality(holders) <= 1
    BY <2>1, <2>2, <2>4, AtMostOne
  <2> QED
    BY <2>3, <2>5, <2>6, <2>7 DEF places, holders
<1> QED
  BY <1>1, PoolInvariance, PTL

\* FreedOnce: a connection is deleted twice only after one of the two races, and
\* without a race closeAll deletes everything that is being served.
THEOREM PoolFreedOnce == Spec => []FreedOnce
<1>1. PoolInv => FreedOnce
  BY DEF PoolInv
<1> QED
  BY <1>1, PoolInvariance, PTL
=============================================================================
