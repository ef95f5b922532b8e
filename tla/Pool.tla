-------------------------------- MODULE Pool --------------------------------
(***************************************************************************)
(* The thread pool that a data server and the master use to serve their    *)
(* connections (kvstore/ThreadPool.cc; kvstore/master/masterThreadPool.cc  *)
(* is the same code over masterConnection).                                *)
(*                                                                         *)
(* The main thread accepts connections and queues them; a pool thread      *)
(* takes one, serves it until its client says QUIT, deletes it and takes   *)
(* the next.  SIGINT makes the main thread run closeAll.  The queue and    *)
(* the condition variable are used under the mutex; the set "ongoing" and  *)
(* the flag "closed" are not.                                              *)
(*                                                                         *)
(* Undefined behaviour: two overlapping updates of the std::set "ongoing". *)
(* An update that overlaps another may be lost here; "raced" records it.   *)
(***************************************************************************)
EXTENDS Naturals, Sequences, FiniteSets

CONSTANTS Threads,   \* the threads of the pool (100 in dataserver.cc and master.cc)
          Conns,     \* the connections the clients may open
          None

ASSUME PoolAssumption == None \notin Threads \cup Conns

VARIABLES
  sock,      \* the client's end of each connection
  workQueue, \* accepted connections that no thread has taken
  mutex,     \* the thread that holds the mutex, or None
  pc,        \* where each pool thread is in ThreadFun
  task,      \* the connection of each thread
  ongoing,   \* the connections being served, as the set says
  closed,    \* the flag closed
  main,      \* the main thread: accept loop, closeAll, exit
  visited,   \* what the loop of closeAll has passed
  freed,     \* how often each connection was deleted
  raced,     \* two updates of ongoing overlapped
  crossed    \* connections that closeAll deleted while their thread was past its test of closed

vars == <<sock, workQueue, mutex, pc, task, ongoing, closed, main, visited,
          freed, raced, crossed>>

(* The places of a thread in ThreadFun: about to lock; holding the mutex   *)
(* and about to test the queue; about to wait, the mutex still held;       *)
(* waiting; holding a task that is not in ongoing; inserting it; in        *)
(* Worker::run; after it; past the test of closed; about to delete; ended. *)
Places == {"lock", "test", "towait", "waiting", "popped", "inserting", "run",
           "ran", "erasing", "deleting", "done"}

Queued == {workQueue[i] : i \in DOMAIN workQueue}

(* The type of every variable of the pool.                                 *)
TypeOK ==
  /\ sock \in [Conns -> {"none", "open", "quit", "gone"}]
  /\ workQueue \in Seq(Conns)
  /\ mutex \in Threads \cup {None}
  /\ pc \in [Threads -> Places]
  /\ task \in [Threads -> Conns \cup {None}]
  /\ ongoing \subseteq Conns
  /\ closed \in BOOLEAN
  /\ main \in {"accept", "closing", "exit", "killed"}
  /\ visited \subseteq Conns
  /\ freed \in [Conns -> 0 .. 2]
  /\ raced \in BOOLEAN
  /\ crossed \subseteq Conns
  /\ \A t \in Threads : pc[t] \in {"test", "towait"} => mutex = t
  /\ \A t \in Threads : pc[t] \in {"popped", "inserting", "run", "ran", "erasing", "deleting"}
                          => task[t] # None

Init ==
  /\ sock = [c \in Conns |-> "none"]
  /\ workQueue = <<>>
  /\ mutex = None
  /\ pc = [t \in Threads |-> "lock"]
  /\ task = [t \in Threads |-> None]
  /\ ongoing = {}
  /\ closed = FALSE
  /\ main = "accept"
  /\ visited = {} /\ crossed = {}
  /\ freed = [c \in Conns |-> 0]
  /\ raced = FALSE

(***************************************************************************)
(* The clients.  A client that is done says QUIT (masterConnect.cc,        *)
(* utils.cc, Storage's destructor); StateCheck.cc asks and either closes   *)
(* its socket without QUIT or keeps it for ever.  Neither read of do_read  *)
(* ends on a closed socket (it reads 0 bytes again and again), so a client *)
(* that keeps its socket and one that closed it differ only in closeAll.   *)
(***************************************************************************)
Quit(c) ==
  /\ sock[c] = "open"
  /\ sock' = [sock EXCEPT ![c] = "quit"]
  /\ UNCHANGED <<workQueue, mutex, pc, task, ongoing, closed, main, visited,
                 freed, raced, crossed>>

Leave(c) ==
  /\ sock[c] = "open"
  /\ sock' = [sock EXCEPT ![c] = "gone"]
  /\ UNCHANGED <<workQueue, mutex, pc, task, ongoing, closed, main, visited,
                 freed, raced, crossed>>

(***************************************************************************)
(* The main thread.                                                        *)
(***************************************************************************)
(* MUTANT: addTask without pthread_cond_signal.                            *)
AddTask_NoSignal(c) ==
  /\ mutex = None
  /\ workQueue' = Append(workQueue, c)
  /\ UNCHANGED pc

(* addTask: one waiting thread, if there is one, is woken.                 *)
AddTask(c) ==
  /\ mutex = None
  /\ workQueue' = Append(workQueue, c)
  /\ LET waiting == {t \in Threads : pc[t] = "waiting"} IN
       IF waiting = {}
         THEN UNCHANGED pc
         ELSE \E t \in waiting : pc' = [pc EXCEPT ![t] = "lock"]

Accept(c) ==
  /\ main = "accept"
  /\ sock[c] = "none"
  /\ sock' = [sock EXCEPT ![c] = "open"]
  /\ AddTask(c)
  /\ UNCHANGED <<mutex, task, ongoing, closed, main, visited, freed, raced, crossed>>

(* SIGINT: closed is set and every waiting thread is woken, both without   *)
(* the mutex; every thread is cancelled (see Cancelled).                   *)
Shutdown ==
  /\ main = "accept"
  /\ main' = "closing"
  /\ closed' = TRUE
  /\ pc' = [t \in Threads |-> IF pc[t] = "waiting" THEN "lock" ELSE pc[t]]
  /\ UNCHANGED <<sock, workQueue, mutex, task, ongoing, visited, freed, raced, crossed>>

(* The thread that serves c has read closed before it was set.             *)
PastTest(c) == \E t \in Threads : task[t] = c /\ pc[t] \in {"erasing", "deleting"}

(* One round of the loop over ongoing: the client is told, the connection  *)
(* deleted.  The write to a client that has closed its socket may kill the *)
(* process (SIGPIPE is not ignored in a data server).                      *)
CloseOne(c) ==
  /\ main = "closing"
  /\ c \in ongoing \ visited
  /\ visited' = visited \cup {c}
  /\ \/ /\ sock[c] = "gone"
        /\ main' = "killed"
        /\ UNCHANGED <<freed, crossed>>
     \/ /\ freed' = [freed EXCEPT ![c] = @ + 1]
        /\ crossed' = IF PastTest(c) THEN crossed \cup {c} ELSE crossed
        /\ UNCHANGED main
  /\ UNCHANGED <<sock, workQueue, mutex, pc, task, ongoing, closed, raced>>

CloseEnd ==
  /\ main = "closing"
  /\ ongoing \subseteq visited
  /\ main' = "exit"

EndLoop ==
  /\ CloseEnd
  /\ UNCHANGED <<sock, workQueue, mutex, pc, task, ongoing, closed, visited,
                 freed, raced, crossed>>

(***************************************************************************)
(* A pool thread (ThreadFun).                                              *)
(***************************************************************************)
Lock(t) ==
  /\ pc[t] = "lock"
  /\ mutex = None
  /\ mutex' = t
  /\ pc' = [pc EXCEPT ![t] = "test"]
  /\ UNCHANGED <<sock, workQueue, task, ongoing, closed, main, visited, freed,
                 raced, crossed>>

(* MUTANT: the front of the queue is read and left there.                  *)
Pop_Leaves(t) ==
  /\ workQueue # <<>>
  /\ task' = [task EXCEPT ![t] = Head(workQueue)]
  /\ UNCHANGED workQueue

Pop(t) ==
  /\ workQueue # <<>>
  /\ task' = [task EXCEPT ![t] = Head(workQueue)]
  /\ workQueue' = Tail(workQueue)

(* The tests under the mutex: end, wait, or take the front.                *)
Test(t) ==
  /\ pc[t] = "test"
  /\ \/ /\ closed
        /\ mutex' = None
        /\ pc' = [pc EXCEPT ![t] = "done"]
        /\ UNCHANGED <<workQueue, task>>
     \/ /\ ~closed
        /\ workQueue = <<>>
        /\ pc' = [pc EXCEPT ![t] = "towait"]
        /\ UNCHANGED <<workQueue, task, mutex>>
     \/ /\ ~closed
        /\ Pop(t)
        /\ mutex' = None
        /\ pc' = [pc EXCEPT ![t] = "popped"]
  /\ UNCHANGED <<sock, ongoing, closed, main, visited, freed, raced, crossed>>

(* pthread_cond_wait: the broadcast of closeAll, sent without the mutex,   *)
(* may have come between the test and this step.                           *)
Wait(t) ==
  /\ pc[t] = "towait"
  /\ mutex' = None
  /\ pc' = [pc EXCEPT ![t] = "waiting"]
  /\ UNCHANGED <<sock, workQueue, task, ongoing, closed, main, visited, freed,
                 raced, crossed>>

(* A spurious wake-up.                                                     *)
Wake(t) ==
  /\ pc[t] = "waiting"
  /\ pc' = [pc EXCEPT ![t] = "lock"]
  /\ UNCHANGED <<sock, workQueue, mutex, task, ongoing, closed, main, visited,
                 freed, raced, crossed>>

(* Another thread is inside an update of ongoing, or closeAll walks it.    *)
Updating(t) == \E u \in Threads \ {t} : pc[u] \in {"inserting", "erasing"}
Racing(t)   == Updating(t) \/ main = "closing"

StartInsert(t) ==
  /\ pc[t] = "popped"
  /\ pc' = [pc EXCEPT ![t] = "inserting"]
  /\ UNCHANGED <<sock, workQueue, mutex, task, ongoing, closed, main, visited,
                 freed, raced, crossed>>

(* ongoing.insert: a racing one may be lost.                               *)
Insert(t) ==
  \/ /\ ongoing' = ongoing \cup {task[t]}
     /\ UNCHANGED raced
  \/ /\ Racing(t)
     /\ raced' = TRUE
     /\ UNCHANGED ongoing

EndInsert(t) ==
  /\ pc[t] = "inserting"
  /\ Insert(t)
  /\ pc' = [pc EXCEPT ![t] = "run"]
  /\ UNCHANGED <<sock, workQueue, mutex, task, closed, main, visited, freed, crossed>>

(* Worker::run and masterWorker::run return after QUIT; a client that left *)
(* without it keeps the thread in do_read.                                 *)
Run(t) ==
  /\ pc[t] = "run"
  /\ sock[task[t]] = "quit"
  /\ pc' = [pc EXCEPT ![t] = "ran"]
  /\ UNCHANGED <<sock, workQueue, mutex, task, ongoing, closed, main, visited,
                 freed, raced, crossed>>

(* MUTANT: closed is not tested after run.                                 *)
AfterRun_NoTest(t) == pc' = [pc EXCEPT ![t] = "erasing"]

(* The test of closed after run: the shutdown deletes what is in ongoing.  *)
AfterRun(t) == pc' = [pc EXCEPT ![t] = IF closed THEN "done" ELSE "erasing"]

TestClosed(t) ==
  /\ pc[t] = "ran"
  /\ AfterRun(t)
  /\ UNCHANGED <<sock, workQueue, mutex, task, ongoing, closed, main, visited,
                 freed, raced, crossed>>

Erase(t) ==
  /\ pc[t] = "erasing"
  /\ pc' = [pc EXCEPT ![t] = "deleting"]
  /\ \/ /\ ongoing' = ongoing \ {task[t]}
        /\ UNCHANGED raced
     \/ /\ Racing(t)
        /\ raced' = TRUE
        /\ UNCHANGED ongoing
  /\ UNCHANGED <<sock, workQueue, mutex, task, closed, main, visited, freed, crossed>>

(* delete task: the destructor closes the socket.                          *)
Delete(t) ==
  /\ pc[t] = "deleting"
  /\ freed' = [freed EXCEPT ![task[t]] = @ + 1]
  /\ task' = [task EXCEPT ![t] = None]
  /\ pc' = [pc EXCEPT ![t] = "lock"]
  /\ UNCHANGED <<sock, workQueue, mutex, ongoing, closed, main, visited, raced, crossed>>

(* The cancellation takes effect in read and in pthread_cond_wait; the     *)
(* latter takes the mutex first and nobody ever releases it.               *)
Cancelled(t) ==
  /\ main = "closing"
  /\ \/ /\ pc[t] = "run"
        /\ UNCHANGED mutex
     \/ /\ pc[t] = "waiting"
        /\ mutex = None
        /\ mutex' = t
  /\ pc' = [pc EXCEPT ![t] = "done"]
  /\ UNCHANGED <<sock, workQueue, task, ongoing, closed, main, visited, freed,
                 raced, crossed>>

(* No thread moves once the process is gone.                               *)
ThreadFun(t) ==
  /\ main \in {"accept", "closing"}
  /\ \/ Lock(t) \/ Test(t) \/ Wait(t) \/ Wake(t) \/ StartInsert(t) \/ EndInsert(t)
     \/ Run(t) \/ TestClosed(t) \/ Erase(t) \/ Delete(t) \/ Cancelled(t)

CloseAll == EndLoop \/ \E c \in Conns : CloseOne(c)

Next ==
  \/ \E c \in Conns : Accept(c) \/ Quit(c) \/ Leave(c)
  \/ Shutdown
  \/ CloseAll
  \/ \E t \in Threads : ThreadFun(t)

(* The scheduler runs every thread that can run; nothing makes a client    *)
(* connect, quit or leave, or makes anybody send SIGINT.                   *)
Fairness ==
  /\ WF_vars(CloseAll)
  /\ \A t \in Threads : WF_vars(ThreadFun(t) /\ ~Wake(t))

Spec == Init /\ [][Next]_vars
FairSpec == Spec /\ Fairness

-----------------------------------------------------------------------------
(* Every accepted connection is in exactly one place: once in the queue,   *)
(* with one thread, or deleted.  (The queue is popped under the mutex but  *)
(* the thread registers the connection only after it has released it.)     *)
OneHolder ==
  \A c \in Conns :
    LET places   == {i \in DOMAIN workQueue : workQueue[i] = c}
        holders  == {t \in Threads : task[t] = c}
    IN  /\ Cardinality(places) + Cardinality(holders) <= 1
        /\ freed[c] > 0 => places = {}
        /\ sock[c] # "none" /\ freed[c] = 0 => places # {} \/ holders # {}

(* A connection is deleted at most once, although both its thread and      *)
(* closeAll delete, unless SIGINT fell between the thread's test of closed *)
(* and its delete, or two updates of ongoing overlapped.  And when         *)
(* closeAll is over, every connection that a thread was serving has been   *)
(* told of the shutdown and deleted; the ones that are in the queue, or    *)
(* popped and not yet in ongoing, have not.                                *)
FreedOnce ==
  /\ \A c \in Conns : freed[c] > 1 => c \in crossed \/ raced
  /\ main = "exit" /\ ~raced =>
       \A t \in Threads : task[t] # None /\ pc[t] \in {"run", "ran", "done"}
                             => freed[task[t]] > 0

(* No wake-up is lost: a connection stays in the queue for ever only if    *)
(* every thread is for ever with a client that has not said QUIT, or the   *)
(* server was shut down.                                                   *)
Held(t) == pc[t] = "run" /\ sock[task[t]] # "quit"
StarvedOnlyIfHeld ==
  \A c \in Conns :
    <>[](c \in Queued) => <>[](closed \/ \A t \in Threads : Held(t))
=============================================================================
