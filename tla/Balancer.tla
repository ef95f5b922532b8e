------------------------------ MODULE Balancer ------------------------------
(***************************************************************************)
(* The load balancer (frontendServer/load_balancer.cc): the main thread    *)
(* answers every request with a redirect to a front end, in turn; a second *)
(* thread connects to every front end and marks it running or down.        *)
(*                                                                         *)
(* Both work on the deque "servers".  The main thread rotates it under the *)
(* lock; the checker takes the lock only to store a mark, and addresses a  *)
(* server by its place in the deque, before and after the connect.  Front  *)
(* ends are stopped and started from the admin page (response.cc).         *)
(*                                                                         *)
(* The list shipped with the program gives all front ends one address, so  *)
(* the port alone decides which of them a probe reaches.                   *)
(***************************************************************************)
EXTENDS Naturals, Sequences, FiniteSets

CONSTANTS Ports,        \* the front ends, by their port
          MaxRequests,  \* bound on the requests
          MaxFlips,     \* bound on the starts and stops of front ends
          None

Server == [port : Ports, running : BOOLEAN]

ASSUME BalancerAssumption ==
  /\ IsFiniteSet(Ports) /\ Ports # {}
  /\ None \notin Ports \cup Server \cup {"main", "check"}
  /\ MaxRequests \in Nat /\ MaxFlips \in Nat

VARIABLES
  up,        \* is the front end really running?
  servers,   \* the deque: a sequence of [port, running]
  lock,      \* who holds the mutex: "main", "check" or None
  main,      \* where the main thread is
  tmp,       \* the server the main thread has taken out of the deque
  count,     \* how many servers this request has skipped
  answer,    \* the front end the request is sent to, or None for the 503 page
  cpc, i,    \* where the checker is, and its index
  port, ret, \* what it has read at that index, and the result of connect
  requests, flips,  \* bounds
  marked,    \* the ports that were marked running when the request took the lock
  used,      \* used[p][q]: redirects to q since p was last used or skipped
  shifted    \* the deque was rotated since the checker read the place it probes

mainVars  == <<main, tmp, count, answer, marked, used>>
checkVars == <<cpc, i, port, ret>>
vars == <<up, servers, lock, mainVars, checkVars, requests, flips, shifted>>

(* The type of every variable of the balancer.                             *)
TypeOK ==
  /\ up \in [Ports -> BOOLEAN]
  /\ servers \in Seq(Server)
  /\ lock \in {"main", "check", None}
  /\ main \in {"accept", "lock", "scan", "skip", "read", "relock", "move", "reply", "ended"}
  /\ tmp \in Server \cup {None}
  /\ count \in 0 .. Cardinality(Ports)
  /\ answer \in Ports \cup {None}
  /\ cpc \in {"for", "read", "probe", "lock", "mark"}
  /\ i \in 0 .. Cardinality(Ports)
  /\ port \in Ports \cup {None}
  /\ ret \in BOOLEAN
  /\ requests \in 0 .. MaxRequests /\ flips \in 0 .. MaxFlips
  /\ marked \subseteq Ports
  /\ used \in [Ports -> [Ports -> Nat]]
  /\ shifted \in BOOLEAN
  /\ main \in {"scan", "skip", "move"} <=> lock = "main"

(* parse_all_server: the order of the file (any order does, as nothing     *)
(* else tells the ports apart), no server marked running yet.              *)
FileOrder ==
  CHOOSE s \in [1 .. Cardinality(Ports) -> Ports] : \A p \in Ports : \E n \in DOMAIN s : s[n] = p

Init ==
  /\ up \in [Ports -> BOOLEAN]
  /\ servers = [n \in DOMAIN FileOrder |-> [port |-> FileOrder[n], running |-> FALSE]]
  /\ lock = None
  /\ main = "accept" /\ tmp = None /\ count = 0 /\ answer = None
  /\ cpc = "for" /\ i = 0 /\ port = None /\ ret = FALSE
  /\ requests = 0 /\ flips = 0
  /\ marked = {} /\ shifted = FALSE
  /\ used = [p \in Ports |-> [q \in Ports |-> 0]]

(***************************************************************************)
(* The admin page: /stopserver makes a front end raise SIGINT, and         *)
(* /startserver forks a new one.                                           *)
(***************************************************************************)
StopServer(p) ==
  /\ flips < MaxFlips /\ main # "ended"
  /\ up[p]
  /\ up' = [up EXCEPT ![p] = FALSE]
  /\ flips' = flips + 1
  /\ UNCHANGED <<servers, lock, mainVars, checkVars, requests, shifted>>

StartServer(p) ==
  /\ flips < MaxFlips /\ main # "ended"
  /\ ~up[p]
  /\ up' = [up EXCEPT ![p] = TRUE]
  /\ flips' = flips + 1
  /\ UNCHANGED <<servers, lock, mainVars, checkVars, requests, shifted>>

(***************************************************************************)
(* The main thread.  A rotation is pop_front and then push_back: between   *)
(* the two the deque is one server short.                                  *)
(***************************************************************************)
Accept ==
  /\ main = "accept"
  /\ requests < MaxRequests
  /\ requests' = requests + 1
  /\ main' = "lock"
  /\ UNCHANGED <<up, servers, lock, tmp, count, answer, checkVars, flips, marked, used, shifted>>

LockScan ==
  /\ main = "lock"
  /\ lock = None
  /\ lock' = "main"
  /\ main' = "scan"
  /\ marked' = {p \in Ports : \E n \in DOMAIN servers : servers[n] = [port |-> p, running |-> TRUE]}
  /\ UNCHANGED <<up, servers, tmp, count, answer, checkVars, requests, flips, used, shifted>>

(* MUTANT: the lock is not released when a running server is found.        *)
FoundFront_KeepsLock ==
  /\ main = "scan"
  /\ Head(servers).running
  /\ main' = "read"
  /\ UNCHANGED <<up, servers, lock, tmp, count, answer, checkVars, requests, flips, marked, used, shifted>>

(* The front server is running: the search is over.                        *)
FoundFront ==
  /\ main = "scan"
  /\ Head(servers).running
  /\ lock' = None
  /\ main' = "read"
  /\ UNCHANGED <<up, servers, tmp, count, answer, checkVars, requests, flips, marked, used, shifted>>

PopFront ==
  /\ tmp' = Head(servers)
  /\ servers' = Tail(servers)
  /\ shifted' = (shifted \/ cpc \in {"probe", "lock"})

SkipFront ==
  /\ main = "scan"
  /\ ~Head(servers).running
  /\ PopFront
  /\ count' = count + 1
  /\ used' = [used EXCEPT ![Head(servers).port] = [q \in Ports |-> 0]]
  /\ main' = "skip"
  /\ UNCHANGED <<up, lock, answer, checkVars, requests, flips, marked>>

PushBack ==
  /\ servers' = Append(servers, tmp)
  /\ tmp' = None

(* All servers have been skipped: the lock is released and the 503 page    *)
(* sent.                                                                   *)
SkipBack ==
  /\ main = "skip"
  /\ PushBack
  /\ IF count = Len(servers')
       THEN /\ lock' = None
            /\ answer' = None
            /\ main' = "reply"
       ELSE /\ main' = "scan"
            /\ UNCHANGED <<lock, answer>>
  /\ UNCHANGED <<up, count, checkVars, requests, flips, marked, used, shifted>>

(* The address of the front server is read without the lock.               *)
ReadFront ==
  /\ main = "read"
  /\ answer' = Head(servers).port
  /\ main' = "relock"
  /\ UNCHANGED <<up, servers, lock, tmp, count, checkVars, requests, flips, marked, used, shifted>>

(* "put the used server to the back of the queue"                          *)
MoveFront ==
  /\ main = "relock"
  /\ lock = None
  /\ lock' = "main"
  /\ PopFront
  /\ main' = "move"
  /\ UNCHANGED <<up, count, answer, checkVars, requests, flips, marked, used>>

(* MUTANT: the used server is put back at the front.                       *)
MoveBack_Front ==
  /\ servers' = <<tmp>> \o servers
  /\ tmp' = None

MoveBack == PushBack

EndMove ==
  /\ main = "move"
  /\ MoveBack
  /\ lock' = None
  /\ main' = "reply"
  /\ used' = [p \in Ports |->
                IF p = answer THEN [q \in Ports |-> 0] ELSE [used[p] EXCEPT ![answer] = @ + 1]]
  /\ UNCHANGED <<up, count, answer, checkVars, requests, flips, marked, shifted>>

Reply ==
  /\ main = "reply"
  /\ main' = "accept"
  /\ count' = 0 /\ answer' = None /\ marked' = {}
  /\ UNCHANGED <<up, servers, lock, tmp, checkVars, requests, flips, used, shifted>>

(***************************************************************************)
(* The checker.  servers.at(i) throws, and ends the process, when the main *)
(* thread has just taken a server out and i is the last place.             *)
(***************************************************************************)
Throws == i + 1 > Len(servers)

CheckerDies ==
  /\ cpc \in {"read", "probe"}
  /\ Throws
  /\ main # "ended"
  /\ main' = "ended"
  /\ lock' = None
  /\ UNCHANGED <<up, servers, tmp, count, answer, checkVars, requests, flips, marked, used, shifted>>

Another == i < Len(servers)

(* The loop over the places; after the last one the checker sleeps and     *)
(* starts again.                                                           *)
ForEach ==
  /\ cpc = "for" /\ main # "ended"
  /\ \/ /\ Another
        /\ cpc' = "read"
        /\ UNCHANGED i
     \/ /\ ~Another
        /\ i' = 0
        /\ UNCHANGED cpc
  /\ UNCHANGED <<up, servers, lock, mainVars, port, ret, requests, flips, shifted>>

ReadPlace ==
  /\ cpc = "read" /\ main # "ended"
  /\ ~Throws
  /\ port' = servers[i + 1].port
  /\ cpc' = "probe"
  /\ shifted' = FALSE
  /\ UNCHANGED <<up, servers, lock, mainVars, i, ret, requests, flips>>

(* connect: it succeeds if the front end runs.                             *)
Connect ==
  /\ cpc = "probe" /\ main # "ended"
  /\ ~Throws
  /\ ret' = up[port]
  /\ cpc' = "lock"
  /\ UNCHANGED <<up, servers, lock, mainVars, i, port, requests, flips, shifted>>

LockMark ==
  /\ lock = None
  /\ lock' = "check"

TakeLock ==
  /\ cpc = "lock" /\ main # "ended"
  /\ LockMark
  /\ cpc' = "mark"
  /\ UNCHANGED <<up, servers, mainVars, i, port, ret, requests, flips, shifted>>

(* MUTANT: a front end that is down is not marked.                         *)
Mark_OnlyRunning ==
  servers' = [servers EXCEPT ![i + 1].running = @ \/ ret]

(* MUTANT: the mark goes to the next place.                                *)
Mark_OffByOne ==
  servers' = [servers EXCEPT ![IF i + 2 > Len(servers) THEN 1 ELSE i + 2].running = ret]

(* The result is stored at place i, whoever is there now.                  *)
Mark == servers' = [servers EXCEPT ![i + 1].running = ret]

StoreMark ==
  /\ cpc = "mark" /\ main # "ended"
  /\ Mark
  /\ lock' = IF lock = "check" THEN None ELSE lock
  /\ i' = i + 1
  /\ cpc' = "for"
  /\ port' = None /\ ret' = FALSE /\ shifted' = FALSE
  /\ UNCHANGED <<up, mainVars, requests, flips>>

Main == LockScan \/ FoundFront \/ SkipFront \/ SkipBack \/ ReadFront \/ MoveFront \/ EndMove \/ Reply
Checker == ForEach \/ ReadPlace \/ Connect \/ TakeLock \/ StoreMark

Next ==
  \/ \E p \in Ports : StopServer(p) \/ StartServer(p)
  \/ Accept
  \/ Main
  \/ Checker \/ CheckerDies

(* Both threads run; nothing makes a request come or a front end stop.     *)
(* The main thread's lock is free infinitely often but not always.         *)
Fairness == WF_vars(Main) /\ SF_vars(LockScan) /\ SF_vars(MoveFront)
            /\ WF_vars(Checker) /\ SF_vars(TakeLock)

Spec == Init /\ [][Next]_vars
FairSpec == Spec /\ Fairness

-----------------------------------------------------------------------------
Places(p) == {n \in DOMAIN servers : servers[n].port = p}

(* The front ends take turns, however the two threads interleave: none is  *)
(* lost from the deque or doubled in it; between two redirects to q, every *)
(* other one is used or found down; and a redirect goes to one that was    *)
(* marked running when the search began, the 503 page only if none was.    *)
RoundRobin ==
  /\ \A p \in Ports :
       Cardinality(Places(p)) = (IF tmp # None /\ tmp.port = p THEN 0 ELSE 1)
  /\ \A p, q \in Ports : used[p][q] <= 1
  /\ main = "reply" => IF answer = None THEN marked = {} ELSE answer \in marked

(* The checker marks the front end it has probed, although it names it by  *)
(* its place, unless a rotation fell between its first read and the lock.  *)
MarksTheProbed ==
  [][\A p \in Ports : \A m \in Places(p) : \A n \in DOMAIN servers' :
       servers'[n].port = p /\ servers'[n].running # servers[m].running
         => shifted \/ (p = port /\ servers'[n].running = ret)]_vars

(* Once requests, starts and stops have ended, the marks become right and  *)
(* stay right, whatever was mixed up before.                               *)
MarksConverge ==
  <>[](main = "ended" \/ \A n \in DOMAIN servers : servers[n].running = up[servers[n].port])

(* Every request is answered, unless the process ends.                     *)
RequestAnswered == main = "lock" ~> main \in {"reply", "ended"}
=============================================================================
