---------------------------- MODULE BalancerProofs ----------------------------
(***************************************************************************)
(* Proofs about the load balancer (module Balancer), for any front ends    *)
(* and any number of requests, starts and stops: the front ends take       *)
(* turns, and the checker marks the one it has probed.                     *)
(***************************************************************************)
EXTENDS Balancer, FiniteSetTheorems, TLAPS

NumServers == Cardinality(Ports)

(* Every front end is in the deque once, or it is the one that is taken    *)
(* out of it.                                                              *)
Ring ==
  /\ \A m, n \in DOMAIN servers : servers[m].port = servers[n].port => m = n
  /\ \A n \in DOMAIN servers : tmp # None => servers[n].port # tmp.port
  /\ \A p \in Ports : (\E n \in DOMAIN servers : servers[n].port = p) \/ (tmp # None /\ tmp.port = p)
  /\ Len(servers) = IF tmp = None THEN NumServers ELSE NumServers - 1

(* The deque is in the order of the last use: whoever was used since p was *)
(* used or skipped is behind p, so it cannot be used again before p.       *)
Turns ==
  /\ \A p, q \in Ports : used[p][q] <= 1
  /\ \A m, n \in DOMAIN servers : used[servers[m].port][servers[n].port] # 0 => m < n
  /\ tmp # None => \A p \in Ports : used[p][tmp.port] = 0
  /\ main = "skip" => \A q \in Ports : used[tmp.port][q] = 0

(* Under the lock the marks stay as the search has found them, and the     *)
(* servers behind are those it has skipped.                                *)
Search ==
  /\ main # "ended" => (tmp # None <=> main \in {"skip", "move"})
  /\ main \in {"accept", "lock"} => count = 0
  /\ main \in {"scan", "skip"} =>
       /\ count < NumServers \/ main = "skip"
       /\ \A n \in DOMAIN servers : servers[n].running <=> servers[n].port \in marked
       /\ \A n \in DOMAIN servers : n + count > NumServers => ~servers[n].running
  /\ main = "skip" => ~tmp.running /\ tmp.port \notin marked /\ count # 0
  /\ main = "read" => servers[1].port \in marked
  /\ main = "relock" => answer = servers[1].port /\ answer \in marked
  /\ main = "move" => answer = tmp.port /\ answer \in marked
  /\ main = "reply" => IF answer = None THEN marked = {} ELSE answer \in marked

(* The place that the checker has read is still that of the port it read,  *)
(* unless the deque was rotated, and it stays so under the lock.           *)
Probing ==
  /\ cpc = "mark" <=> lock = "check"
  /\ cpc # "for" => i < NumServers
  /\ cpc \in {"probe", "lock", "mark"} =>
       port \in Ports /\ (~shifted => i + 1 <= Len(servers) /\ servers[i + 1].port = port)

BalanceInv == TypeOK /\ Ring /\ Turns /\ Search /\ Probing

-----------------------------------------------------------------------------
\* The front ends can be put in an order.
LEMMA Order ==
  /\ NumServers \in Nat \ {0}
  /\ FileOrder \in [1 .. NumServers -> Ports] /\ DOMAIN FileOrder = 1 .. NumServers
  /\ \A p \in Ports : \E n \in 1 .. NumServers : FileOrder[n] = p
  /\ \A m, n \in 1 .. NumServers : FileOrder[m] = FileOrder[n] => m = n
<1> DEFINE F == {s \in [1 .. NumServers -> Ports] : \A p \in Ports : \E n \in DOMAIN s : s[n] = p}
<1>1. NumServers \in Nat /\ ExistsBijection(1 .. NumServers, Ports)
  BY BalancerAssumption, FS_CardinalityType DEF NumServers
<1>2. NumServers # 0
  BY BalancerAssumption, FS_EmptySet DEF NumServers
<1>3. PICK f : f \in Surjection(1 .. NumServers, Ports)
  BY <1>1 DEF ExistsBijection, Bijection
<1>4. f \in F
  BY <1>3 DEF Surjection
<1>5. FileOrder \in F
  BY <1>4 DEF FileOrder, NumServers
<1>6. FileOrder \in Surjection(1 .. NumServers, Ports)
  BY <1>5 DEF Surjection
<1>7. IsFiniteSet(1 .. NumServers) /\ Cardinality(1 .. NumServers) = NumServers
  BY <1>1, FS_Interval
<1>8. FileOrder \in Injection(1 .. NumServers, Ports)
  BY <1>6, <1>7, FS_SurjSameCardinalityImpliesInj DEF NumServers
<1> QED
  BY <1>1, <1>2, <1>5, <1>8 DEF Injection, IsInjective

LEMMA InitBalance == Init => BalanceInv
<1> SUFFICES ASSUME Init PROVE BalanceInv
  OBVIOUS
<1> USE Order
<1>1. /\ servers = [n \in 1 .. NumServers |-> [port |-> FileOrder[n], running |-> FALSE]]
      /\ servers \in Seq(Server) /\ Len(servers) = NumServers /\ DOMAIN servers = 1 .. NumServers
      /\ \A n \in 1 .. NumServers : servers[n].port = FileOrder[n]
  <2>1. servers = [n \in 1 .. NumServers |-> [port |-> FileOrder[n], running |-> FALSE]]
    BY DEF Init
  <2>2. \A n \in 1 .. NumServers : [port |-> FileOrder[n], running |-> FALSE] \in Server
    BY DEF Server
  <2> QED
    BY <2>1, <2>2
<1>2. TypeOK
  <2>1. Cardinality(Ports) \in Nat
    BY DEF NumServers
  <2>2. count \in 0 .. Cardinality(Ports) /\ i \in 0 .. Cardinality(Ports)
    BY <2>1 DEF Init
  <2>3. requests \in 0 .. MaxRequests /\ flips \in 0 .. MaxFlips
    BY BalancerAssumption DEF Init
  <2> QED
    BY <1>1, <2>2, <2>3, BalancerAssumption DEF Init, TypeOK
<1>3. Ring
  BY <1>1 DEF Init, Ring
<1>4. Turns
  BY <1>1 DEF Init, Turns
<1>5. Search /\ Probing
  BY BalancerAssumption DEF Init, Search, Probing
<1> QED
  BY <1>2, <1>3, <1>4, <1>5 DEF BalanceInv

-----------------------------------------------------------------------------
(* The two halves of a rotation.                                           *)

\* The first server is taken out of the deque.
LEMMA Popped ==
  ASSUME TypeOK, Ring, tmp = None, PopFront
  PROVE  /\ Len(servers) = NumServers /\ NumServers \in Nat \ {0}
         /\ tmp' = servers[1] /\ tmp' \in Server /\ tmp' # None /\ tmp'.port \in Ports
         /\ servers' \in Seq(Server) /\ Len(servers') = NumServers - 1
         /\ \A n \in 1 .. NumServers - 1 : servers'[n] = servers[n + 1]
         /\ \A n \in 1 .. NumServers : servers[n] \in Server
         /\ Ring'
<1>1. servers \in Seq(Server) /\ Len(servers) = NumServers /\ NumServers \in Nat \ {0}
  BY Order DEF TypeOK, Ring
<1>2. tmp' = servers[1] /\ servers' = Tail(servers)
  BY <1>1 DEF PopFront
<1>3. /\ servers' \in Seq(Server) /\ Len(servers') = NumServers - 1
      /\ \A n \in 1 .. NumServers - 1 : servers'[n] = servers[n + 1]
      /\ DOMAIN servers' = 1 .. NumServers - 1 /\ DOMAIN servers = 1 .. NumServers
  BY <1>1, <1>2
<1>4. servers[1] \in Server /\ \A n \in 1 .. NumServers : servers[n] \in Server
  BY <1>1
<1>5. tmp' # None /\ tmp'.port \in Ports
  BY <1>2, <1>4, BalancerAssumption DEF Server
<1>6. Ring'
  <2>1. \A m, n \in DOMAIN servers' : servers'[m].port = servers'[n].port => m = n
    <3>1. \A n \in DOMAIN servers' : n \in Nat /\ n + 1 \in DOMAIN servers /\ servers'[n] = servers[n + 1]
      BY <1>1, <1>3
    <3>2. \A m, n \in DOMAIN servers' : servers'[m].port = servers'[n].port => m + 1 = n + 1
      BY <3>1 DEF Ring
    <3> QED
      BY <3>1, <3>2
  <2>2. \A n \in DOMAIN servers' : servers'[n].port # tmp'.port
    BY <1>1, <1>2, <1>3 DEF Ring
  <2>3. ASSUME NEW p \in Ports PROVE (\E n \in DOMAIN servers' : servers'[n].port = p) \/ tmp'.port = p
    <3>1. PICK n \in 1 .. NumServers : servers[n].port = p
      BY <1>3 DEF Ring
    <3>2. CASE n = 1
      BY <1>2, <3>1, <3>2
    <3>3. CASE n # 1
      <4>1. n - 1 \in 1 .. NumServers - 1 /\ servers'[n - 1] = servers[n]
        BY <1>1, <1>3, <3>3
      <4> QED
        BY <1>3, <3>1, <4>1
    <3> QED
      BY <3>2, <3>3
  <2> QED
    BY <1>3, <1>5, <2>1, <2>2, <2>3 DEF Ring, NumServers
<1> QED
  BY <1>1, <1>2, <1>3, <1>4, <1>5, <1>6

\* The server that was taken out is put at the back.
LEMMA Pushed ==
  ASSUME TypeOK, Ring, tmp # None, PushBack
  PROVE  /\ Len(servers) = NumServers - 1 /\ NumServers \in Nat \ {0}
         /\ tmp' = None /\ tmp \in Server /\ tmp.port \in Ports
         /\ servers' \in Seq(Server) /\ Len(servers') = NumServers /\ servers'[NumServers] = tmp
         /\ \A n \in 1 .. NumServers - 1 : servers'[n] = servers[n] /\ servers[n] \in Server
         /\ Ring'
<1>1. servers \in Seq(Server) /\ Len(servers) = NumServers - 1 /\ NumServers \in Nat \ {0}
  BY Order DEF TypeOK, Ring
<1>2. tmp' = None /\ servers' = Append(servers, tmp) /\ tmp \in Server /\ tmp.port \in Ports
  BY DEF PushBack, TypeOK, Server
<1>3. /\ servers' \in Seq(Server) /\ Len(servers') = NumServers /\ servers'[NumServers] = tmp
      /\ \A n \in 1 .. NumServers - 1 : servers'[n] = servers[n] /\ servers[n] \in Server
      /\ DOMAIN servers' = 1 .. NumServers /\ DOMAIN servers = 1 .. NumServers - 1
  BY <1>1, <1>2
<1>4. Ring'
  <2>1. ASSUME NEW m \in DOMAIN servers', NEW n \in DOMAIN servers', servers'[m].port = servers'[n].port
        PROVE  m = n
    <3>1. CASE m # NumServers /\ n # NumServers
      <4>1. m \in 1 .. NumServers - 1 /\ n \in 1 .. NumServers - 1
        BY <1>1, <1>3, <3>1
      <4> QED
        BY <1>3, <2>1, <4>1 DEF Ring
    <3>2. CASE m = NumServers /\ n # NumServers
      <4>1. n \in 1 .. NumServers - 1
        BY <1>1, <1>3, <3>2
      <4> QED
        BY <1>3, <2>1, <3>2, <4>1 DEF Ring
    <3>3. CASE m # NumServers /\ n = NumServers
      <4>1. m \in 1 .. NumServers - 1
        BY <1>1, <1>3, <3>3
      <4> QED
        BY <1>3, <2>1, <3>3, <4>1 DEF Ring
    <3> QED
      BY <3>1, <3>2, <3>3
  <2>2. ASSUME NEW p \in Ports PROVE \E n \in DOMAIN servers' : servers'[n].port = p
    <3>1. CASE tmp.port = p
      BY <1>1, <1>3, <3>1
    <3>2. CASE tmp.port # p
      <4>1. PICK n \in 1 .. NumServers - 1 : servers[n].port = p
        BY <1>3, <3>2 DEF Ring
      <4> QED
        BY <1>1, <1>3, <4>1
    <3> QED
      BY <3>1, <3>2
  <2> QED
    BY <1>2, <1>3, <2>1, <2>2 DEF Ring, NumServers
<1> QED
  BY <1>1, <1>2, <1>3, <1>4

-----------------------------------------------------------------------------
(* The main thread.                                                        *)

\* Steps that leave the deque and the main thread alone.
LEMMA FlipBalance ==
  ASSUME BalanceInv, NEW p \in Ports, StopServer(p) \/ StartServer(p)
  PROVE  BalanceInv'
<1> USE DEF BalanceInv
<1>1. /\ flips < MaxFlips /\ flips' = flips + 1
      /\ up' = [up EXCEPT ![p] = FALSE] \/ up' = [up EXCEPT ![p] = TRUE]
      /\ UNCHANGED <<servers, lock, main, tmp, count, answer, marked, used, cpc, i, port, ret, requests, shifted>>
  BY DEF StopServer, StartServer, mainVars, checkVars
<1>2. up' \in [Ports -> BOOLEAN] /\ flips' \in 0 .. MaxFlips
  <2>1. up' \in [Ports -> BOOLEAN]
    BY <1>1 DEF TypeOK
  <2>2. flips \in 0 .. MaxFlips /\ MaxFlips \in Nat
    BY BalancerAssumption DEF TypeOK
  <2> QED
    BY <1>1, <2>1, <2>2
<1>3. TypeOK'
  BY SMTT(20), <1>1, <1>2 DEF TypeOK
<1>4. Ring' /\ Turns'
  BY <1>1 DEF Ring, Turns, NumServers
<1>5. Search' /\ Probing'
  BY <1>1 DEF Search, Probing, NumServers
<1> QED
  BY <1>3, <1>4, <1>5

LEMMA AcceptBalance ==
  ASSUME BalanceInv, Accept
  PROVE  BalanceInv'
<1>1. /\ main = "accept" /\ main' = "lock" /\ requests' \in 0 .. MaxRequests
      /\ UNCHANGED <<up, servers, lock, tmp, count, answer, marked, used, cpc, i, port, ret, flips, shifted>>
  BY BalancerAssumption DEF Accept, checkVars, BalanceInv, TypeOK
<1> QED
  BY <1>1 DEF BalanceInv, TypeOK, Ring, Turns, Search, Probing, NumServers

LEMMA LockScanBalance ==
  ASSUME BalanceInv, LockScan
  PROVE  BalanceInv'
<1> USE DEF BalanceInv
<1>1. /\ main = "lock" /\ lock = None /\ lock' = "main" /\ main' = "scan" /\ count = 0 /\ tmp = None
      /\ marked' = {p \in Ports : \E n \in DOMAIN servers : servers[n] = [port |-> p, running |-> TRUE]}
      /\ UNCHANGED <<up, servers, tmp, count, answer, used, cpc, i, port, ret, requests, flips, shifted>>
  BY DEF LockScan, checkVars, Search
<1>2. TypeOK'
  BY <1>1 DEF TypeOK
<1>3. Ring' /\ Turns' /\ Probing'
  BY <1>1, BalancerAssumption DEF Ring, Turns, Probing, NumServers
<1>4. Search'
  <2>1. servers \in Seq(Server) /\ Len(servers) = NumServers /\ NumServers \in Nat \ {0}
    BY <1>1, Order DEF TypeOK, Ring
  <2>2. ASSUME NEW n \in DOMAIN servers PROVE servers[n].running <=> servers[n].port \in marked'
    <3>1. servers[n] \in Server
      BY <2>1
    <3>2. servers[n].running => servers[n] = [port |-> servers[n].port, running |-> TRUE]
      BY <3>1 DEF Server
    <3>3. servers[n].running => servers[n].port \in marked'
      BY <1>1, <3>1, <3>2 DEF Server
    <3>4. ASSUME servers[n].port \in marked' PROVE servers[n].running
      <4>1. PICK m \in DOMAIN servers : servers[m] = [port |-> servers[n].port, running |-> TRUE]
        BY <1>1, <3>4
      <4>2. servers[m].port = servers[n].port /\ servers[m].running
        BY <4>1
      <4> QED
        BY <4>2 DEF Ring
    <3> QED
      BY <3>3, <3>4
  <2>3. \A n \in DOMAIN servers : ~(n + count > NumServers)
    BY <1>1, <2>1
  <2> QED
    BY <1>1, <2>1, <2>2, <2>3 DEF Search, NumServers
<1> QED
  BY <1>2, <1>3, <1>4

LEMMA FoundFrontBalance ==
  ASSUME BalanceInv, FoundFront
  PROVE  BalanceInv'
<1> USE DEF BalanceInv
<1>1. /\ main = "scan" /\ lock = "main" /\ lock' = None /\ main' = "read" /\ Head(servers).running /\ tmp = None
      /\ UNCHANGED <<up, servers, tmp, count, answer, marked, used, cpc, i, port, ret, requests, flips, shifted>>
  BY DEF FoundFront, checkVars, Search, TypeOK
<1>2. TypeOK'
  BY <1>1, BalancerAssumption DEF TypeOK
<1>3. Ring' /\ Turns' /\ Probing'
  BY <1>1, BalancerAssumption DEF Ring, Turns, Probing, NumServers
<1>4. Search'
  <2>1. servers \in Seq(Server) /\ Len(servers) = NumServers /\ NumServers \in Nat \ {0}
    BY <1>1, Order DEF TypeOK, Ring
  <2>2. 1 \in DOMAIN servers /\ Head(servers) = servers[1]
    BY <2>1
  <2> QED
    BY <1>1, <2>2 DEF Search
<1> QED
  BY <1>2, <1>3, <1>4

LEMMA SkipFrontBalance ==
  ASSUME BalanceInv, SkipFront
  PROVE  BalanceInv'
<1> USE DEF BalanceInv
<1>1. /\ main = "scan" /\ lock = "main" /\ main' = "skip" /\ ~Head(servers).running /\ tmp = None
      /\ PopFront /\ count' = count + 1
      /\ used' = [used EXCEPT ![Head(servers).port] = [q \in Ports |-> 0]]
      /\ UNCHANGED <<up, lock, answer, marked, cpc, i, port, ret, requests, flips>>
  BY DEF SkipFront, checkVars, Search, TypeOK
<1>2. /\ Len(servers) = NumServers /\ NumServers \in Nat \ {0}
      /\ tmp' = servers[1] /\ tmp' \in Server /\ tmp' # None /\ tmp'.port \in Ports
      /\ servers' \in Seq(Server) /\ Len(servers') = NumServers - 1
      /\ \A n \in 1 .. NumServers - 1 : servers'[n] = servers[n + 1]
      /\ \A n \in 1 .. NumServers : servers[n] \in Server
      /\ Ring'
  BY <1>1, Popped
<1>3. /\ DOMAIN servers = 1 .. NumServers /\ DOMAIN servers' = 1 .. NumServers - 1
      /\ 1 \in DOMAIN servers /\ Head(servers) = servers[1]
  BY <1>2 DEF TypeOK
<1>4. /\ used' = [used EXCEPT ![tmp'.port] = [q \in Ports |-> 0]]
      /\ used' \in [Ports -> [Ports -> Nat]]
  BY <1>1, <1>2, <1>3 DEF TypeOK
<1>5. count \in Nat /\ count < NumServers
  BY <1>1, <1>2 DEF TypeOK, Search, NumServers
<1>6. TypeOK'
  <2>1. shifted' \in BOOLEAN /\ count' \in 0 .. Cardinality(Ports)
    BY <1>1, <1>2, <1>5 DEF PopFront, TypeOK, NumServers
  <2> QED
    BY <1>1, <1>2, <1>4, <2>1 DEF TypeOK
<1>7. Turns'
  <2>1. \A n \in 1 .. NumServers - 1 : n + 1 \in DOMAIN servers /\ servers[n + 1].port \in Ports
    BY <1>2, <1>3 DEF Server
  <2>2. \A p, q \in Ports : used'[p][q] = IF p = tmp'.port THEN 0 ELSE used[p][q]
    BY <1>2, <1>4 DEF TypeOK
  <2>3. \A p, q \in Ports : used'[p][q] <= 1
    BY <2>2 DEF Turns
  <2>4. ASSUME NEW m \in 1 .. NumServers - 1, NEW n \in 1 .. NumServers - 1,
               used'[servers'[m].port][servers'[n].port] # 0
        PROVE  m < n
    <3>1. used[servers[m + 1].port][servers[n + 1].port] # 0
      BY <1>2, <2>1, <2>2, <2>4
    <3>2. m + 1 < n + 1
      BY <2>1, <3>1 DEF Turns
    <3> QED
      BY <3>2
  <2>5. ASSUME NEW p \in Ports PROVE used'[p][tmp'.port] = 0
    <3>1. PICK n \in 1 .. NumServers : servers[n].port = p
      BY <1>1, <1>3 DEF Ring
    <3>2. used[p][tmp'.port] # 0 => n < 1
      BY <1>2, <1>3, <3>1 DEF Turns
    <3> QED
      BY <1>2, <2>2, <3>2
  <2>6. \A q \in Ports : used'[tmp'.port][q] = 0
    BY <1>2, <2>2
  <2> QED
    BY <1>3, <2>3, <2>4, <2>5, <2>6 DEF Turns
<1>8. Search'
  <2>1. ~tmp'.running /\ tmp'.port \notin marked
    BY <1>1, <1>2, <1>3 DEF Search
  <2>2. ASSUME NEW n \in DOMAIN servers'
        PROVE  /\ servers'[n].running <=> servers'[n].port \in marked
               /\ n + count' > NumServers => ~servers'[n].running
    <3>1. n \in Nat /\ n + 1 \in DOMAIN servers /\ servers'[n] = servers[n + 1]
      BY <1>2, <1>3
    <3>2. n + count' > NumServers => (n + 1) + count > NumServers
      BY <1>1, <1>2, <1>5, <3>1
    <3> QED
      BY <1>1, <3>1, <3>2 DEF Search
  <2>3. count' # 0
    BY <1>1, <1>5
  <2> QED
    BY <1>1, <1>2, <2>1, <2>2, <2>3 DEF Search, NumServers
<1>9. Probing'
  <2>1. cpc \in {"probe", "lock"} => shifted'
    BY <1>1 DEF PopFront
  <2>2. cpc # "mark"
    BY <1>1 DEF Probing
  <2> QED
    BY <1>1, <2>1, <2>2 DEF Probing, NumServers
<1> QED
  BY <1>2, <1>6, <1>7, <1>8, <1>9

LEMMA SkipBackBalance ==
  ASSUME BalanceInv, SkipBack
  PROVE  BalanceInv'
<1> USE DEF BalanceInv
<1>1. /\ main = "skip" /\ lock = "main" /\ tmp # None /\ PushBack
      /\ UNCHANGED <<up, count, marked, used, cpc, i, port, ret, requests, flips, shifted>>
  BY DEF SkipBack, checkVars, Search, TypeOK
<1>2. /\ Len(servers) = NumServers - 1 /\ NumServers \in Nat \ {0}
      /\ tmp' = None /\ tmp \in Server /\ tmp.port \in Ports
      /\ servers' \in Seq(Server) /\ Len(servers') = NumServers /\ servers'[NumServers] = tmp
      /\ \A n \in 1 .. NumServers - 1 : servers'[n] = servers[n] /\ servers[n] \in Server
      /\ Ring'
  BY <1>1, Pushed
<1>3. \/ /\ count = NumServers /\ lock' = None /\ answer' = None /\ main' = "reply"
      \/ /\ count # NumServers /\ main' = "scan" /\ lock' = lock /\ answer' = answer
  BY <1>2 DEF SkipBack
<1>4. DOMAIN servers' = 1 .. NumServers /\ DOMAIN servers = 1 .. NumServers - 1
  BY <1>2 DEF TypeOK
<1>5. count \in 0 .. NumServers
  BY DEF TypeOK, NumServers
<1>6. TypeOK'
  BY <1>1, <1>2, <1>3, BalancerAssumption DEF TypeOK
<1>7. \A n \in DOMAIN servers' :
        \/ n = NumServers /\ servers'[n] = tmp
        \/ n \in 1 .. NumServers - 1 /\ servers'[n] = servers[n] /\ servers[n].port \in Ports
  BY <1>2, <1>4 DEF Server
<1>8. Turns'
  <2>1. \A p \in Ports : used[p][tmp.port] = 0 /\ used[tmp.port][p] = 0
    BY <1>1 DEF Turns
  <2>2. ASSUME NEW m \in DOMAIN servers', NEW n \in DOMAIN servers', used[servers'[m].port][servers'[n].port] # 0
        PROVE  m < n
    <3>1. m \in DOMAIN servers /\ n \in DOMAIN servers /\ used[servers[m].port][servers[n].port] # 0
      BY <1>2, <1>4, <1>7, <2>1, <2>2
    <3> QED
      BY <3>1 DEF Turns
  <2> QED
    BY <1>1, <1>2, <1>3, <2>2 DEF Turns
<1>9. \A n \in DOMAIN servers' : /\ servers'[n].running <=> servers'[n].port \in marked
                                 /\ n + count > NumServers => ~servers'[n].running
  BY <1>1, <1>4, <1>7 DEF Search
<1>10. Search'
  <2>1. ASSUME count = NumServers PROVE marked = {}
    <3>1. \A n \in DOMAIN servers' : servers'[n].port \notin marked
      BY <1>2, <1>4, <1>9, <2>1
    <3>2. \A p \in Ports : p \notin marked
      BY <1>2, <3>1 DEF Ring
    <3> QED
      BY <3>2 DEF TypeOK
  <2> QED
    BY <1>1, <1>2, <1>3, <1>5, <1>9, <2>1 DEF Search, NumServers
<1>11. Probing'
  <2>1. ~shifted /\ cpc \in {"probe", "lock", "mark"} => i + 1 <= NumServers /\ servers'[i + 1].port = port
    <3>1. i \in Nat
      BY <1>2 DEF TypeOK, NumServers
    <3>2. ASSUME ~shifted, cpc \in {"probe", "lock", "mark"} PROVE i + 1 \in 1 .. NumServers - 1 /\ servers[i + 1].port = port
      BY <1>2, <3>1, <3>2 DEF Probing
    <3> QED
      BY <1>2, <3>2
  <2> QED
    BY <1>1, <1>2, <1>3, <2>1, BalancerAssumption DEF Probing, NumServers
<1> QED
  BY <1>2, <1>6, <1>8, <1>10, <1>11

LEMMA ReadFrontBalance ==
  ASSUME BalanceInv, ReadFront
  PROVE  BalanceInv'
<1> USE DEF BalanceInv
<1>1. /\ main = "read" /\ main' = "relock" /\ answer' = Head(servers).port /\ tmp = None /\ lock # "main"
      /\ UNCHANGED <<up, servers, lock, tmp, count, marked, used, cpc, i, port, ret, requests, flips, shifted>>
  BY DEF ReadFront, checkVars, Search, TypeOK
<1>2. servers \in Seq(Server) /\ Len(servers) = NumServers /\ NumServers \in Nat \ {0}
  BY <1>1, Order DEF TypeOK, Ring
<1>3. Head(servers) = servers[1] /\ servers[1] \in Server /\ servers[1].port \in Ports
  <2>1. Head(servers) = servers[1] /\ servers[1] \in Server
    BY <1>2
  <2> QED
    BY <2>1 DEF Server
<1>4. TypeOK'
  BY <1>1, <1>3 DEF TypeOK
<1>5. Ring' /\ Turns' /\ Probing'
  BY <1>1 DEF Ring, Turns, Probing, NumServers
<1>6. Search'
  BY <1>1, <1>3 DEF Search
<1> QED
  BY <1>4, <1>5, <1>6

LEMMA MoveFrontBalance ==
  ASSUME BalanceInv, MoveFront
  PROVE  BalanceInv'
<1> USE DEF BalanceInv
<1>1. /\ main = "relock" /\ lock = None /\ lock' = "main" /\ main' = "move" /\ tmp = None
      /\ PopFront
      /\ UNCHANGED <<up, count, answer, marked, used, cpc, i, port, ret, requests, flips>>
  BY DEF MoveFront, checkVars, Search
<1>2. /\ Len(servers) = NumServers /\ NumServers \in Nat \ {0}
      /\ tmp' = servers[1] /\ tmp' \in Server /\ tmp' # None /\ tmp'.port \in Ports
      /\ servers' \in Seq(Server) /\ Len(servers') = NumServers - 1
      /\ \A n \in 1 .. NumServers - 1 : servers'[n] = servers[n + 1]
      /\ \A n \in 1 .. NumServers : servers[n] \in Server
      /\ Ring'
  BY <1>1, Popped
<1>3. /\ DOMAIN servers = 1 .. NumServers /\ DOMAIN servers' = 1 .. NumServers - 1
      /\ 1 \in DOMAIN servers
  BY <1>2 DEF TypeOK
<1>4. TypeOK'
  <2>1. shifted' \in BOOLEAN
    BY <1>1 DEF PopFront, TypeOK
  <2> QED
    BY <1>1, <1>2, <2>1 DEF TypeOK
<1>5. Turns'
  <2>1. ASSUME NEW m \in 1 .. NumServers - 1, NEW n \in 1 .. NumServers - 1,
               used[servers'[m].port][servers'[n].port] # 0
        PROVE  m < n
    <3>1. m + 1 \in DOMAIN servers /\ n + 1 \in DOMAIN servers
      BY <1>2, <1>3
    <3>2. m + 1 < n + 1
      BY <1>2, <2>1, <3>1 DEF Turns
    <3> QED
      BY <3>2
  <2>2. ASSUME NEW p \in Ports PROVE used[p][tmp'.port] = 0
    <3>1. PICK n \in 1 .. NumServers : servers[n].port = p
      BY <1>1, <1>3 DEF Ring
    <3>2. used[p][tmp'.port] # 0 => n < 1
      BY <1>2, <1>3, <3>1 DEF Turns
    <3> QED
      BY <1>2, <3>2
  <2> QED
    BY <1>1, <1>3, <2>1, <2>2 DEF Turns
<1>6. Search'
  BY <1>1, <1>2 DEF Search
<1>7. Probing'
  <2>1. cpc \in {"probe", "lock"} => shifted'
    BY <1>1 DEF PopFront
  <2>2. cpc # "mark"
    BY <1>1, BalancerAssumption DEF Probing
  <2> QED
    BY <1>1, <2>1, <2>2 DEF Probing, NumServers
<1> QED
  BY <1>2, <1>4, <1>5, <1>6, <1>7

LEMMA EndMoveBalance ==
  ASSUME BalanceInv, EndMove
  PROVE  BalanceInv'
<1> USE DEF BalanceInv
<1>1. /\ main = "move" /\ lock = "main" /\ lock' = None /\ main' = "reply" /\ tmp # None /\ PushBack
      /\ answer = tmp.port /\ answer \in marked
      /\ used' = [p \in Ports |->
                    IF p = answer THEN [q \in Ports |-> 0] ELSE [used[p] EXCEPT ![answer] = @ + 1]]
      /\ UNCHANGED <<up, count, answer, marked, cpc, i, port, ret, requests, flips, shifted>>
  BY DEF EndMove, MoveBack, checkVars, Search, TypeOK
<1>2. /\ Len(servers) = NumServers - 1 /\ NumServers \in Nat \ {0}
      /\ tmp' = None /\ tmp \in Server /\ tmp.port \in Ports
      /\ servers' \in Seq(Server) /\ Len(servers') = NumServers /\ servers'[NumServers] = tmp
      /\ \A n \in 1 .. NumServers - 1 : servers'[n] = servers[n] /\ servers[n] \in Server
      /\ Ring'
  BY <1>1, Pushed
<1>3. DOMAIN servers' = 1 .. NumServers /\ DOMAIN servers = 1 .. NumServers - 1
  BY <1>2 DEF TypeOK
<1>4. \A p, q \in Ports :
        used'[p][q] = IF p = answer THEN 0 ELSE IF q = answer THEN used[p][q] + 1 ELSE used[p][q]
  BY <1>1, <1>2 DEF TypeOK
<1>5. used' \in [Ports -> [Ports -> Nat]]
  <2>1. ASSUME NEW p \in Ports
        PROVE  (IF p = answer THEN [q \in Ports |-> 0] ELSE [used[p] EXCEPT ![answer] = @ + 1]) \in [Ports -> Nat]
    <3>1. used[p] \in [Ports -> Nat] /\ answer \in Ports
      BY <1>1, <1>2 DEF TypeOK
    <3>2. [q \in Ports |-> 0] \in [Ports -> Nat]
      OBVIOUS
    <3>3. [used[p] EXCEPT ![answer] = @ + 1] \in [Ports -> Nat]
      BY <3>1
    <3> QED
      BY <3>2, <3>3
  <2> QED
    BY <1>1, <2>1
<1>6. TypeOK'
  BY <1>1, <1>2, <1>5, BalancerAssumption DEF TypeOK
<1>7. Turns'
  <2>1. \A p \in Ports : used[p][answer] = 0
    BY <1>1 DEF Turns
  <2>2. \A p, q \in Ports : used'[p][q] <= 1
    BY <1>1, <1>2, <1>4, <2>1 DEF Turns
  <2>3. ASSUME NEW m \in DOMAIN servers', NEW n \in DOMAIN servers', used'[servers'[m].port][servers'[n].port] # 0
        PROVE  m < n
    <3>1. servers'[m].port \in Ports /\ servers'[n].port \in Ports
      BY <1>2, <1>3, <2>3 DEF Server
    <3>2. servers'[m].port # answer
      BY <1>4, <2>3, <3>1
    <3>3. m \in 1 .. NumServers - 1
      BY <1>1, <1>2, <1>3, <3>2
    <3>4. CASE n = NumServers
      BY <1>2, <3>3, <3>4
    <3>5. CASE n # NumServers
      <4>1. n \in 1 .. NumServers - 1
        BY <1>2, <1>3, <3>5
      <4>2. servers[n].port # answer
        BY <1>1, <1>3, <4>1 DEF Ring
      <4>3. used[servers[m].port][servers[n].port] # 0
        BY <1>2, <1>4, <2>3, <3>1, <3>2, <3>3, <4>1, <4>2
      <4> QED
        BY <1>3, <3>3, <4>1, <4>3 DEF Turns
    <3> QED
      BY <3>4, <3>5
  <2> QED
    BY <1>1, <1>2, <2>2, <2>3 DEF Turns
<1>8. Search'
  <2>1. answer # None
    BY <1>1, <1>2, BalancerAssumption
  <2> QED
    BY <1>1, <1>2, <2>1 DEF Search
<1>9. Probing'
  <2>1. ~shifted /\ cpc \in {"probe", "lock", "mark"} => i + 1 <= NumServers /\ servers'[i + 1].port = port
    <3>1. i \in Nat
      BY <1>2 DEF TypeOK, NumServers
    <3>2. ASSUME ~shifted, cpc \in {"probe", "lock", "mark"} PROVE i + 1 \in 1 .. NumServers - 1 /\ servers[i + 1].port = port
      BY <1>2, <3>1, <3>2 DEF Probing
    <3> QED
      BY <1>2, <3>2
  <2> QED
    BY <1>1, <1>2, <2>1, BalancerAssumption DEF Probing, NumServers
<1> QED
  BY <1>2, <1>6, <1>7, <1>8, <1>9

LEMMA ReplyBalance ==
  ASSUME BalanceInv, Reply
  PROVE  BalanceInv'
<1> USE DEF BalanceInv
<1>1. /\ main = "reply" /\ main' = "accept" /\ count' = 0 /\ answer' = None /\ marked' = {} /\ tmp = None
      /\ UNCHANGED <<up, servers, lock, tmp, cpc, i, port, ret, requests, flips, used, shifted>>
  BY DEF Reply, checkVars, Search
<1>2. TypeOK'
  <2>1. 0 \in 0 .. Cardinality(Ports)
    BY Order DEF NumServers
  <2> QED
    BY <1>1, <2>1 DEF TypeOK
<1>3. Ring' /\ Turns' /\ Search' /\ Probing'
  BY <1>1 DEF Ring, Turns, Search, Probing, NumServers
<1> QED
  BY <1>2, <1>3

-----------------------------------------------------------------------------
(* The checker.                                                            *)

LEMMA CheckerDiesBalance ==
  ASSUME BalanceInv, CheckerDies
  PROVE  BalanceInv'
<1> USE DEF BalanceInv
<1>1. /\ cpc \in {"read", "probe"} /\ main' = "ended" /\ lock' = None
      /\ UNCHANGED <<up, servers, tmp, count, answer, marked, used, cpc, i, port, ret, requests, flips, shifted>>
  BY DEF CheckerDies, checkVars
<1>2. TypeOK'
  BY <1>1, BalancerAssumption DEF TypeOK
<1>3. Ring' /\ Turns' /\ Search' /\ Probing'
  BY <1>1, BalancerAssumption DEF Ring, Turns, Search, Probing, NumServers
<1> QED
  BY <1>2, <1>3

\* A step of the checker that leaves the deque alone.
LEMMA CheckerBalance ==
  ASSUME BalanceInv, main # "ended", ForEach \/ ReadPlace \/ Connect \/ TakeLock
  PROVE  BalanceInv'
<1> USE DEF BalanceInv
<1>1. UNCHANGED <<up, servers, main, tmp, count, answer, marked, used, requests, flips>>
  BY DEF ForEach, ReadPlace, Connect, TakeLock, mainVars
<1>2. Ring' /\ Turns' /\ Search'
  BY <1>1 DEF Ring, Turns, Search, NumServers
<1>3. servers \in Seq(Server) /\ Len(servers) \in Nat /\ Len(servers) <= NumServers /\ NumServers \in Nat \ {0}
  BY Order DEF TypeOK, Ring
<1>4. CASE ForEach
  <2>1. /\ cpc = "for" /\ UNCHANGED <<lock, port, ret, shifted>>
        /\ \/ i < Len(servers) /\ cpc' = "read" /\ i' = i
           \/ i' = 0 /\ cpc' = cpc
    BY <1>4 DEF ForEach, Another
  <2>2. TypeOK' /\ Probing'
    BY <1>1, <1>3, <2>1 DEF TypeOK, Probing, NumServers
  <2> QED
    BY <1>2, <2>2
<1>5. CASE ReadPlace
  <2>1. /\ cpc = "read" /\ ~(i + 1 > Len(servers)) /\ port' = servers[i + 1].port /\ cpc' = "probe"
        /\ shifted' = FALSE /\ UNCHANGED <<lock, i, ret>>
    BY <1>5 DEF ReadPlace, Throws
  <2>2. i + 1 \in 1 .. Len(servers)
    BY <1>3, <2>1 DEF TypeOK, NumServers
  <2>3. port' \in Ports
    <3>1. servers[i + 1] \in Server
      BY <1>3, <2>2
    <3> QED
      BY <2>1, <3>1 DEF Server
  <2>4. TypeOK'
    BY <1>1, <2>1, <2>3 DEF TypeOK
  <2>5. Probing'
    BY <1>1, <2>1, <2>2, <2>3 DEF Probing, NumServers
  <2> QED
    BY <1>2, <2>4, <2>5
<1>6. CASE Connect
  <2>1. cpc = "probe" /\ ret' = up[port] /\ cpc' = "lock" /\ UNCHANGED <<lock, i, port, shifted>>
    BY <1>6 DEF Connect
  <2>2. ret' \in BOOLEAN
    BY <2>1 DEF TypeOK, Probing
  <2>3. TypeOK' /\ Probing'
    BY <1>1, <2>1, <2>2 DEF TypeOK, Probing, NumServers
  <2> QED
    BY <1>2, <2>3
<1>7. CASE TakeLock
  <2>1. cpc = "lock" /\ lock = None /\ lock' = "check" /\ cpc' = "mark" /\ UNCHANGED <<i, port, ret, shifted>>
    BY <1>7 DEF TakeLock, LockMark
  <2>2. main \notin {"scan", "skip", "move"}
    BY <2>1, BalancerAssumption DEF TypeOK
  <2>3. TypeOK' /\ Probing'
    BY <1>1, <2>1, <2>2 DEF TypeOK, Probing, NumServers
  <2> QED
    BY <1>2, <2>3
<1> QED
  BY <1>4, <1>5, <1>6, <1>7

\* What the checker stores: its result, at its place, in a deque of full length.
LEMMA Stored ==
  ASSUME BalanceInv, StoreMark
  PROVE  /\ cpc = "mark" /\ lock = "check" /\ main \notin {"scan", "skip", "move"} /\ tmp = None
         /\ Len(servers) = NumServers /\ NumServers \in Nat \ {0} /\ i \in Nat /\ i < NumServers
         /\ servers' \in Seq(Server) /\ Len(servers') = NumServers
         /\ servers'[i + 1].running = ret
         /\ \A n \in 1 .. NumServers : servers'[n].port = servers[n].port
         /\ \A n \in 1 .. NumServers : n # i + 1 => servers'[n] = servers[n]
<1> USE DEF BalanceInv
<1>1. /\ cpc = "mark" /\ lock = "check" /\ main # "ended"
      /\ servers' = [servers EXCEPT ![i + 1].running = ret]
  BY DEF StoreMark, Mark, Probing
<1>2. main \notin {"scan", "skip", "move"} /\ tmp = None
  BY <1>1 DEF TypeOK, Search
<1>3. /\ servers \in Seq(Server) /\ Len(servers) = NumServers /\ NumServers \in Nat \ {0}
      /\ i \in Nat /\ i < NumServers
  BY <1>1, <1>2, Order DEF TypeOK, Ring, Probing, NumServers
<1>4. i + 1 \in 1 .. NumServers /\ ret \in BOOLEAN
  BY <1>3 DEF TypeOK
<1> DEFINE v == [servers[i + 1] EXCEPT !.running = ret]
<1>5. v \in Server /\ v.port = servers[i + 1].port /\ v.running = ret
  <2>1. servers[i + 1] \in Server
    BY <1>3, <1>4
  <2> QED
    BY <1>4, <2>1 DEF Server
<1>6. servers' = [servers EXCEPT ![i + 1] = v]
  BY <1>1
<1> HIDE DEF v
<1>7. /\ servers' \in Seq(Server) /\ Len(servers') = NumServers /\ servers'[i + 1] = v
      /\ \A n \in 1 .. NumServers : n # i + 1 => servers'[n] = servers[n]
  BY <1>3, <1>4, <1>5, <1>6
<1> QED
  BY <1>1, <1>2, <1>3, <1>5, <1>7

LEMMA StoreMarkBalance ==
  ASSUME BalanceInv, StoreMark
  PROVE  BalanceInv'
<1> USE DEF BalanceInv
<1>1. /\ lock' = None /\ i' = i + 1 /\ cpc' = "for" /\ port' = None /\ ret' = FALSE /\ shifted' = FALSE
      /\ UNCHANGED <<up, main, tmp, count, answer, marked, used, requests, flips>>
  BY Stored DEF StoreMark, mainVars
<1>2. /\ cpc = "mark" /\ lock = "check" /\ main \notin {"scan", "skip", "move"} /\ tmp = None
      /\ Len(servers) = NumServers /\ NumServers \in Nat \ {0} /\ i \in Nat /\ i < NumServers
      /\ servers' \in Seq(Server) /\ Len(servers') = NumServers
      /\ \A n \in 1 .. NumServers : servers'[n].port = servers[n].port
  BY Stored
<1>3. DOMAIN servers = 1 .. NumServers /\ DOMAIN servers' = 1 .. NumServers /\ 1 \in 1 .. NumServers
  BY <1>2 DEF TypeOK
<1>4. TypeOK'
  <2>1. i' \in 0 .. Cardinality(Ports)
    BY <1>1, <1>2 DEF NumServers
  <2>2. main \in {"scan", "skip", "move"} <=> lock' = "main"
    BY <1>1, <1>2, BalancerAssumption
  <2> QED
    BY <1>1, <1>2, <2>1, <2>2 DEF TypeOK
<1>5. Ring'
  BY <1>1, <1>2, <1>3 DEF Ring, NumServers
<1>6. Turns'
  BY <1>1, <1>2, <1>3 DEF Turns
<1>7. Search'
  BY <1>1, <1>2, <1>3 DEF Search
<1>8. Probing'
  BY <1>1, BalancerAssumption DEF Probing
<1> QED
  BY <1>4, <1>5, <1>6, <1>7, <1>8

LEMMA NextBalance == BalanceInv /\ [Next]_vars => BalanceInv'
<1> SUFFICES ASSUME BalanceInv, [Next]_vars PROVE BalanceInv'
  OBVIOUS
<1>1. ASSUME NEW p \in Ports, StopServer(p) \/ StartServer(p) PROVE BalanceInv'
  BY <1>1, FlipBalance
<1>2. CASE Accept
  BY <1>2, AcceptBalance
<1>3. CASE Main
  BY <1>3, LockScanBalance, FoundFrontBalance, SkipFrontBalance, SkipBackBalance, ReadFrontBalance,
     MoveFrontBalance, EndMoveBalance, ReplyBalance DEF Main
<1>4. CASE Checker
  <2>1. main # "ended"
    BY <1>4 DEF Checker, ForEach, ReadPlace, Connect, TakeLock, StoreMark
  <2> QED
    BY <1>4, <2>1, CheckerBalance, StoreMarkBalance DEF Checker
<1>5. CASE CheckerDies
  BY <1>5, CheckerDiesBalance
<1>6. CASE UNCHANGED vars
  BY <1>6 DEF vars, mainVars, checkVars, BalanceInv, TypeOK, Ring, Turns, Search, Probing, NumServers
<1> QED
  BY <1>1, <1>2, <1>3, <1>4, <1>5, <1>6 DEF Next

-----------------------------------------------------------------------------
(* The invariant of the balancer: the deque is a ring in the order of the  *)
(* last use, and under the lock its marks are those the search has seen.   *)
THEOREM BalanceInvariance == Spec => []BalanceInv
BY InitBalance, NextBalance, PTL DEF Spec

(* The front ends take turns, however the main thread and the checker      *)
(* interleave, for any number of front ends.                               *)
THEOREM BalanceRoundRobin == Spec => []RoundRobin
<1>1. ASSUME BalanceInv PROVE RoundRobin
  <2> USE <1>1 DEF BalanceInv
  <2>1. ASSUME NEW p \in Ports
        PROVE  Cardinality(Places(p)) = (IF tmp # None /\ tmp.port = p THEN 0 ELSE 1)
    <3>1. CASE tmp # None /\ tmp.port = p
      <4>1. Places(p) = {}
        BY <3>1 DEF Places, Ring
      <4> QED
        BY <3>1, <4>1, FS_EmptySet
    <3>2. CASE ~(tmp # None /\ tmp.port = p)
      <4>1. PICK n \in DOMAIN servers : servers[n].port = p
        BY <3>2 DEF Ring
      <4>2. Places(p) = {n}
        BY <4>1 DEF Places, Ring
      <4> QED
        BY <3>2, <4>2, FS_Singleton
    <3> QED
      BY <3>1, <3>2
  <2> QED
    BY <2>1 DEF RoundRobin, Turns, Search
<1> QED
  BY <1>1, BalanceInvariance, PTL

(* A mark changes only in the checker's step, to the result of the probe,  *)
(* and it is the mark of the front end that was probed unless the deque    *)
(* was rotated between the checker's first read and the lock.              *)
THEOREM BalanceMarksTheProbed == Spec => MarksTheProbed
<1> DEFINE A == \A p \in Ports : \A m \in Places(p) : \A n \in DOMAIN servers' :
                  servers'[n].port = p /\ servers'[n].running # servers[m].running
                    => shifted \/ (p = port /\ servers'[n].running = ret)
<1>1. ASSUME BalanceInv, [Next]_vars PROVE [A]_vars
  <2> USE <1>1 DEF BalanceInv
  <2> SUFFICES ASSUME NEW p \in Ports, NEW m \in DOMAIN servers, servers[m].port = p,
                      NEW n \in DOMAIN servers', servers'[n].port = p,
                      servers'[n].running # servers[m].running
               PROVE  shifted \/ (p = port /\ servers'[n].running = ret)
    BY DEF Places
  <2>1. CASE UNCHANGED servers
    BY <2>1 DEF Ring
  <2>2. ASSUME PopFront, tmp = None PROVE FALSE
    <3>1. /\ NumServers \in Nat /\ Len(servers) = NumServers
          /\ servers' \in Seq(Server) /\ Len(servers') = NumServers - 1
          /\ \A k \in 1 .. NumServers - 1 : servers'[k] = servers[k + 1]
      BY <2>2, Popped
    <3>2. n + 1 \in DOMAIN servers /\ servers'[n] = servers[n + 1]
      <4>1. DOMAIN servers' = 1 .. NumServers - 1 /\ DOMAIN servers = 1 .. NumServers
        BY <3>1 DEF TypeOK
      <4>2. n \in 1 .. NumServers - 1
        BY <4>1
      <4> QED
        BY <3>1, <4>1, <4>2
    <3>3. n + 1 = m
      BY <3>2 DEF Ring
    <3> QED
      BY <3>2, <3>3
  <2>3. ASSUME PushBack, tmp # None PROVE FALSE
    <3>1. /\ NumServers \in Nat /\ Len(servers) = NumServers - 1
          /\ servers' \in Seq(Server) /\ Len(servers') = NumServers /\ servers'[NumServers] = tmp
          /\ \A k \in 1 .. NumServers - 1 : servers'[k] = servers[k]
      BY <2>3, Pushed
    <3>2. tmp.port # p
      BY <2>3 DEF Ring
    <3>3. n \in DOMAIN servers /\ servers'[n] = servers[n]
      BY SMTT(20), <3>1, <3>2 DEF TypeOK
    <3>4. n = m
      BY <3>3 DEF Ring
    <3> QED
      BY <3>3, <3>4
  <2>4. ASSUME StoreMark PROVE shifted \/ (p = port /\ servers'[n].running = ret)
    <3>1. /\ cpc = "mark" /\ NumServers \in Nat /\ Len(servers) = NumServers /\ i \in Nat
          /\ servers' \in Seq(Server) /\ Len(servers') = NumServers
          /\ servers'[i + 1].running = ret
          /\ \A k \in 1 .. NumServers : servers'[k].port = servers[k].port
          /\ \A k \in 1 .. NumServers : k # i + 1 => servers'[k] = servers[k]
      BY <2>4, Stored
    <3>2. n \in DOMAIN servers /\ n \in 1 .. NumServers
      BY <3>1 DEF TypeOK
    <3>3. n = m
      BY <3>1, <3>2 DEF Ring
    <3>4. n = i + 1
      BY <3>1, <3>2, <3>3
    <3> QED
      BY <3>1, <3>3, <3>4 DEF Probing
  <2>5. CASE Main
    <3>1. CASE SkipFront \/ MoveFront
      BY <2>2, <3>1 DEF SkipFront, MoveFront, Search
    <3>2. CASE SkipBack \/ EndMove
      BY <2>3, <3>2 DEF SkipBack, EndMove, MoveBack, Search
    <3>3. CASE LockScan \/ FoundFront \/ ReadFront \/ Reply
      BY <2>1, <3>3 DEF LockScan, FoundFront, ReadFront, Reply
    <3> QED
      BY <2>5, <3>1, <3>2, <3>3 DEF Main
  <2>6. CASE Checker
    <3>1. CASE ForEach \/ ReadPlace \/ Connect \/ TakeLock
      BY <2>1, <3>1 DEF ForEach, ReadPlace, Connect, TakeLock
    <3> QED
      BY <2>4, <2>6, <3>1 DEF Checker
  <2>7. CASE Accept \/ CheckerDies \/ (\E q \in Ports : StopServer(q) \/ StartServer(q)) \/ UNCHANGED vars
    BY <2>1, <2>7 DEF Accept, CheckerDies, StopServer, StartServer, vars
  <2> QED
    BY <2>5, <2>6, <2>7 DEF Next
<1> QED
  BY <1>1, BalanceInvariance, PTL DEF Spec, MarksTheProbed
=============================================================================
