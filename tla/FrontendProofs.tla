---------------------------- MODULE FrontendProofs ----------------------------
(***************************************************************************)
(* Proofs about the threads of a front end (module Frontend), for any      *)
(* number of users, connections and threads: whose Storage a request works *)
(* on, which Storages are alive, and where a reply goes.                   *)
(***************************************************************************)
EXTENDS Frontend, FiniteSetTheorems, SequenceTheorems, WellFoundedInduction, TLAPS

Pending  == {"insert", "register", "session", "session2", "insert2"}
Unlisted == Pending \ {"session"}     \* the Storage of the thread is in no table yet
Serving  == Handling \cup {"begin"}

(* Who has which descriptor.                                               *)
Descriptors ==
  /\ \A f, g \in Fds : fds[f] # None /\ fds[f] = fds[g] => f = g
  /\ \A f \in Fds : fds[f] # None => pc[fds[f]] # "none" /\ from[fds[f]] \in Users
  /\ \A t \in Conns : pc[t] = "new" => client_fd # None
  /\ \A t \in Conns : my[t] # None <=> pc[t] \in Serving \cup {"reading", "close"}

(* What a thread has read decides where it goes.                           *)
Requests ==
  \A t \in Conns :
    /\ pc[t] \in Serving => req[t] \in Request
    /\ pc[t] \in Handling \ {"reply", "delete", "erase"} => Kind(t) # "logout"
    /\ pc[t] \in {"delete", "erase"} => Kind(t) = "logout"

(* A new Storage belongs to its thread until all_storages.insert, and is   *)
(* inserted once.                                                          *)
Storing ==
  /\ \A t \in Conns : pc[t] \in Unlisted =>
       /\ obj[t] \in Storages \ freed
       /\ \A u \in Users : all_storages[u] # obj[t]
       /\ \A d \in Conns : pc[d] \in Unlisted /\ obj[d] = obj[t] => d = t
  /\ \A u, v \in Users : all_storages[u] # None /\ all_storages[u] = all_storages[v] => u = v
  /\ \A t \in Conns : pc[t] \in Pending => username # None
  /\ \A t \in Conns : pc[t] = "using" => obj[t] # None

BaseInv == TypeOK /\ Descriptors /\ Requests /\ Storing

(* A log-out is alone from its first step to its last, so that the name    *)
(* whose Storage it deletes is the name whose entry it erases.             *)
Alone ==
  ~crossed =>
    /\ \A t, d \in Conns : t # d /\ pc[t] \in Handling /\ pc[d] \in Handling => Kind(t) # "logout"
    /\ \A t \in Conns : pc[t] = "using" =>
         obj[t] \notin freed /\ \E u \in Users : all_storages[u] = obj[t]
    /\ \A u \in Users : all_storages[u] \in freed => u = username /\ \E t \in Conns : pc[t] = "erase"

(* Each thread has the descriptor of the connection it was started for.    *)
OwnConn ==
  ~overrun =>
    /\ \A t, d \in Conns : pc[t] = "new" /\ pc[d] = "new" => t = d
    /\ \A t \in Conns : pc[t] = "new" => fds[client_fd] = t
    /\ \A t \in Conns : my[t] # None => fds[my[t]] = t
    /\ \A f \in Fds : fds[f] # None => pc[fds[f]] # "done"
    /\ \A t \in Conns : pc[t] \in Serving => req[t].conn = t /\ Browser(t) = from[t]
    /\ astray = {}

(* The name that a request uses is that of its browser, and so are the     *)
(* cookies and the owners of the Storages.                                 *)
OwnName ==
  ~mixed /\ ~overrun =>
    /\ username = setter
    /\ \A b \in Users : cookie[b] \in {b, None}
    /\ \A t \in Conns : pc[t] \in Serving => Cookie(t) \in {Browser(t), None}
    /\ \A t \in Conns : pc[t] \in Unlisted \cup {"using"} => owner[obj[t]] = Browser(t)
    /\ \A u \in Users : all_storages[u] # None => owner[all_storages[u]] = u

(* A browser has a cookie, and a name has a Storage, only after the user   *)
(* has registered.                                                         *)
KnownUsers ==
  /\ \A u \in Users : all_storages[u] # None \/ cookie[u] # None => u \in registered
  /\ \A t \in Conns : pc[t] \in Serving /\ Cookie(t) # None => Browser(t) \in registered

(* A sign-up that has yet to insert its Storage is the user's first        *)
(* request with an account, unless a sign-in has inserted one.             *)
SigningUp ==
  \A t \in Conns : pc[t] \in {"session2", "insert2"} =>
    /\ Browser(t) \in registered
    /\ \/ all_storages[Browser(t)] # None
       \/ /\ cookie[Browser(t)] = None
          /\ \A d \in Conns : pc[d] \in Serving /\ Browser(d) = Browser(t) => Cookie(d) = None

(* The threads that are about to open a session for their user, or that    *)
(* have found one, find a Storage too.                                     *)
Finds(t) == \/ pc[t] \in {"session", "using", "welcome"}
            \/ pc[t] = "use" /\ Kind(t) = "page"
HasStorage == \A t \in Conns : Finds(t) => all_storages[Browser(t)] # None

SessionStorage ==
  /\ \A t \in Conns : pc[t] \in Handling /\ Kind(t) = "logout" => username \notin sessions
  /\ \A u \in sessions :
       all_storages[u] # None \/ \E t \in Conns : pc[t] = "insert2" /\ Browser(t) = u

Signed == ~mixed /\ ~overrun /\ ~crossed =>
            KnownUsers /\ SigningUp /\ HasStorage /\ SessionStorage /\ ended # "page"

FrontInv == BaseInv /\ Alone /\ OwnConn /\ OwnName /\ Signed

-----------------------------------------------------------------------------
LEMMA InitFront == Init => FrontInv
<1> SUFFICES ASSUME Init PROVE FrontInv
  OBVIOUS
<1> DEFINE n == Cardinality(sessions)
<1>1. IsFiniteSet(sessions) /\ n \in Nat /\ sessions \subseteq Users /\ registered \subseteq Users
  <2>1. sessions \subseteq Users /\ registered \subseteq Users
    BY DEF Init
  <2> QED
    BY <2>1, FS_Subset, FS_CardinalityType, FrontendAssumption
<1>2. owner \in [1 .. n -> sessions] /\ \A u \in sessions : \E m \in 1 .. n : owner[m] = u
  BY DEF Init
<1>3. owner \in Seq(Users) /\ Len(owner) = n /\ DOMAIN owner = 1 .. n
  BY <1>1, <1>2
<1>4. \A u \in Users : u \in sessions => all_storages[u] \in 1 .. n /\ owner[all_storages[u]] = u
  BY <1>2, <1>3 DEF Init
<1>5. \A u \in Users : u \notin sessions => all_storages[u] = None
  BY DEF Init
<1> HIDE DEF n
<1>6. all_storages \in [Users -> Storages \cup {None}]
  BY <1>3, <1>4, <1>5 DEF Init, Storages
<1>7. username \in Users \cup {None}
  <2>1. owner # <<>> => Len(owner) \in 1 .. n
    BY <1>1, <1>3, EmptySeq
  <2> QED
    BY <1>1, <1>2, <2>1 DEF Init
<1>8. TypeOK
  BY <1>1, <1>3, <1>6, <1>7 DEF Init, TypeOK, Storages
<1>9. None \notin 1 .. n
  BY <1>1, FrontendAssumption
<1>10. Descriptors /\ Requests
  BY DEF Init, Descriptors, Requests, Serving, Handling
<1>11. Storing
  BY <1>4, <1>5 DEF Init, Storing, Unlisted, Pending
<1>12. Alone /\ OwnConn
  BY DEF Init, Alone, OwnConn, Handling, Serving
<1>13. OwnName
  BY <1>4, <1>5 DEF Init, OwnName, Serving, Handling, Unlisted, Pending
<1>14. Signed
  <2>1. sessions \subseteq registered /\ ended # "page"
    BY FrontendAssumption DEF Init, Kinds
  <2>2. \A u \in sessions : all_storages[u] # None
    BY <1>1, <1>4, <1>9
  <2>3. \A t \in Conns : pc[t] = "none"
    BY DEF Init
  <2>4. \A u \in Users : all_storages[u] # None \/ cookie[u] # None => u \in registered
    BY <1>5, <2>1 DEF Init
  <2> QED
    BY <2>1, <2>2, <2>3, <2>4
       DEF Signed, KnownUsers, SigningUp, HasStorage, Finds, SessionStorage, Serving, Handling
<1> QED
  BY <1>8, <1>10, <1>11, <1>12, <1>13, <1>14 DEF FrontInv, BaseInv

-----------------------------------------------------------------------------
\* Every set of numbers has a least one.
LEMMA LeastNumber ==
  ASSUME NEW T, T \subseteq Nat, T # {}
  PROVE  \E x \in T : \A y \in T : x <= y
<1> DEFINE R == {ss \in Nat \X Nat : ss[1] < ss[2]}
<1>1. R = OpToRel(<, Nat)
  BY DEF OpToRel
<1>2. IsWellFoundedOn(R, Nat)
  BY <1>1, NatLessThanWellFounded
<1>3. PICK x \in T : \A y \in T : <<y, x>> \notin R
  <2> HIDE DEF R
  <2> QED
    BY <1>2, WFMin
<1>4. ASSUME NEW y \in T PROVE x <= y
  <2>1. x \in Nat /\ y \in Nat
    OBVIOUS
  <2>2. y < x => <<y, x>> \in R
    BY <2>1
  <2> QED
    BY <1>3, <2>1, <2>2
<1> QED
  BY <1>4

\* There is a descriptor for a connection that has not been accepted.
LEMMA FreeDescriptor ==
  ASSUME TypeOK, Descriptors, NEW c \in Conns, pc[c] = "none"
  PROVE  LowestFree \in Fds /\ fds[LowestFree] = None
<1> DEFINE F == {f \in Fds : fds[f] = None}
<1>1. F # {}
  <2>1. SUFFICES ASSUME F = {} PROVE FALSE
    OBVIOUS
  <2> DEFINE T == Conns \ {c}
  <2>2. IsFiniteSet(Fds) /\ Cardinality(Fds) = MaxRequests
    BY FS_Interval, FrontendAssumption DEF Fds
  <2>3. IsFiniteSet(T) /\ Cardinality(T) = MaxRequests - 1
    BY <2>2, FS_RemoveElement DEF Fds, Conns
  <2>4. fds \in [Fds -> T]
    BY <2>1 DEF TypeOK, Descriptors
  <2> HIDE DEF T
  <2>5. Cardinality(T) < Cardinality(Fds)
    BY <2>2, <2>3, FrontendAssumption
  <2>6. \E f, g \in Fds : f # g /\ fds[f] = fds[g]
    BY <2>2, <2>3, <2>4, <2>5, FS_PigeonHole
  <2> QED
    BY <2>1, <2>6 DEF Descriptors
<1>2. \E f \in F : \A g \in F : f <= g
  <2>1. F \subseteq Nat
    BY FrontendAssumption DEF Fds
  <2> QED
    BY <1>1, <2>1, LeastNumber
<1> QED
  BY <1>2 DEF LowestFree

-----------------------------------------------------------------------------
(* The handlers.                                                           *)

\* What a handler does with its connection: nothing but reply.
LEMMA HandlerConn ==
  ASSUME FrontInv, NEW t \in Conns, pc[t] \in Serving, NEW p \in Handling \cup {"close"},
         pc' = [pc EXCEPT ![t] = p], UNCHANGED connVars,
         ~overrun => astray' = astray,
         p \in Handling \ {"reply", "delete", "erase"} => Kind(t) # "logout",
         p \in {"delete", "erase"} => Kind(t) = "logout"
  PROVE  Descriptors' /\ Requests' /\ OwnConn'
<1> USE DEF FrontInv, BaseInv
<1>1. /\ UNCHANGED <<fds, client_fd, from, my, req, overrun>>
      /\ pc'[t] = p /\ \A d \in Conns \ {t} : pc'[d] = pc[d]
  BY DEF connVars, TypeOK
<1>2. Descriptors'
  BY <1>1 DEF Descriptors, Serving, Handling
<1>3. Requests'
  BY <1>1 DEF Requests, Serving, Handling, Kind
<1>4. OwnConn'
  BY <1>1 DEF OwnConn, Serving, Handling, Browser
<1> QED
  BY <1>2, <1>3, <1>4

\* The types of the variables that a handler may change.
SessionType ==
  /\ obj \in [Conns -> Storages \cup {None}]
  /\ username \in Users \cup {None} /\ setter \in Users \cup {None}
  /\ sessions \subseteq Users /\ registered \subseteq Users
  /\ all_storages \in [Users -> Storages \cup {None}]
  /\ owner \in Seq(Users) /\ freed \subseteq Storages
  /\ cookie \in [Users -> Users \cup {None}] /\ astray \subseteq Conns \X Conns
  /\ ended \in Kinds \cup {None} /\ {mixed, crossed} \subseteq BOOLEAN

LEMMA HandlerType ==
  ASSUME TypeOK, NEW t \in Conns, NEW p \in Handling \cup {"close"},
         pc' = [pc EXCEPT ![t] = p], UNCHANGED connVars, SessionType'
  PROVE  TypeOK'
BY DEF TypeOK, SessionType, connVars, Handling

\* A handler that looks at the cookie first.
LEMMA BeginCookie ==
  ASSUME FrontInv, NEW t \in Conns, pc[t] = "begin", Kind(t) # "logout", Crosses(t),
         NEW p \in {"use", "welcome", "reply"}, pc' = [pc EXCEPT ![t] = p],
         \/ p = "reply" /\ UNCHANGED <<username, setter>>
         \/ p \in {"use", "welcome"} /\ LoggedIn(t),
         UNCHANGED <<obj, sessions, all_storages, owner, freed, registered, cookie, astray, ended, mixed>>,
         UNCHANGED connVars
  PROVE  FrontInv'
<1> USE DEF FrontInv, BaseInv
<1>1. /\ pc[t] \in Serving /\ req[t] \in Request
      /\ crossed' = (crossed \/ \E d \in Conns \ {t} : pc[d] \in Handling /\ Kind(d) = "logout")
  BY DEF Crosses, Serving, Requests
<1>2. \/ p = "reply" /\ UNCHANGED <<username, setter>>
      \/ /\ p \in {"use", "welcome"} /\ Cookie(t) \in sessions
         /\ username' = Cookie(t) /\ setter' = Browser(t)
  BY DEF LoggedIn, HasSession, Assign
<1>3. /\ pc'[t] = p /\ \A d \in Conns \ {t} : pc'[d] = pc[d]
      /\ UNCHANGED <<req, overrun>> /\ Browser(t) \in Users
  BY <1>1, <1>2 DEF TypeOK, connVars, Request, Browser
<1>4. Descriptors' /\ Requests' /\ OwnConn'
  BY <1>1, <1>2, HandlerConn DEF Handling
<1>5. TypeOK'
  <2>1. SessionType'
    BY <1>1, <1>2, <1>3 DEF SessionType, TypeOK, Storages
  <2> QED
    BY <1>1, <1>2, <2>1, HandlerType DEF Handling
<1>6. Storing'
  BY <1>1, <1>2, <1>3, FrontendAssumption DEF Storing, Storages, Unlisted, Pending, TypeOK
<1>7. Alone'
  BY <1>1, <1>2, <1>3 DEF Alone, Kind, Handling, Requests
<1>8. OwnName'
  BY <1>1, <1>2, <1>3, FrontendAssumption DEF OwnName, Cookie, Browser, Serving, Handling, Unlisted, Pending, TypeOK
<1>9. Signed'
  <2>1. SUFFICES ASSUME ~mixed', ~overrun', ~crossed'
                 PROVE  KnownUsers' /\ SigningUp' /\ HasStorage' /\ SessionStorage' /\ ended' # "page"
    BY DEF Signed
  <2>2. KnownUsers /\ SigningUp /\ HasStorage /\ SessionStorage /\ ended # "page"
    BY <1>1, <1>3, <2>1 DEF Signed
  <2>3. KnownUsers'
    BY <1>1, <1>2, <1>3, <2>2 DEF KnownUsers, Serving, Handling, Cookie, Browser
  <2>4. SigningUp'
    BY <1>1, <1>2, <1>3, <2>2 DEF SigningUp, Serving, Handling, Cookie, Browser
  <2>5. HasStorage'
    <3>1. p # "reply" => Cookie(t) = Browser(t)
      BY <1>1, <1>2, <1>3, <2>1, FrontendAssumption DEF OwnName, TypeOK
    <3>2. p # "reply" => all_storages[Browser(t)] # None
      BY <1>1, <1>2, <2>2, <3>1, FrontendAssumption DEF SigningUp, SessionStorage, TypeOK
    <3> QED
      BY <1>1, <1>2, <1>3, <2>2, <3>2 DEF HasStorage, Finds, Browser, Kind
  <2>6. SessionStorage'
    <3>1. \A d \in Conns : pc'[d] \in Handling => Kind(d)' # "logout"
      BY <1>1, <1>2, <1>3, <2>1 DEF Kind, Handling
    <3>2. \A u \in sessions :
            all_storages[u] # None \/ \E d \in Conns \ {t} : pc[d] = "insert2" /\ Browser(d) = u
      BY <1>1, <2>2 DEF SessionStorage
    <3>3. \A d \in Conns \ {t} : Browser(d)' = Browser(d) /\ pc'[d] = pc[d]
      BY <1>3 DEF Browser
    <3> QED
      BY <1>1, <3>1, <3>2, <3>3 DEF SessionStorage
  <2> QED
    BY <1>1, <2>2, <2>3, <2>4, <2>5, <2>6
<1> QED
  BY <1>4, <1>5, <1>6, <1>7, <1>8, <1>9

LEMMA BeginPageFront ==
  ASSUME FrontInv, NEW t \in Conns, BeginPage(t)
  PROVE  FrontInv'
<1>1. PICK p \in {"use", "welcome", "reply"} :
        /\ pc' = [pc EXCEPT ![t] = p]
        /\ \/ p = "reply" /\ UNCHANGED <<username, setter>>
           \/ p \in {"use", "welcome"} /\ LoggedIn(t)
  BY DEF BeginPage, Goto
<1>2. /\ pc[t] = "begin" /\ Kind(t) # "logout" /\ Crosses(t) /\ UNCHANGED connVars
      /\ UNCHANGED <<obj, sessions, all_storages, owner, freed, registered, cookie, astray, ended, mixed>>
  BY DEF BeginPage
<1> QED
  BY <1>1, <1>2, BeginCookie

LEMMA BeginActFront ==
  ASSUME FrontInv, NEW t \in Conns, BeginAct(t)
  PROVE  FrontInv'
<1> USE DEF FrontInv, BaseInv
<1>1. /\ pc[t] = "begin" /\ Kind(t) = "act" /\ pc[t] \in Serving /\ pc' = [pc EXCEPT ![t] = "use"]
      /\ crossed' = (crossed \/ \E d \in Conns \ {t} : pc[d] \in Handling /\ Kind(d) = "logout")
      /\ UNCHANGED <<obj, username, setter, sessions, all_storages, owner, freed, registered, cookie,
                     astray, ended, mixed>>
      /\ UNCHANGED connVars
  BY DEF BeginAct, Goto, Crosses, Serving, sessionVars
<1>2. /\ pc'[t] = "use" /\ \A d \in Conns \ {t} : pc'[d] = pc[d]
      /\ UNCHANGED <<req, overrun>>
  BY <1>1 DEF TypeOK, connVars
<1>3. Descriptors' /\ Requests' /\ OwnConn'
  BY <1>1, HandlerConn DEF Handling
<1>4. TypeOK'
  <2>1. SessionType'
    BY <1>1 DEF SessionType, TypeOK, Storages
  <2> QED
    BY <1>1, <2>1, HandlerType DEF Handling
<1>5. Storing'
  BY <1>1, <1>2 DEF Storing, Storages, Unlisted, Pending
<1>6. Alone'
  BY <1>1, <1>2 DEF Alone, Kind, Handling, Requests
<1>7. OwnName'
  BY <1>1, <1>2 DEF OwnName, Cookie, Browser, Serving, Handling, Unlisted, Pending
<1>8. Signed'
  <2>1. SUFFICES ASSUME ~mixed', ~overrun', ~crossed'
                 PROVE  KnownUsers' /\ SigningUp' /\ HasStorage' /\ SessionStorage' /\ ended' # "page"
    BY DEF Signed
  <2>2. KnownUsers /\ SigningUp /\ HasStorage /\ SessionStorage /\ ended # "page"
    BY <1>1, <1>2, <2>1 DEF Signed
  <2>3. KnownUsers' /\ SigningUp'
    BY <1>1, <1>2, <2>2 DEF KnownUsers, SigningUp, Serving, Handling, Cookie, Browser
  <2>4. HasStorage'
    BY <1>1, <1>2, <2>2 DEF HasStorage, Finds, Browser, Kind
  <2>5. SessionStorage'
    BY <1>1, <1>2, <2>2 DEF SessionStorage, Browser, Kind, Handling
  <2> QED
    BY <1>1, <2>2, <2>3, <2>4, <2>5
<1> QED
  BY <1>3, <1>4, <1>5, <1>6, <1>7, <1>8

\* A sign-in or sign-up that creates a Storage.
LEMMA BeginNew ==
  ASSUME FrontInv, NEW t \in Conns, pc[t] = "begin", Kind(t) # "logout", NewStorage(t), Crosses(t),
         NEW p \in {"insert", "register"}, pc' = [pc EXCEPT ![t] = p],
         UNCHANGED <<sessions, all_storages, freed, registered, cookie, astray, ended, mixed>>,
         UNCHANGED connVars
  PROVE  FrontInv'
<1> USE DEF FrontInv, BaseInv
<1> DEFINE n == Len(owner) + 1
<1>1. /\ pc[t] \in Serving /\ req[t] \in Request
      /\ crossed' = (crossed \/ \E d \in Conns \ {t} : pc[d] \in Handling /\ Kind(d) = "logout")
      /\ username' = Browser(t) /\ setter' = Browser(t)
  BY DEF Crosses, Serving, Requests, NewStorage, Assign
<1>2. /\ pc'[t] = p /\ \A d \in Conns \ {t} : pc'[d] = pc[d]
      /\ UNCHANGED <<req, overrun>> /\ Browser(t) \in Users
  BY <1>1 DEF TypeOK, connVars, Request, Browser
<1>3. /\ owner \in Seq(Users) /\ Len(owner) \in Nat /\ owner' \in Seq(Users) /\ Len(owner') = n
      /\ owner'[n] = Browser(t) /\ \A s \in 1 .. Len(owner) : owner'[s] = owner[s]
      /\ obj' = [obj EXCEPT ![t] = n]
  BY <1>2 DEF TypeOK, NewStorage
<1>4. Storages \subseteq Storages' /\ n \in Storages' /\ n \notin Storages
  BY <1>3 DEF Storages
<1>5. n # None
  BY <1>3, FrontendAssumption
<1> HIDE DEF n
<1>6. obj'[t] = n /\ \A d \in Conns \ {t} : obj'[d] = obj[d]
  BY <1>3 DEF TypeOK
<1>7. Descriptors' /\ Requests' /\ OwnConn'
  BY <1>1, HandlerConn DEF Handling
<1>8. TypeOK'
  <2>1. SessionType'
    BY <1>1, <1>2, <1>3, <1>4 DEF SessionType, TypeOK
  <2> QED
    BY <1>1, <2>1, HandlerType DEF Handling
<1>9. Storing'
  <2>1. freed \subseteq Storages /\ \A u \in Users : all_storages[u] # n
    BY <1>4, <1>5 DEF TypeOK
  <2>2. \A d \in Conns \ {t} : obj[d] # n
    BY <1>4, <1>5 DEF TypeOK
  <2>3. username' # None
    BY <1>1, <1>2, FrontendAssumption
  <2> QED
    BY <1>1, <1>2, <1>4, <1>6, <2>1, <2>2, <2>3 DEF Storing, Unlisted, Pending
<1>10. Alone'
  <2>1. SUFFICES ASSUME ~crossed'
                 PROVE  Alone'
    BY DEF Alone
  <2>2. ~crossed /\ \A d \in Conns \ {t} : ~(pc[d] \in Handling /\ Kind(d) = "logout")
    BY <1>1, <2>1
  <2>3. \A d \in Conns : Kind(d)' = Kind(d) /\ (pc'[d] = "using" => pc[d] = "using" /\ obj'[d] = obj[d])
    BY <1>2, <1>6 DEF Kind
  <2>4. \A d, e \in Conns : d # e /\ pc'[d] \in Handling /\ pc'[e] \in Handling => Kind(d)' # "logout"
    BY <1>2, <2>2, <2>3
  <2>5. \A d \in Conns : pc'[d] = "using" =>
          obj'[d] \notin freed' /\ \E u \in Users : all_storages'[u] = obj'[d]
    BY <2>2, <2>3 DEF Alone
  <2>6. ASSUME NEW u \in Users, all_storages'[u] \in freed'
        PROVE  FALSE
    <3>1. PICK d \in Conns : pc[d] = "erase"
      BY <2>2, <2>6 DEF Alone
    <3>2. d # t /\ pc[d] \in Handling /\ Kind(d) = "logout"
      BY <3>1 DEF Requests, Handling
    <3> QED
      BY <2>2, <3>2
  <2> QED
    BY <2>4, <2>5, <2>6 DEF Alone
<1>11. OwnName'
  <2>1. SUFFICES ASSUME ~mixed', ~overrun'
                 PROVE  OwnName'
    BY DEF OwnName
  <2>2. \A u \in Users : all_storages[u] # None => owner'[all_storages[u]] = u
    BY <1>2, <1>3, <2>1 DEF OwnName, TypeOK, Storages
  <2>3. ASSUME NEW d \in Conns, pc'[d] \in Unlisted \cup {"using"} PROVE owner'[obj'[d]] = Browser(d)'
    <3>1. CASE d = t
      BY <1>2, <1>3, <1>6, <3>1 DEF Browser
    <3>2. CASE d # t
      <4>1. obj[d] # None => obj[d] \in Storages
        BY DEF TypeOK
      <4>2. pc[d] \in Unlisted \cup {"using"} /\ owner[obj[d]] = Browser(d)
        BY <1>2, <2>1, <2>3, <3>2 DEF OwnName
      <4>3. obj[d] # None
        BY <4>2, FrontendAssumption DEF Storing, TypeOK, Storages
      <4> QED
        BY <1>2, <1>3, <1>6, <3>2, <4>1, <4>2, <4>3 DEF Browser, Storages
    <3> QED
      BY <3>1, <3>2
  <2> QED
    BY <1>1, <1>2, <2>1, <2>2, <2>3 DEF OwnName, Cookie, Browser, Serving, Handling
<1>12. Signed'
  <2>1. SUFFICES ASSUME ~mixed', ~overrun', ~crossed'
                 PROVE  KnownUsers' /\ SigningUp' /\ HasStorage' /\ SessionStorage' /\ ended' # "page"
    BY DEF Signed
  <2>2. KnownUsers /\ SigningUp /\ HasStorage /\ SessionStorage /\ ended # "page"
    BY <1>1, <1>2, <2>1 DEF Signed
  <2>3. KnownUsers' /\ SigningUp'
    BY <1>1, <1>2, <2>2 DEF KnownUsers, SigningUp, Serving, Handling, Cookie, Browser
  <2>4. HasStorage'
    BY <1>1, <1>2, <2>2 DEF HasStorage, Finds, Browser, Kind
  <2>5. \A d \in Conns : pc'[d] \in Handling => Kind(d)' # "logout"
    BY <1>1, <1>2, <2>1 DEF Kind, Handling
  <2>6. \A u \in sessions :
          all_storages[u] # None \/ \E d \in Conns \ {t} : pc[d] = "insert2" /\ Browser(d) = u
    BY <1>1, <2>2 DEF SessionStorage
  <2>7. \A d \in Conns \ {t} : Browser(d)' = Browser(d) /\ pc'[d] = pc[d]
    BY <1>2 DEF Browser
  <2>8. SessionStorage'
    BY <1>1, <2>5, <2>6, <2>7 DEF SessionStorage
  <2> QED
    BY <1>1, <2>2, <2>3, <2>4, <2>8
<1> QED
  BY <1>7, <1>8, <1>9, <1>10, <1>11, <1>12

LEMMA BeginSigninFront ==
  ASSUME FrontInv, NEW t \in Conns, BeginSignin(t)
  PROVE  FrontInv'
<1>1. /\ pc[t] = "begin" /\ Kind(t) # "logout" /\ Crosses(t) /\ UNCHANGED connVars
      /\ UNCHANGED <<sessions, all_storages, freed, registered, cookie, astray, ended, mixed>>
  BY DEF BeginSignin
<1>2. CASE LoggedIn(t) /\ Goto(t, "welcome") /\ UNCHANGED <<owner, obj>>
  BY <1>1, <1>2, BeginCookie DEF Goto
<1>3. CASE NewStorage(t) /\ Goto(t, "insert")
  BY <1>1, <1>3, BeginNew DEF Goto
<1> QED
  BY <1>2, <1>3 DEF BeginSignin

LEMMA BeginSignupFront ==
  ASSUME FrontInv, NEW t \in Conns, BeginSignup(t)
  PROVE  FrontInv'
<1>1. /\ pc[t] = "begin" /\ Kind(t) # "logout" /\ Crosses(t) /\ NewStorage(t) /\ Goto(t, "register")
      /\ UNCHANGED <<sessions, all_storages, freed, registered, cookie, astray, ended, mixed>>
      /\ UNCHANGED connVars
  BY DEF BeginSignup
<1> QED
  BY <1>1, BeginNew DEF Goto

LEMMA BeginLogoutFront ==
  ASSUME FrontInv, NEW t \in Conns, BeginLogout(t)
  PROVE  FrontInv'
<1> USE DEF FrontInv, BaseInv
<1>1. /\ pc[t] = "begin" /\ Kind(t) = "logout" /\ pc[t] \in Serving /\ pc' = [pc EXCEPT ![t] = "reply"]
      /\ crossed' = (crossed \/ \E d \in Conns \ {t} : pc[d] \in Handling)
      /\ mixed' = (mixed \/ setter # Browser(t)) /\ sessions' = sessions \ {username}
      /\ UNCHANGED <<obj, username, setter, all_storages, owner, freed, registered, cookie, astray, ended>>
      /\ UNCHANGED connVars
  BY DEF BeginLogout, Goto, Crosses, UsesName, Serving
<1>2. /\ pc'[t] = "reply" /\ \A d \in Conns \ {t} : pc'[d] = pc[d]
      /\ UNCHANGED <<req, overrun>>
  BY <1>1 DEF TypeOK, connVars
<1>3. Descriptors' /\ Requests' /\ OwnConn'
  BY <1>1, HandlerConn DEF Handling
<1>4. TypeOK'
  <2>1. SessionType'
    BY <1>1 DEF SessionType, TypeOK, Storages
  <2> QED
    BY <1>1, <2>1, HandlerType DEF Handling
<1>5. Storing'
  BY <1>1, <1>2 DEF Storing, Storages, Unlisted, Pending
<1>6. Alone'
  <2>1. SUFFICES ASSUME ~crossed'
                 PROVE  Alone'
    BY DEF Alone
  <2>2. \A d \in Conns \ {t} : pc'[d] \notin Handling
    BY <1>1, <1>2, <2>1
  <2>3. \A d \in Conns : pc[d] # "erase" /\ pc'[d] # "using"
    BY <1>1, <1>2, <2>2 DEF Handling
  <2> QED
    BY <1>1, <1>2, <2>1, <2>2, <2>3 DEF Alone
<1>7. OwnName'
  BY <1>1, <1>2 DEF OwnName, Cookie, Browser, Serving, Handling, Unlisted, Pending
<1>8. Signed'
  <2>1. SUFFICES ASSUME ~mixed', ~overrun', ~crossed'
                 PROVE  KnownUsers' /\ SigningUp' /\ HasStorage' /\ SessionStorage' /\ ended' # "page"
    BY DEF Signed
  <2>2. KnownUsers /\ SigningUp /\ HasStorage /\ SessionStorage /\ ended # "page"
    BY <1>1, <1>2, <2>1 DEF Signed
  <2>3. KnownUsers' /\ SigningUp'
    BY <1>1, <1>2, <2>2 DEF KnownUsers, SigningUp, Serving, Handling, Cookie, Browser
  <2>4. HasStorage'
    BY <1>1, <1>2, <2>2 DEF HasStorage, Finds, Browser, Kind
  <2>5. SessionStorage'
    BY <1>1, <1>2, <2>2 DEF SessionStorage, Browser, Kind, Handling
  <2> QED
    BY <1>1, <2>2, <2>3, <2>4, <2>5
<1> QED
  BY <1>3, <1>4, <1>5, <1>6, <1>7, <1>8

\* What a step that inserts a Storage does to the table.
LEMMA Inserted ==
  ASSUME FrontInv, NEW t \in Conns, pc[t] \in {"insert", "insert2"}, Insert(t)
  PROVE  /\ username \in Users /\ obj[t] \in Storages \ freed /\ obj[t] # None
         /\ all_storages' \in [Users -> Storages \cup {None}] /\ all_storages'[username] # None
         /\ \A u \in Users : all_storages[u] # None => all_storages'[u] = all_storages[u]
         /\ \A u \in Users : all_storages'[u] # all_storages[u] => u = username /\ all_storages'[u] = obj[t]
<1>1. username \in Users /\ obj[t] \in Storages \ freed
  BY DEF FrontInv, BaseInv, TypeOK, Storing, Unlisted, Pending
<1>2. obj[t] # None
  BY <1>1, FrontendAssumption DEF Storages
<1>3. all_storages \in [Users -> Storages \cup {None}]
  BY DEF FrontInv, BaseInv, TypeOK
<1>4. CASE all_storages[username] = None
  BY <1>1, <1>2, <1>3, <1>4 DEF Insert
<1>5. CASE all_storages[username] # None
  BY <1>1, <1>2, <1>3, <1>5 DEF Insert
<1> QED
  BY <1>4, <1>5

LEMMA SigninInsertFront ==
  ASSUME FrontInv, NEW t \in Conns, SigninInsert(t)
  PROVE  FrontInv'
<1> USE DEF FrontInv, BaseInv
<1>1. /\ pc[t] = "insert" /\ pc[t] \in Serving /\ pc[t] \in Handling /\ mixed' = (mixed \/ setter # Browser(t))
      /\ UNCHANGED <<obj, username, setter, sessions, owner, freed, registered, cookie, astray, ended, crossed>>
      /\ UNCHANGED connVars
  BY DEF SigninInsert, UsesName, Serving, Handling
<1>2. PICK p \in {"session", "reply"} :
        /\ pc' = [pc EXCEPT ![t] = p]
        /\ p = "session" => Browser(t) \in registered /\ Insert(t)
        /\ p = "reply" => UNCHANGED all_storages
  BY DEF SigninInsert, Goto
<1>3. /\ pc'[t] = p /\ \A d \in Conns \ {t} : pc'[d] = pc[d]
      /\ UNCHANGED <<req, overrun>>
  BY <1>1, <1>2 DEF TypeOK, connVars
<1>4. /\ username \in Users /\ obj[t] \in Storages \ freed /\ obj[t] # None
      /\ all_storages' \in [Users -> Storages \cup {None}]
      /\ p = "session" => all_storages'[username] # None
      /\ \A u \in Users : all_storages[u] # None => all_storages'[u] = all_storages[u]
      /\ \A u \in Users : all_storages'[u] # all_storages[u] =>
           p = "session" /\ u = username /\ all_storages'[u] = obj[t]
  <2>1. CASE p = "session"
    BY <1>1, <1>2, <2>1, Inserted
  <2>2. CASE p = "reply"
    BY <1>1, <1>2, <2>2, FrontendAssumption DEF Storing, Unlisted, Pending, TypeOK, Storages
  <2> QED
    BY <2>1, <2>2
<1>5. Descriptors' /\ Requests' /\ OwnConn'
  BY <1>1, <1>2, HandlerConn DEF Handling, Requests
<1>6. TypeOK'
  <2>1. SessionType'
    BY <1>1, <1>4 DEF SessionType, TypeOK, Storages
  <2> QED
    BY <1>1, <1>2, <2>1, HandlerType DEF Handling
<1>7. Storing'
  <2>1. \A u \in Users : all_storages[u] # obj[t]
    BY <1>1 DEF Storing, Unlisted, Pending
  <2> QED
    BY <1>1, <1>3, <1>4, <2>1 DEF Storing, Storages, Unlisted, Pending
<1>8. Alone'
  <2>1. SUFFICES ASSUME ~crossed'
                 PROVE  Alone'
    BY DEF Alone
  <2>2. \A d, e \in Conns : d # e /\ pc'[d] \in Handling /\ pc'[e] \in Handling => Kind(d)' # "logout"
    BY <1>1, <1>3, <2>1 DEF Alone, Kind
  <2>3. ASSUME NEW d \in Conns, pc'[d] = "using"
        PROVE  obj'[d] \notin freed' /\ \E u \in Users : all_storages'[u] = obj'[d]
    <3>1. pc[d] = "using" /\ obj[d] # None
      BY <1>3, <2>3 DEF Storing
    <3> QED
      BY <1>1, <1>4, <2>1, <3>1 DEF Alone
  <2>4. ASSUME NEW u \in Users, all_storages'[u] \in freed'
        PROVE  u = username' /\ \E d \in Conns : pc'[d] = "erase"
    <3>1. all_storages'[u] = all_storages[u]
      BY <1>1, <1>4, <2>4
    <3>2. u = username /\ \E d \in Conns \ {t} : pc[d] = "erase"
      BY <1>1, <2>1, <2>4, <3>1 DEF Alone
    <3> QED
      BY <1>1, <1>3, <3>2
  <2> QED
    BY <2>2, <2>3, <2>4 DEF Alone
<1>9. OwnName'
  BY <1>1, <1>3, <1>4 DEF OwnName, Cookie, Browser, Serving, Handling, Unlisted, Pending
<1>10. Signed'
  <2>1. SUFFICES ASSUME ~mixed', ~overrun', ~crossed'
                 PROVE  KnownUsers' /\ SigningUp' /\ HasStorage' /\ SessionStorage' /\ ended' # "page"
    BY DEF Signed
  <2>2. KnownUsers /\ SigningUp /\ HasStorage /\ SessionStorage /\ ended # "page"
    BY <1>1, <1>3, <2>1 DEF Signed
  <2>3. username = Browser(t)
    BY <1>1, <1>3, <2>1 DEF OwnName
  <2>4. KnownUsers'
    BY <1>1, <1>2, <1>3, <1>4, <2>2, <2>3 DEF KnownUsers, Serving, Handling, Cookie, Browser
  <2>5. \A d \in Conns : pc[d] \in Serving => Browser(d) \in Users
    BY DEF Requests, Request, Browser
  <2>6. SigningUp'
    BY <1>1, <1>2, <1>3, <1>4, <2>2, <2>5 DEF SigningUp, Serving, Handling, Cookie, Browser
  <2>7. HasStorage'
    BY <1>1, <1>2, <1>3, <1>4, <2>2, <2>3, <2>5 DEF HasStorage, Finds, Browser, Kind, Serving, Handling
  <2>8. SessionStorage'
    BY <1>1, <1>2, <1>3, <1>4, <2>2 DEF SessionStorage, Browser, Kind, Handling, TypeOK
  <2> QED
    BY <1>1, <2>2, <2>4, <2>6, <2>7, <2>8
<1> QED
  BY <1>5, <1>6, <1>7, <1>8, <1>9, <1>10

LEMMA AddSessionFront ==
  ASSUME FrontInv, NEW t \in Conns, AddSession(t)
  PROVE  FrontInv'
<1> USE DEF FrontInv, BaseInv
<1> DEFINE p == IF pc[t] = "session" THEN "welcome" ELSE "insert2"
<1>1. /\ pc[t] \in {"session", "session2"} /\ pc[t] \in Serving /\ pc[t] \in Handling
      /\ mixed' = (mixed \/ setter # Browser(t)) /\ pc' = [pc EXCEPT ![t] = p]
      /\ sessions' = sessions \cup {username}
      /\ UNCHANGED <<obj, username, setter, all_storages, owner, freed, registered, cookie, astray, ended, crossed>>
      /\ UNCHANGED connVars
  BY DEF AddSession, UsesName, Serving, Handling, Goto
<1>2. /\ (pc[t] = "session" /\ p = "welcome") \/ (pc[t] = "session2" /\ p = "insert2")
      /\ username \in Users
  BY <1>1 DEF Storing, Pending, TypeOK
<1> HIDE DEF p
<1>3. /\ pc'[t] = p /\ \A d \in Conns \ {t} : pc'[d] = pc[d]
      /\ UNCHANGED <<req, overrun>>
  BY <1>1 DEF TypeOK, connVars
<1>4. Descriptors' /\ Requests' /\ OwnConn'
  BY <1>1, <1>2, HandlerConn DEF Handling, Requests
<1>5. TypeOK'
  <2>1. SessionType'
    BY <1>1, <1>2 DEF SessionType, TypeOK, Storages
  <2> QED
    BY <1>1, <1>2, <2>1, HandlerType DEF Handling
<1>6. Storing'
  BY <1>1, <1>2, <1>3 DEF Storing, Storages, Unlisted, Pending
<1>7. Alone'
  BY <1>1, <1>2, <1>3 DEF Alone, Kind, Handling
<1>8. OwnName'
  BY <1>1, <1>2, <1>3 DEF OwnName, Cookie, Browser, Serving, Handling, Unlisted, Pending
<1>9. Signed'
  <2>1. SUFFICES ASSUME ~mixed', ~overrun', ~crossed'
                 PROVE  KnownUsers' /\ SigningUp' /\ HasStorage' /\ SessionStorage' /\ ended' # "page"
    BY DEF Signed
  <2>2. KnownUsers /\ SigningUp /\ HasStorage /\ SessionStorage /\ ended # "page"
    BY <1>1, <1>3, <2>1 DEF Signed
  <2>3. username = Browser(t)
    BY <1>1, <1>3, <2>1 DEF OwnName
  <2>4. KnownUsers' /\ SigningUp'
    BY <1>1, <1>2, <1>3, <2>2 DEF KnownUsers, SigningUp, Serving, Handling, Cookie, Browser
  <2>5. HasStorage'
    BY <1>1, <1>2, <1>3, <2>2 DEF HasStorage, Finds, Browser, Kind
  <2>6. SessionStorage'
    <3>1. \A d \in Conns : pc'[d] \in Handling => Kind(d)' # "logout"
      BY <1>1, <1>2, <1>3, <2>1 DEF Kind, Handling, Alone, Requests
    <3>2. \A u \in sessions : all_storages[u] # None \/ \E d \in Conns : pc'[d] = "insert2" /\ Browser(d)' = u
      BY <1>1, <1>2, <1>3, <2>2 DEF SessionStorage, Browser
    <3>3. all_storages[username] # None \/ \E d \in Conns : pc'[d] = "insert2" /\ Browser(d)' = username
      BY <1>2, <1>3, <2>2, <2>3 DEF HasStorage, Finds, Browser
    <3> QED
      BY <1>1, <3>1, <3>2, <3>3 DEF SessionStorage
  <2> QED
    BY <1>1, <2>2, <2>4, <2>5, <2>6
<1> QED
  BY <1>4, <1>5, <1>6, <1>7, <1>8, <1>9

LEMMA RegisterFront ==
  ASSUME FrontInv, NEW t \in Conns, Register(t)
  PROVE  FrontInv'
<1> USE DEF FrontInv, BaseInv
<1>1. /\ pc[t] = "register" /\ pc[t] \in Serving /\ pc[t] \in Handling
      /\ UNCHANGED <<obj, username, setter, sessions, all_storages, owner, cookie, astray, ended, mixed, crossed>>
      /\ UNCHANGED connVars
  BY DEF Register, Serving, Handling
<1>2. PICK p \in {"session2", "reply"} :
        /\ pc' = [pc EXCEPT ![t] = p]
        /\ p = "session2" => /\ Browser(t) \notin registered /\ registered' = registered \cup {Browser(t)}
                             /\ freed' = freed
        /\ p = "reply" => freed' = freed \cup {obj[t]} /\ registered' = registered
  BY DEF Register, Goto
<1>3. /\ pc'[t] = p /\ \A d \in Conns \ {t} : pc'[d] = pc[d]
      /\ UNCHANGED <<req, overrun>> /\ Browser(t) \in Users
  BY <1>1, <1>2 DEF TypeOK, connVars, Requests, Request, Browser
<1>4. /\ obj[t] \in Storages \ freed
      /\ \A u \in Users : all_storages[u] # obj[t]
      /\ \A d \in Conns \ {t} : pc[d] \in Unlisted => obj[d] # obj[t]
  BY <1>1 DEF Storing, Unlisted, Pending
<1>5. Descriptors' /\ Requests' /\ OwnConn'
  BY <1>1, <1>2, HandlerConn DEF Handling, Requests
<1>6. TypeOK'
  <2>1. SessionType'
    BY <1>1, <1>2, <1>3, <1>4 DEF SessionType, TypeOK, Storages
  <2> QED
    BY <1>1, <1>2, <2>1, HandlerType DEF Handling
<1>7. Storing'
  BY <1>1, <1>2, <1>3, <1>4 DEF Storing, Storages, Unlisted, Pending
<1>8. Alone'
  <2>1. SUFFICES ASSUME ~crossed'
                 PROVE  Alone'
    BY DEF Alone
  <2>2. \A d, e \in Conns : d # e /\ pc'[d] \in Handling /\ pc'[e] \in Handling => Kind(d)' # "logout"
    BY <1>1, <1>3, <2>1 DEF Alone, Kind
  <2>3. \A d \in Conns : pc'[d] = "using" =>
          obj'[d] \notin freed' /\ \E u \in Users : all_storages'[u] = obj'[d]
    BY <1>1, <1>2, <1>3, <1>4, <2>1 DEF Alone
  <2>4. \A u \in Users : all_storages'[u] \in freed' =>
          u = username' /\ \E d \in Conns : pc'[d] = "erase"
    BY <1>1, <1>2, <1>3, <1>4, <2>1 DEF Alone
  <2> QED
    BY <2>2, <2>3, <2>4 DEF Alone
<1>9. OwnName'
  BY <1>1, <1>2, <1>3 DEF OwnName, Cookie, Browser, Serving, Handling, Unlisted, Pending
<1>10. Signed'
  <2>1. SUFFICES ASSUME ~mixed', ~overrun', ~crossed'
                 PROVE  KnownUsers' /\ SigningUp' /\ HasStorage' /\ SessionStorage' /\ ended' # "page"
    BY DEF Signed
  <2>2. KnownUsers /\ SigningUp /\ HasStorage /\ SessionStorage /\ ended # "page"
    BY <1>1, <1>3, <2>1 DEF Signed
  <2>3. \A d \in Conns : pc'[d] \in Serving => pc[d] \in Serving /\ Browser(d)' = Browser(d) /\ Cookie(d)' = Cookie(d)
    BY <1>1, <1>3 DEF Serving, Handling, Cookie, Browser
  <2>4. KnownUsers'
    BY <1>1, <1>2, <2>2, <2>3 DEF KnownUsers
  <2>5. SigningUp'
    <3>1. p = "session2" => /\ cookie[Browser(t)] = None
                            /\ \A d \in Conns : pc[d] \in Serving /\ Browser(d) = Browser(t) => Cookie(d) = None
      BY <1>2, <1>3, <2>2 DEF KnownUsers
    <3>2. \A d \in Conns \ {t} : Browser(d)' = Browser(d)
      BY <1>3 DEF Browser
    <3>3. Browser(t)' = Browser(t)
      BY <1>3 DEF Browser
    <3>4. \A d \in Conns \ {t} : pc'[d] \in {"session2", "insert2"} =>
            /\ Browser(d) \in registered'
            /\ \/ all_storages'[Browser(d)] # None
               \/ /\ cookie'[Browser(d)] = None
                  /\ \A e \in Conns : pc'[e] \in Serving /\ Browser(e)' = Browser(d) => Cookie(e)' = None
      BY <1>1, <1>2, <1>3, <2>2, <2>3 DEF SigningUp
    <3>5. pc'[t] \in {"session2", "insert2"} =>
            /\ Browser(t) \in registered'
            /\ cookie'[Browser(t)] = None
            /\ \A e \in Conns : pc'[e] \in Serving /\ Browser(e)' = Browser(t) => Cookie(e)' = None
      BY <1>1, <1>2, <1>3, <2>3, <3>1
    <3> QED
      BY <3>2, <3>3, <3>4, <3>5 DEF SigningUp
  <2>6. HasStorage'
    BY <1>1, <1>2, <1>3, <2>2 DEF HasStorage, Finds, Browser, Kind
  <2>7. SessionStorage'
    BY <1>1, <1>2, <1>3, <2>2 DEF SessionStorage, Browser, Kind, Handling
  <2> QED
    BY <1>1, <2>2, <2>4, <2>5, <2>6, <2>7
<1> QED
  BY <1>5, <1>6, <1>7, <1>8, <1>9, <1>10

LEMMA SignupInsertFront ==
  ASSUME FrontInv, NEW t \in Conns, SignupInsert(t)
  PROVE  FrontInv'
<1> USE DEF FrontInv, BaseInv
<1>1. /\ pc[t] = "insert2" /\ pc[t] \in Serving /\ pc[t] \in Handling /\ mixed' = (mixed \/ setter # Browser(t))
      /\ Insert(t) /\ pc' = [pc EXCEPT ![t] = "welcome"]
      /\ UNCHANGED <<obj, username, setter, sessions, owner, freed, registered, cookie, astray, ended, crossed>>
      /\ UNCHANGED connVars
  BY DEF SignupInsert, UsesName, Serving, Handling, Goto
<1>2. /\ pc'[t] = "welcome" /\ \A d \in Conns \ {t} : pc'[d] = pc[d]
      /\ UNCHANGED <<req, overrun>>
  BY <1>1 DEF TypeOK, connVars
<1>3. /\ username \in Users /\ obj[t] \in Storages \ freed /\ obj[t] # None
      /\ all_storages' \in [Users -> Storages \cup {None}] /\ all_storages'[username] # None
      /\ \A u \in Users : all_storages[u] # None => all_storages'[u] = all_storages[u]
      /\ \A u \in Users : all_storages'[u] # all_storages[u] => u = username /\ all_storages'[u] = obj[t]
  BY <1>1, Inserted
<1>4. Descriptors' /\ Requests' /\ OwnConn'
  BY <1>1, HandlerConn DEF Handling, Requests
<1>5. TypeOK'
  <2>1. SessionType'
    BY <1>1, <1>3 DEF SessionType, TypeOK, Storages
  <2> QED
    BY <1>1, <2>1, HandlerType DEF Handling
<1>6. Storing'
  <2>1. \A u \in Users : all_storages[u] # obj[t]
    BY <1>1 DEF Storing, Unlisted, Pending
  <2> QED
    BY <1>1, <1>2, <1>3, <2>1 DEF Storing, Storages, Unlisted, Pending
<1>7. Alone'
  <2>1. SUFFICES ASSUME ~crossed'
                 PROVE  Alone'
    BY DEF Alone
  <2>2. \A d, e \in Conns : d # e /\ pc'[d] \in Handling /\ pc'[e] \in Handling => Kind(d)' # "logout"
    BY <1>1, <1>2, <2>1 DEF Alone, Kind
  <2>3. ASSUME NEW d \in Conns, pc'[d] = "using"
        PROVE  obj'[d] \notin freed' /\ \E u \in Users : all_storages'[u] = obj'[d]
    <3>1. pc[d] = "using" /\ obj[d] # None
      BY <1>2, <2>3 DEF Storing
    <3> QED
      BY <1>1, <1>3, <2>1, <3>1 DEF Alone
  <2>4. ASSUME NEW u \in Users, all_storages'[u] \in freed'
        PROVE  u = username' /\ \E d \in Conns : pc'[d] = "erase"
    <3>1. all_storages'[u] = all_storages[u]
      BY <1>1, <1>3, <2>4
    <3>2. u = username /\ \E d \in Conns \ {t} : pc[d] = "erase"
      BY <1>1, <2>1, <2>4, <3>1 DEF Alone
    <3> QED
      BY <1>1, <1>2, <3>2
  <2> QED
    BY <2>2, <2>3, <2>4 DEF Alone
<1>8. OwnName'
  <2>1. SUFFICES ASSUME ~mixed', ~overrun'
                 PROVE  OwnName'
    BY DEF OwnName
  <2>2. ~mixed /\ ~overrun /\ username = Browser(t) /\ owner[obj[t]] = Browser(t)
    BY <1>1, <1>2, <2>1 DEF OwnName, Unlisted, Pending
  <2>3. \A d \in Conns : /\ Cookie(d)' = Cookie(d) /\ Browser(d)' = Browser(d) /\ obj'[d] = obj[d]
                         /\ pc'[d] \in Serving => pc[d] \in Serving
                         /\ pc'[d] \in Unlisted \cup {"using"} => pc[d] \in Unlisted \cup {"using"}
    BY <1>1, <1>2 DEF Cookie, Browser, Unlisted, Pending
  <2>4. \A u \in Users : all_storages'[u] # None => owner'[all_storages'[u]] = u
    BY <1>1, <1>3, <2>2 DEF OwnName
  <2>5. username' = setter' /\ \A b \in Users : cookie'[b] \in {b, None}
    BY <1>1, <2>2 DEF OwnName
  <2>6. \A d \in Conns : pc'[d] \in Serving => Cookie(d)' \in {Browser(d)', None}
    BY <2>2, <2>3 DEF OwnName
  <2>7. \A d \in Conns : pc'[d] \in Unlisted \cup {"using"} => owner'[obj'[d]] = Browser(d)'
    BY <1>1, <2>2, <2>3 DEF OwnName
  <2> QED
    BY <2>4, <2>5, <2>6, <2>7 DEF OwnName
<1>9. Signed'
  <2>1. SUFFICES ASSUME ~mixed', ~overrun', ~crossed'
                 PROVE  KnownUsers' /\ SigningUp' /\ HasStorage' /\ SessionStorage' /\ ended' # "page"
    BY DEF Signed
  <2>2. KnownUsers /\ SigningUp /\ HasStorage /\ SessionStorage /\ ended # "page"
    BY <1>1, <1>2, <2>1 DEF Signed
  <2>3. username = Browser(t) /\ Browser(t) \in registered
    BY <1>1, <1>2, <2>1, <2>2 DEF OwnName, SigningUp
  <2>4. KnownUsers'
    BY <1>1, <1>2, <1>3, <2>2, <2>3 DEF KnownUsers, Serving, Handling, Cookie, Browser
  <2>5. \A d \in Conns : pc[d] \in Serving => Browser(d) \in Users
    BY DEF Requests, Request, Browser
  <2>6. SigningUp'
    BY <1>1, <1>2, <1>3, <2>2, <2>5 DEF SigningUp, Serving, Handling, Cookie, Browser
  <2>7. HasStorage'
    BY <1>1, <1>2, <1>3, <2>2, <2>3, <2>5 DEF HasStorage, Finds, Browser, Kind, Serving, Handling
  <2>8. SessionStorage'
    <3>1. \A d \in Conns : pc'[d] \in Handling /\ Kind(d)' = "logout" => username' \notin sessions'
      BY <1>1, <1>2, <2>2 DEF SessionStorage, Kind, Handling
    <3>2. \A u \in sessions : all_storages'[u] # None \/ \E d \in Conns : pc'[d] = "insert2" /\ Browser(d)' = u
      BY <1>1, <1>2, <1>3, <2>2, <2>3 DEF SessionStorage, Browser, TypeOK
    <3> QED
      BY <1>1, <3>1, <3>2 DEF SessionStorage
  <2> QED
    BY <1>1, <2>2, <2>4, <2>6, <2>7, <2>8
<1> QED
  BY <1>4, <1>5, <1>6, <1>7, <1>8, <1>9

LEMMA LookupFront ==
  ASSUME FrontInv, NEW t \in Conns, Lookup(t)
  PROVE  FrontInv'
<1> USE DEF FrontInv, BaseInv
<1> DEFINE s == IF username = None THEN None ELSE all_storages[username]
<1>1. /\ pc[t] = "use" /\ pc[t] \in Serving /\ pc[t] \in Handling /\ mixed' = (mixed \/ setter # Browser(t))
      /\ UNCHANGED <<username, setter, sessions, all_storages, owner, freed, registered, cookie, astray, crossed>>
      /\ UNCHANGED connVars
  BY DEF Lookup, UsesName, Serving, Handling, sessionVars
<1>2. PICK p \in {"use", "using"} :
        /\ pc' = [pc EXCEPT ![t] = p]
        /\ p = "use" => s = None /\ ended' = Kind(t) /\ obj' = obj
        /\ p = "using" => s # None /\ obj' = [obj EXCEPT ![t] = s] /\ ended' = ended
  <2>1. CASE s = None /\ ended' = Kind(t) /\ UNCHANGED <<obj, pc>>
    BY <1>1, <2>1 DEF TypeOK
  <2>2. CASE s # None /\ obj' = [obj EXCEPT ![t] = s] /\ Goto(t, "using") /\ UNCHANGED ended
    BY <2>2 DEF Goto
  <2> QED
    BY <2>1, <2>2 DEF Lookup
<1>3. /\ pc'[t] = p /\ \A d \in Conns \ {t} : pc'[d] = pc[d]
      /\ UNCHANGED <<req, overrun>> /\ Kind(t) \in Kinds /\ Kind(t) # "logout"
  BY <1>1, <1>2 DEF TypeOK, connVars, Requests, Request, Kind, Handling
<1>4. /\ p = "using" => username \in Users /\ s = all_storages[username] /\ s \in Storages
      /\ p = "using" => obj'[t] = s
      /\ \A d \in Conns \ {t} : obj'[d] = obj[d]
      /\ obj' \in [Conns -> Storages \cup {None}]
  BY <1>2 DEF TypeOK
<1> HIDE DEF s
<1>5. Descriptors' /\ Requests' /\ OwnConn'
  BY <1>1, <1>2, <1>3, HandlerConn DEF Handling
<1>6. TypeOK'
  <2>1. SessionType'
    BY <1>1, <1>2, <1>3, <1>4 DEF SessionType, TypeOK, Storages
  <2> QED
    BY <1>1, <1>2, <2>1, HandlerType DEF Handling
<1>7. Storing'
  BY <1>1, <1>2, <1>3, <1>4 DEF Storing, Storages, Unlisted, Pending
<1>8. Alone'
  <2>1. SUFFICES ASSUME ~crossed'
                 PROVE  Alone'
    BY DEF Alone
  <2>2. \A d, e \in Conns : d # e /\ pc'[d] \in Handling /\ pc'[e] \in Handling => Kind(d)' # "logout"
    BY <1>1, <1>3, <2>1 DEF Alone, Kind
  <2>3. \A d \in Conns : pc[d] # "erase"
    BY <1>1, <1>3, <2>1 DEF Alone, Requests, Handling
  <2>4. \A d \in Conns : pc'[d] = "using" =>
          obj'[d] \notin freed' /\ \E u \in Users : all_storages'[u] = obj'[d]
    BY <1>1, <1>2, <1>3, <1>4, <2>1, <2>3 DEF Alone
  <2> QED
    BY <1>1, <2>1, <2>2, <2>3, <2>4 DEF Alone
<1>9. OwnName'
  <2>1. SUFFICES ASSUME ~mixed', ~overrun'
                 PROVE  OwnName'
    BY DEF OwnName
  <2>2. p = "using" => owner[obj'[t]] = Browser(t)
    <3>1. username = Browser(t)
      BY <1>1, <1>3, <2>1 DEF OwnName
    <3>2. p = "using" => obj'[t] = all_storages[username] /\ all_storages[username] # None /\ username \in Users
      BY <1>2, <1>4
    <3>3. \A u \in Users : all_storages[u] # None => owner[all_storages[u]] = u
      BY <1>1, <1>3, <2>1 DEF OwnName
    <3> QED
      BY <3>1, <3>2, <3>3
  <2>3. \A d \in Conns : Browser(d)' = Browser(d) /\ Cookie(d)' = Cookie(d)
    BY <1>3 DEF Browser, Cookie
  <2>4. \A d \in Conns : pc'[d] \in Unlisted \cup {"using"} => owner'[obj'[d]] = Browser(d)'
    BY <1>1, <1>2, <1>3, <1>4, <2>1, <2>2, <2>3 DEF OwnName, Unlisted, Pending
  <2>5. \A d \in Conns : pc'[d] \in Serving => Cookie(d)' \in {Browser(d)', None}
    BY <1>1, <1>2, <1>3, <2>1, <2>3 DEF OwnName, Serving, Handling
  <2> QED
    BY <1>1, <1>2, <1>3, <2>1, <2>4, <2>5 DEF OwnName
<1>10. Signed'
  <2>1. SUFFICES ASSUME ~mixed', ~overrun', ~crossed'
                 PROVE  KnownUsers' /\ SigningUp' /\ HasStorage' /\ SessionStorage' /\ ended' # "page"
    BY DEF Signed
  <2>2. KnownUsers /\ SigningUp /\ HasStorage /\ SessionStorage /\ ended # "page"
    BY <1>1, <1>3, <2>1 DEF Signed
  <2>3. username = Browser(t)
    BY <1>1, <1>3, <2>1 DEF OwnName
  <2>4. KnownUsers' /\ SigningUp'
    BY <1>1, <1>2, <1>3, <2>2 DEF KnownUsers, SigningUp, Serving, Handling, Cookie, Browser
  <2>5. HasStorage'
    <3>1. p = "using" => all_storages[Browser(t)] # None
      BY <1>2, <1>4, <2>3
    <3> QED
      BY <1>1, <1>2, <1>3, <2>2, <3>1 DEF HasStorage, Finds, Browser, Kind
  <2>6. SessionStorage'
    BY <1>1, <1>2, <1>3, <2>2 DEF SessionStorage, Browser, Kind, Handling
  <2>7. ended' # "page"
    <3>1. Browser(t) # None /\ (Kind(t) = "page" => all_storages[Browser(t)] # None)
      BY <1>1, <2>2, FrontendAssumption DEF HasStorage, Finds, Requests, Request, Browser
    <3> QED
      BY <1>2, <2>2, <2>3, <3>1 DEF s
  <2> QED
    BY <2>4, <2>5, <2>6, <2>7
<1> QED
  BY <1>5, <1>6, <1>7, <1>8, <1>9, <1>10

\* A step that changes nothing but the place of a thread whose request is not a log-out.
LEMMA OnlyMoves ==
  ASSUME FrontInv, NEW t \in Conns, pc[t] \in {"using", "reply"}, Kind(t) # "logout",
         NEW p \in {"welcome", "reply", "close"}, pc' = [pc EXCEPT ![t] = p],
         p = "welcome" => pc[t] = "using", ~overrun => astray' = astray,
         astray' \subseteq Conns \X Conns,
         UNCHANGED <<obj, username, setter, sessions, all_storages, owner, freed, registered, cookie, ended,
                     mixed, crossed>>,
         UNCHANGED connVars
  PROVE  FrontInv'
<1> USE DEF FrontInv, BaseInv
<1>1. /\ pc[t] \in Serving /\ pc[t] \in Handling
      /\ pc'[t] = p /\ \A d \in Conns \ {t} : pc'[d] = pc[d]
      /\ UNCHANGED <<req, overrun>>
  BY DEF TypeOK, connVars, Serving, Handling
<1>2. Descriptors' /\ Requests' /\ OwnConn'
  BY <1>1, HandlerConn DEF Handling
<1>3. TypeOK'
  <2>1. SessionType'
    BY DEF SessionType, TypeOK, Storages
  <2> QED
    BY <2>1, HandlerType DEF Handling
<1>4. Storing'
  BY <1>1 DEF Storing, Storages, Unlisted, Pending
<1>5. Alone'
  BY <1>1 DEF Alone, Kind, Handling
<1>6. OwnName'
  BY <1>1 DEF OwnName, Cookie, Browser, Serving, Handling, Unlisted, Pending
<1>7. Signed'
  <2>1. SUFFICES ASSUME ~mixed', ~overrun', ~crossed'
                 PROVE  KnownUsers' /\ SigningUp' /\ HasStorage' /\ SessionStorage' /\ ended' # "page"
    BY DEF Signed
  <2>2. KnownUsers /\ SigningUp /\ HasStorage /\ SessionStorage /\ ended # "page"
    BY <1>1, <2>1 DEF Signed
  <2>3. KnownUsers' /\ SigningUp'
    BY <1>1, <2>2 DEF KnownUsers, SigningUp, Serving, Handling, Cookie, Browser
  <2>4. HasStorage'
    BY <1>1, <2>2 DEF HasStorage, Finds, Browser, Kind
  <2>5. SessionStorage'
    BY <1>1, <2>2 DEF SessionStorage, Browser, Kind, Handling
  <2> QED
    BY <2>2, <2>3, <2>4, <2>5
<1> QED
  BY <1>2, <1>3, <1>4, <1>5, <1>6, <1>7

LEMMA UseStorageFront ==
  ASSUME FrontInv, NEW t \in Conns, UseStorage(t)
  PROVE  FrontInv'
<1>1. /\ pc[t] = "using" /\ Kind(t) # "logout"
      /\ UNCHANGED <<obj, username, setter, sessions, all_storages, owner, freed, registered, cookie, ended,
                     mixed, crossed>>
      /\ UNCHANGED connVars /\ UNCHANGED astray
  BY DEF UseStorage, FrontInv, BaseInv, Requests, Handling, sessionVars
<1>2. PICK p \in {"welcome", "reply"} : pc' = [pc EXCEPT ![t] = p]
  BY DEF UseStorage, Goto
<1>3. astray' \subseteq Conns \X Conns
  BY <1>1 DEF FrontInv, BaseInv, TypeOK
<1> QED
  BY <1>1, <1>2, <1>3, OnlyMoves

\* Where a reply goes.
LEMMA Written ==
  ASSUME FrontInv, NEW t \in Conns, pc[t] \in {"welcome", "reply"}, Write(t)
  PROVE  /\ astray' \subseteq Conns \X Conns
         /\ ~overrun => astray' = astray /\ fds[my[t]] = t /\ from[t] = Browser(t)
         /\ fds[my[t]] # None => fds[my[t]] \in Conns /\ from[fds[my[t]]] \in Users
<1> USE DEF FrontInv, BaseInv
<1>1. my[t] \in Fds /\ req[t].conn \in Conns
  BY DEF Descriptors, Requests, Request, Serving, Handling, TypeOK
<1>2. fds[my[t]] \in Conns \cup {None} /\ astray \subseteq Conns \X Conns
  BY <1>1 DEF TypeOK
<1>3. astray' \subseteq Conns \X Conns
  BY <1>1, <1>2 DEF Write
<1>4. fds[my[t]] # None => from[fds[my[t]]] \in Users
  BY <1>1 DEF Descriptors
<1>5. ~overrun => fds[my[t]] = t /\ from[t] = Browser(t) /\ req[t].conn = t
  BY <1>1, FrontendAssumption DEF OwnConn, Serving, Handling, TypeOK, Fds
<1> QED
  BY <1>2, <1>3, <1>4, <1>5 DEF Write

LEMMA ReplyFront ==
  ASSUME FrontInv, NEW t \in Conns, Reply(t)
  PROVE  FrontInv'
<1> USE DEF FrontInv, BaseInv
<1>1. /\ pc[t] = "reply" /\ pc[t] \in Serving /\ pc[t] \in Handling
      /\ UNCHANGED <<obj, username, setter, sessions, all_storages, owner, freed, registered, cookie, ended,
                     mixed, crossed>>
      /\ UNCHANGED connVars
      /\ astray' \subseteq Conns \X Conns /\ (~overrun => astray' = astray)
  BY Written DEF Reply, Serving, Handling, sessionVars
<1>2. CASE Kind(t) # "logout"
  <2>1. pc' = [pc EXCEPT ![t] = "close"]
    BY <1>2 DEF Reply, Goto
  <2> QED
    BY <1>1, <1>2, <2>1, OnlyMoves
<1>3. CASE Kind(t) = "logout"
  <2>1. pc' = [pc EXCEPT ![t] = "delete"]
    BY <1>3 DEF Reply, Goto
  <2>2. /\ pc'[t] = "delete" /\ \A d \in Conns \ {t} : pc'[d] = pc[d]
        /\ UNCHANGED <<req, overrun>>
    BY <1>1, <2>1 DEF TypeOK, connVars
  <2>3. Descriptors' /\ Requests' /\ OwnConn'
    BY <1>1, <1>3, <2>1, HandlerConn DEF Handling
  <2>4. TypeOK'
    <3>1. SessionType'
      BY <1>1 DEF SessionType, TypeOK, Storages
    <3> QED
      BY <1>1, <2>1, <3>1, HandlerType DEF Handling
  <2>5. Storing'
    BY <1>1, <2>2 DEF Storing, Storages, Unlisted, Pending
  <2>6. Alone'
    BY <1>1, <2>2 DEF Alone, Kind, Handling
  <2>7. OwnName'
    BY <1>1, <2>2 DEF OwnName, Cookie, Browser, Serving, Handling, Unlisted, Pending
  <2>8. Signed'
    <3>1. SUFFICES ASSUME ~mixed', ~overrun', ~crossed'
                   PROVE  KnownUsers' /\ SigningUp' /\ HasStorage' /\ SessionStorage' /\ ended' # "page"
      BY DEF Signed
    <3>2. KnownUsers /\ SigningUp /\ HasStorage /\ SessionStorage /\ ended # "page"
      BY <1>1, <2>2, <3>1 DEF Signed
    <3>3. KnownUsers' /\ SigningUp'
      BY <1>1, <2>2, <3>2 DEF KnownUsers, SigningUp, Serving, Handling, Cookie, Browser
    <3>4. HasStorage' /\ SessionStorage'
      BY <1>1, <2>2, <3>2 DEF HasStorage, Finds, SessionStorage, Browser, Kind, Handling
    <3> QED
      BY <1>1, <3>2, <3>3, <3>4
  <2> QED
    BY <2>3, <2>4, <2>5, <2>6, <2>7, <2>8
<1> QED
  BY <1>2, <1>3

LEMMA WelcomeFront ==
  ASSUME FrontInv, NEW t \in Conns, Welcome(t)
  PROVE  FrontInv'
<1> USE DEF FrontInv, BaseInv
<1>1. /\ pc[t] = "welcome" /\ pc[t] \in Serving /\ pc[t] \in Handling /\ Kind(t) # "logout"
      /\ pc' = [pc EXCEPT ![t] = "close"] /\ mixed' = (mixed \/ setter # Browser(t))
      /\ UNCHANGED <<obj, username, setter, sessions, all_storages, owner, freed, registered, ended, crossed>>
      /\ UNCHANGED connVars
      /\ cookie' = IF fds[my[t]] = None THEN cookie ELSE [cookie EXCEPT ![from[fds[my[t]]]] = username]
  BY DEF Welcome, UsesName, Goto, Requests, Serving, Handling, sessionVars
<1>2. /\ astray' \subseteq Conns \X Conns
      /\ ~overrun => astray' = astray /\ fds[my[t]] = t /\ from[t] = Browser(t)
      /\ fds[my[t]] # None => fds[my[t]] \in Conns /\ from[fds[my[t]]] \in Users
  BY <1>1, Written DEF Welcome
<1>3. /\ pc'[t] = "close" /\ \A d \in Conns \ {t} : pc'[d] = pc[d]
      /\ UNCHANGED <<req, overrun>> /\ Browser(t) \in Users
  BY <1>1 DEF TypeOK, connVars, Requests, Request, Browser
<1>4. cookie' \in [Users -> Users \cup {None}]
  BY <1>1, <1>2 DEF TypeOK
<1>5. ~overrun => cookie' = [cookie EXCEPT ![Browser(t)] = username]
  <2>1. t # None
    BY FrontendAssumption DEF Conns
  <2> QED
    BY <1>1, <1>2, <2>1
<1>6. Descriptors' /\ Requests' /\ OwnConn'
  BY <1>1, <1>2, HandlerConn DEF Handling
<1>7. TypeOK'
  <2>1. SessionType'
    BY <1>1, <1>2, <1>4 DEF SessionType, TypeOK, Storages
  <2> QED
    BY <1>1, <2>1, HandlerType DEF Handling
<1>8. Storing'
  BY <1>1, <1>3 DEF Storing, Storages, Unlisted, Pending
<1>9. Alone'
  BY <1>1, <1>3 DEF Alone, Kind, Handling
<1>10. OwnName'
  <2>1. SUFFICES ASSUME ~mixed', ~overrun'
                 PROVE  OwnName'
    BY DEF OwnName
  <2>2. username = Browser(t) /\ \A b \in Users : cookie'[b] \in {b, None}
    BY <1>1, <1>3, <1>5, <2>1 DEF OwnName, TypeOK
  <2> QED
    BY <1>1, <1>3, <2>1, <2>2 DEF OwnName, Cookie, Browser, Serving, Handling, Unlisted, Pending
<1>11. Signed'
  <2>1. SUFFICES ASSUME ~mixed', ~overrun', ~crossed'
                 PROVE  KnownUsers' /\ SigningUp' /\ HasStorage' /\ SessionStorage' /\ ended' # "page"
    BY DEF Signed
  <2>2. KnownUsers /\ SigningUp /\ HasStorage /\ SessionStorage /\ ended # "page"
    BY <1>1, <1>3, <2>1 DEF Signed
  <2>3. all_storages[Browser(t)] # None /\ Browser(t) \in registered
    BY <1>1, <1>3, <2>2 DEF HasStorage, Finds, KnownUsers
  <2>4. \A b \in Users \ {Browser(t)} : cookie'[b] = cookie[b]
    BY <1>3, <1>5, <2>1 DEF TypeOK
  <2>5. KnownUsers'
    BY <1>1, <1>3, <2>2, <2>3, <2>4 DEF KnownUsers, Serving, Handling, Cookie, Browser
  <2>6. \A d \in Conns : /\ pc'[d] \in Serving => pc[d] \in Serving /\ Browser(d) \in Users
                         /\ Browser(d)' = Browser(d) /\ Cookie(d)' = Cookie(d)
    BY <1>3 DEF Requests, Request, Serving, Handling, Cookie, Browser
  <2>7. SigningUp'
    BY <1>1, <1>3, <2>2, <2>3, <2>4, <2>6 DEF SigningUp, Serving, Handling
  <2>8. HasStorage'
    BY <1>1, <1>3, <2>2 DEF HasStorage, Finds, Browser, Kind
  <2>9. SessionStorage'
    BY <1>1, <1>3, <2>2 DEF SessionStorage, Browser, Kind, Handling
  <2> QED
    BY <1>1, <2>2, <2>5, <2>7, <2>8, <2>9
<1> QED
  BY <1>6, <1>7, <1>8, <1>9, <1>10, <1>11

LEMMA DeleteStorageFront ==
  ASSUME FrontInv, NEW t \in Conns, DeleteStorage(t)
  PROVE  FrontInv'
<1> USE DEF FrontInv, BaseInv
<1>1. /\ pc[t] = "delete" /\ pc[t] \in Serving /\ pc[t] \in Handling /\ Kind(t) = "logout"
      /\ pc' = [pc EXCEPT ![t] = "erase"] /\ mixed' = (mixed \/ setter # Browser(t))
      /\ freed' = IF username = None THEN freed ELSE freed \cup ({all_storages[username]} \ {None})
      /\ UNCHANGED <<obj, username, setter, sessions, all_storages, owner, registered, cookie, astray, ended, crossed>>
      /\ UNCHANGED connVars
  BY DEF DeleteStorage, UsesName, Goto, Requests, Serving, Handling
<1>2. /\ pc'[t] = "erase" /\ \A d \in Conns \ {t} : pc'[d] = pc[d]
      /\ UNCHANGED <<req, overrun>>
  BY <1>1 DEF TypeOK, connVars
<1>3. /\ freed \subseteq freed' /\ freed' \subseteq Storages
      /\ \A s \in freed' \ freed : username \in Users /\ s = all_storages[username] /\ s # None
  BY <1>1 DEF TypeOK
<1>4. Descriptors' /\ Requests' /\ OwnConn'
  BY <1>1, HandlerConn DEF Handling
<1>5. TypeOK'
  <2>1. SessionType'
    BY <1>1, <1>3 DEF SessionType, TypeOK, Storages
  <2> QED
    BY <1>1, <2>1, HandlerType DEF Handling
<1>6. Storing'
  BY <1>1, <1>2, <1>3 DEF Storing, Storages, Unlisted, Pending
<1>7. ~crossed' => \A d \in Conns \ {t} : pc[d] \notin Handling
  BY <1>1 DEF Alone
<1>8. Alone'
  BY <1>1, <1>2, <1>3, <1>7 DEF Alone, Storing, Handling
<1>9. OwnName'
  BY <1>1, <1>2 DEF OwnName, Cookie, Browser, Serving, Handling, Unlisted, Pending
<1>10. Signed'
  <2>1. SUFFICES ASSUME ~mixed', ~overrun', ~crossed'
                 PROVE  KnownUsers' /\ SigningUp' /\ HasStorage' /\ SessionStorage' /\ ended' # "page"
    BY DEF Signed
  <2>2. KnownUsers /\ SigningUp /\ HasStorage /\ SessionStorage /\ ended # "page"
    BY <1>1, <1>2, <2>1 DEF Signed
  <2>3. KnownUsers' /\ SigningUp'
    BY <1>1, <1>2, <2>2 DEF KnownUsers, SigningUp, Serving, Handling, Cookie, Browser
  <2>4. HasStorage' /\ SessionStorage'
    BY <1>1, <1>2, <2>2 DEF HasStorage, Finds, SessionStorage, Browser, Kind, Handling
  <2> QED
    BY <1>1, <2>2, <2>3, <2>4
<1> QED
  BY <1>4, <1>5, <1>6, <1>8, <1>9, <1>10

LEMMA EraseStorageFront ==
  ASSUME FrontInv, NEW t \in Conns, EraseStorage(t)
  PROVE  FrontInv'
<1> USE DEF FrontInv, BaseInv
<1>1. /\ pc[t] = "erase" /\ pc[t] \in Serving /\ pc[t] \in Handling /\ Kind(t) = "logout"
      /\ pc' = [pc EXCEPT ![t] = "close"] /\ mixed' = (mixed \/ setter # Browser(t))
      /\ all_storages' = IF username = None THEN all_storages ELSE [all_storages EXCEPT ![username] = None]
      /\ UNCHANGED <<obj, username, setter, sessions, owner, freed, registered, cookie, astray, ended, crossed>>
      /\ UNCHANGED connVars
  BY DEF EraseStorage, Erase, UsesName, Goto, Requests, Serving, Handling
<1>2. /\ pc'[t] = "close" /\ \A d \in Conns \ {t} : pc'[d] = pc[d]
      /\ UNCHANGED <<req, overrun>>
  BY <1>1 DEF TypeOK, connVars
<1>3. /\ all_storages' \in [Users -> Storages \cup {None}]
      /\ \A u \in Users : IF u = username THEN all_storages'[u] = None ELSE all_storages'[u] = all_storages[u]
  BY <1>1, FrontendAssumption DEF TypeOK
<1>4. Descriptors' /\ Requests' /\ OwnConn'
  BY <1>1, HandlerConn DEF Handling
<1>5. TypeOK'
  <2>1. SessionType'
    BY <1>1, <1>3 DEF SessionType, TypeOK, Storages
  <2> QED
    BY <1>1, <2>1, HandlerType DEF Handling
<1>6. Storing'
  <2>1. None \notin Storages
    BY FrontendAssumption DEF Storages
  <2> QED
    BY <1>1, <1>2, <1>3, <2>1 DEF Storing, Storages, Unlisted, Pending
<1>7. ~crossed' => \A d \in Conns \ {t} : pc[d] \notin Handling
  BY <1>1 DEF Alone
<1>8. Alone'
  <2>1. None \notin freed
    <3>1. Len(owner) \in Nat /\ freed \subseteq 1 .. Len(owner)
      BY DEF TypeOK, Storages
    <3>2. \A s \in freed : s \in Nat
      BY <3>1
    <3> QED
      BY <3>2, FrontendAssumption
  <2> QED
    BY <1>1, <1>2, <1>3, <1>7, <2>1 DEF Alone, Handling
<1>9. OwnName'
  BY <1>1, <1>2, <1>3 DEF OwnName, Cookie, Browser, Serving, Handling, Unlisted, Pending
<1>10. Signed'
  <2>1. SUFFICES ASSUME ~mixed', ~overrun', ~crossed'
                 PROVE  KnownUsers' /\ SigningUp' /\ HasStorage' /\ SessionStorage' /\ ended' # "page"
    BY DEF Signed
  <2>2. KnownUsers /\ SigningUp /\ HasStorage /\ SessionStorage /\ ended # "page"
    BY <1>1, <1>2, <2>1 DEF Signed
  <2>3. \A d \in Conns : pc'[d] \notin Handling
    BY <1>1, <1>2, <1>7, <2>1 DEF Handling
  <2>4. KnownUsers'
    BY <1>1, <1>2, <1>3, <2>2 DEF KnownUsers, Serving, Handling, Cookie, Browser
  <2>5. SigningUp' /\ HasStorage'
    BY <2>3 DEF SigningUp, HasStorage, Finds, Handling
  <2>6. SessionStorage'
    <3>1. username \notin sessions
      BY <1>1, <2>2 DEF SessionStorage
    <3>2. \A u \in sessions : all_storages[u] # None
      BY <1>1, <1>7, <2>1, <2>2 DEF SessionStorage, Handling
    <3> QED
      BY <1>1, <1>3, <2>3, <3>1, <3>2 DEF SessionStorage, TypeOK
  <2> QED
    BY <1>1, <2>2, <2>4, <2>5, <2>6
<1> QED
  BY <1>4, <1>5, <1>6, <1>8, <1>9, <1>10

-----------------------------------------------------------------------------
(* The steps of a connection: it is accepted, its thread copies the        *)
(* descriptor, the request is read, the descriptor is closed.              *)

\* What is left alone by a step of a thread that is not in a handler.
LEMMA OutsideHandlers ==
  ASSUME FrontInv, NEW t \in Conns, pc[t] \notin Serving,
         NEW p \in {"new", "reading", "begin", "close", "done"}, pc' = [pc EXCEPT ![t] = p],
         overrun \in BOOLEAN, overrun' \in BOOLEAN, overrun => overrun',
         \A d \in Conns \ {t} : req'[d] = req[d] /\ obj'[d] = obj[d],
         p = "begin" /\ ~overrun => Cookie(t)' = cookie[Browser(t)'] /\ Browser(t)' \in Users,
         UNCHANGED <<username, setter, sessions, all_storages, owner, freed, registered, cookie, ended, mixed, crossed>>
  PROVE  Storing' /\ Alone' /\ OwnName' /\ Signed'
<1> USE DEF FrontInv, BaseInv
<1>1. pc'[t] = p /\ \A d \in Conns \ {t} : pc'[d] = pc[d]
  BY DEF TypeOK
<1>2. /\ pc'[t] \notin Handling /\ pc[t] \notin Handling
      /\ \A d \in Conns \ {t} : Kind(d)' = Kind(d) /\ Browser(d)' = Browser(d) /\ Cookie(d)' = Cookie(d)
  BY <1>1 DEF Serving, Handling, Kind, Browser, Cookie
<1>3. Storing'
  BY <1>1 DEF Storing, Storages, Unlisted, Pending, Serving, Handling
<1>4. Alone'
  <2>1. SUFFICES ASSUME ~crossed'
                 PROVE  Alone'
    BY DEF Alone
  <2>2. \A d, e \in Conns : d # e /\ pc'[d] \in Handling /\ pc'[e] \in Handling => Kind(d)' # "logout"
    BY <1>1, <1>2, <2>1 DEF Alone
  <2>3. \A d \in Conns : (pc'[d] = "using" <=> pc[d] = "using") /\ (pc'[d] = "erase" <=> pc[d] = "erase")
    BY <1>1, <1>2 DEF Handling
  <2>4. \A d \in Conns : pc'[d] = "using" => obj'[d] = obj[d]
    BY <1>1, <1>2 DEF Handling
  <2> QED
    BY <2>1, <2>2, <2>3, <2>4 DEF Alone
<1>5. OwnName'
  <2>1. SUFFICES ASSUME ~mixed', ~overrun'
                 PROVE  OwnName'
    BY DEF OwnName
  <2>2. p = "begin" => Cookie(t)' \in {Browser(t)', None}
    BY <2>1 DEF OwnName
  <2>3. \A d \in Conns : pc'[d] \in Serving => Cookie(d)' \in {Browser(d)', None}
    BY <1>1, <1>2, <2>1, <2>2 DEF OwnName, Serving, Handling
  <2>4. \A d \in Conns : pc'[d] \in Unlisted \cup {"using"} => owner'[obj'[d]] = Browser(d)'
    BY <1>1, <1>2, <2>1 DEF OwnName, Unlisted, Pending, Handling
  <2> QED
    BY <2>1, <2>3, <2>4 DEF OwnName
<1>6. Signed'
  <2>1. SUFFICES ASSUME ~mixed', ~overrun', ~crossed'
                 PROVE  KnownUsers' /\ SigningUp' /\ HasStorage' /\ SessionStorage' /\ ended' # "page"
    BY DEF Signed
  <2>2. KnownUsers /\ SigningUp /\ HasStorage /\ SessionStorage /\ ended # "page" /\ ~overrun
    BY <2>1 DEF Signed
  <2>3. p = "begin" /\ Cookie(t)' # None => Browser(t)' \in registered
    BY <2>2 DEF KnownUsers
  <2>4. KnownUsers'
    BY <1>1, <1>2, <2>2, <2>3 DEF KnownUsers, Serving
  <2>5. SigningUp'
    <3>1. \A d \in Conns : pc'[d] \in {"session2", "insert2"} => d # t /\ pc[d] \in {"session2", "insert2"}
      BY <1>1, <1>2 DEF Handling
    <3>2. ASSUME NEW d \in Conns \ {t}, pc[d] \in {"session2", "insert2"}, all_storages[Browser(d)] = None
          PROVE  /\ cookie[Browser(d)] = None
                 /\ \A e \in Conns : pc'[e] \in Serving /\ Browser(e)' = Browser(d) => Cookie(e)' = None
      <4>1. cookie[Browser(d)] = None
        BY <2>2, <3>2 DEF SigningUp
      <4>2. \A e \in Conns \ {t} : pc'[e] \in Serving /\ Browser(e)' = Browser(d) => Cookie(e)' = None
        BY <1>1, <1>2, <2>2, <3>2 DEF SigningUp
      <4>3. pc'[t] \in Serving /\ Browser(t)' = Browser(d) => Cookie(t)' = None
        BY <1>1, <1>2, <2>2, <4>1 DEF Serving
      <4> QED
        BY <4>1, <4>2, <4>3
    <3> QED
      BY <1>2, <2>2, <3>1, <3>2 DEF SigningUp
  <2>6. HasStorage'
    BY <1>1, <1>2, <2>2 DEF HasStorage, Finds, Handling
  <2>7. SessionStorage'
    <3>1. \A d \in Conns : pc'[d] \in Handling => d # t /\ pc[d] \in Handling
      BY <1>1, <1>2
    <3>2. \A u \in sessions : all_storages[u] # None \/ \E d \in Conns \ {t} : pc[d] = "insert2" /\ Browser(d) = u
      BY <1>2, <2>2 DEF SessionStorage, Handling
    <3> QED
      BY <1>1, <1>2, <2>2, <3>1, <3>2 DEF SessionStorage
  <2> QED
    BY <2>2, <2>4, <2>5, <2>6, <2>7
<1> QED
  BY <1>3, <1>4, <1>5, <1>6

LEMMA AcceptFront ==
  ASSUME FrontInv, NEW t \in Conns, NEW b \in Users, Accept(t, b)
  PROVE  FrontInv'
<1> USE DEF FrontInv, BaseInv
<1> DEFINE f == LowestFree
<1>1. /\ pc[t] = "none" /\ pc[t] \notin Serving /\ pc' = [pc EXCEPT ![t] = "new"]
      /\ overrun' = (overrun \/ \E d \in Conns : pc[d] = "new")
      /\ fds' = [fds EXCEPT ![f] = t] /\ client_fd' = f /\ from' = [from EXCEPT ![t] = b]
      /\ unread' = unread \cup {t}
      /\ UNCHANGED <<my, req, obj, username, setter, sessions, all_storages, owner, freed, registered,
                     cookie, astray, ended, mixed, crossed>>
  BY DEF Accept, Serving, Handling, sessionVars
<1>2. f \in Fds /\ fds[f] = None
  BY <1>1, FreeDescriptor
<1>3. t # None /\ f # None
  BY <1>2, FrontendAssumption DEF Conns, Fds
<1> HIDE DEF f
<1>4. overrun \in BOOLEAN /\ overrun' \in BOOLEAN
  BY <1>1 DEF TypeOK
<1>5. Storing' /\ Alone' /\ OwnName' /\ Signed'
  BY <1>1, <1>4, OutsideHandlers
<1>6. /\ pc'[t] = "new" /\ \A d \in Conns \ {t} : pc'[d] = pc[d]
      /\ fds'[f] = t /\ \A g \in Fds \ {f} : fds'[g] = fds[g]
      /\ from'[t] = b /\ \A d \in Conns \ {t} : from'[d] = from[d]
  BY <1>1, <1>2 DEF TypeOK
<1>7. TypeOK'
  <2>1. /\ fds' \in [Fds -> Conns \cup {None}] /\ client_fd' \in Fds \cup {None}
        /\ from' \in [Conns -> Users \cup {None}] /\ unread' \subseteq Conns
        /\ pc' \in [Conns -> Handling \cup {"none", "new", "reading", "begin", "close", "done"}]
    BY <1>1, <1>2 DEF TypeOK
  <2> QED
    BY <1>1, <1>4, <2>1 DEF TypeOK, Storages
<1>8. Descriptors'
  <2>1. \A g \in Fds : fds[g] # t
    BY <1>1, <1>3 DEF Descriptors
  <2>2. \A g, h \in Fds : fds'[g] # None /\ fds'[g] = fds'[h] => g = h
    BY <1>6, <2>1 DEF Descriptors
  <2>3. \A g \in Fds : fds'[g] # None => pc'[fds'[g]] # "none" /\ from'[fds'[g]] \in Users
    BY <1>6, <2>1 DEF Descriptors, TypeOK
  <2>4. \A d \in Conns : my'[d] # None <=> pc'[d] \in Serving \cup {"reading", "close"}
    BY <1>1, <1>6 DEF Descriptors, Serving, Handling
  <2> QED
    BY <1>1, <1>3, <2>2, <2>3, <2>4 DEF Descriptors
<1>9. Requests'
  BY <1>1, <1>6 DEF Requests, Serving, Handling, Kind
<1>10. OwnConn'
  <2>1. SUFFICES ASSUME ~overrun'
                 PROVE  OwnConn'
    BY DEF OwnConn
  <2>2. ~overrun /\ \A d \in Conns : pc[d] # "new"
    BY <1>1, <2>1
  <2>3. \A d \in Conns : my[d] # None => my[d] \in Fds /\ my[d] # f /\ d # t
    <3>1. \A d \in Conns : my[d] # None => my[d] \in Fds /\ fds[my[d]] = d /\ d # None
      BY <2>2, FrontendAssumption DEF OwnConn, TypeOK, Conns
    <3>2. my[t] = None
      BY <1>1 DEF Descriptors, Serving, Handling
    <3> QED
      BY <1>2, <3>1, <3>2
  <2>4. \A d \in Conns : my'[d] # None => fds'[my'[d]] = d
    BY <1>1, <1>6, <2>2, <2>3 DEF OwnConn
  <2>5. \A g \in Fds : fds'[g] # None => pc'[fds'[g]] # "done"
    <3>1. \A g \in Fds \ {f} : fds[g] # None => fds[g] \in Conns /\ pc[fds[g]] # "none" /\ pc[fds[g]] # "done"
      BY <2>2 DEF OwnConn, Descriptors, TypeOK
    <3> QED
      BY <1>1, <1>6, <3>1
  <2>6. \A d \in Conns : pc'[d] \in Serving => req'[d].conn = d /\ Browser(d)' = from'[d]
    BY <1>1, <1>6, <2>2 DEF OwnConn, Serving, Handling, Browser
  <2> QED
    BY <1>1, <1>6, <2>2, <2>4, <2>5, <2>6 DEF OwnConn
<1> QED
  BY <1>5, <1>7, <1>8, <1>9, <1>10

LEMMA StartFront ==
  ASSUME FrontInv, NEW t \in Conns, Start(t)
  PROVE  FrontInv'
<1> USE DEF FrontInv, BaseInv
<1>1. /\ pc[t] = "new" /\ pc[t] \notin Serving /\ pc' = [pc EXCEPT ![t] = "reading"]
      /\ my' = [my EXCEPT ![t] = client_fd]
      /\ UNCHANGED <<fds, client_fd, from, unread, overrun, req, obj, username, setter, sessions, all_storages,
                     owner, freed, registered, cookie, astray, ended, mixed, crossed>>
  BY DEF Start, Serving, Handling, sessionVars
<1>2. client_fd \in Fds /\ client_fd # None
  BY <1>1 DEF Descriptors, TypeOK
<1>3. overrun \in BOOLEAN /\ overrun' \in BOOLEAN
  BY <1>1 DEF TypeOK
<1>4. Storing' /\ Alone' /\ OwnName' /\ Signed'
  BY <1>1, <1>3, OutsideHandlers
<1>5. /\ pc'[t] = "reading" /\ \A d \in Conns \ {t} : pc'[d] = pc[d]
      /\ my'[t] = client_fd /\ \A d \in Conns \ {t} : my'[d] = my[d]
  BY <1>1 DEF TypeOK
<1>6. TypeOK'
  <2>1. /\ my' \in [Conns -> Fds \cup {None}]
        /\ pc' \in [Conns -> Handling \cup {"none", "new", "reading", "begin", "close", "done"}]
    BY <1>1, <1>2 DEF TypeOK
  <2> QED
    BY <1>1, <2>1 DEF TypeOK, Storages
<1>7. Descriptors'
  BY <1>1, <1>2, <1>5 DEF Descriptors, Serving, Handling, TypeOK
<1>8. Requests'
  BY <1>1, <1>5 DEF Requests, Serving, Handling, Kind
<1>9. OwnConn'
  BY <1>1, <1>2, <1>5 DEF OwnConn, Serving, Handling, Browser
<1> QED
  BY <1>4, <1>6, <1>7, <1>8, <1>9

LEMMA ReadFront ==
  ASSUME FrontInv, NEW t \in Conns, Read(t)
  PROVE  FrontInv'
<1> USE DEF FrontInv, BaseInv
<1> DEFINE c == fds[my[t]]
<1>1. /\ pc[t] = "reading" /\ pc[t] \notin Serving
      /\ UNCHANGED <<fds, client_fd, from, my, overrun, obj, username, setter, sessions, all_storages, owner,
                     freed, registered, cookie, astray, ended, mixed, crossed>>
  BY DEF Read, Serving, Handling, sessionVars
<1>2. my[t] \in Fds /\ my[t] # None /\ c \in Conns \cup {None}
  BY <1>1 DEF Descriptors, TypeOK
<1>3. overrun \in BOOLEAN /\ overrun' \in BOOLEAN
  BY <1>1 DEF TypeOK
<1>4. PICK p \in {"begin", "close"}, k \in Kinds :
        /\ pc' = [pc EXCEPT ![t] = p]
        /\ unread' \subseteq unread
        /\ p = "begin" => c # None /\ req' = [req EXCEPT ![t] =
             [conn |-> c, browser |-> from[c], kind |-> k, cookie |-> cookie[from[c]]]]
        /\ p = "close" => req' = req
  <2>1. CASE /\ c # None /\ c \in unread
             /\ \E k \in Kinds :
                  req' = [req EXCEPT ![t] =
                            [conn |-> c, browser |-> from[c], kind |-> k, cookie |-> cookie[from[c]]]]
             /\ unread' = unread \ {c}
             /\ pc' = [pc EXCEPT ![t] = "begin"]
    BY <2>1
  <2>2. CASE pc' = [pc EXCEPT ![t] = "close"] /\ UNCHANGED <<req, unread>>
    BY <2>2 DEF Kinds
  <2> QED
    BY <2>1, <2>2 DEF Read
<1>5. p = "begin" => c \in Conns /\ from[c] \in Users /\ cookie[from[c]] \in Users \cup {None}
  BY <1>2, <1>4 DEF Descriptors, TypeOK
<1>6. ~overrun => c = t
  BY <1>1, <1>2 DEF OwnConn
<1> HIDE DEF c
<1>7. /\ pc'[t] = p /\ \A d \in Conns \ {t} : pc'[d] = pc[d] /\ req'[d] = req[d]
      /\ p = "begin" => /\ req'[t] \in Request /\ req'[t].conn = c
                        /\ Browser(t)' = from[c] /\ Cookie(t)' = cookie[from[c]]
      /\ req' \in [Conns -> Request \cup {None}]
  <2>1. pc'[t] = p /\ \A d \in Conns \ {t} : pc'[d] = pc[d]
    BY <1>4 DEF TypeOK
  <2>2. CASE p = "begin"
    <3> DEFINE r == [conn |-> c, browser |-> from[c], kind |-> k, cookie |-> cookie[from[c]]]
    <3>1. req' = [req EXCEPT ![t] = r]
      BY <1>4, <2>2
    <3>2. r \in Request
      BY <1>5, <2>2 DEF Request
    <3>3. r.conn = c /\ r.browser = from[c] /\ r.cookie = cookie[from[c]]
      OBVIOUS
    <3> HIDE DEF r
    <3>4. req'[t] = r /\ \A d \in Conns \ {t} : req'[d] = req[d]
      BY <3>1 DEF TypeOK
    <3>5. req' \in [Conns -> Request \cup {None}]
      BY <3>1, <3>2 DEF TypeOK
    <3> QED
      BY <2>1, <3>2, <3>3, <3>4, <3>5 DEF Browser, Cookie
  <2>3. CASE p = "close"
    BY <1>4, <2>1, <2>3 DEF TypeOK
  <2> QED
    BY <2>2, <2>3
<1>8. p = "begin" => Cookie(t)' = cookie[Browser(t)'] /\ Browser(t)' \in Users
  BY <1>5, <1>7
<1>9. Storing' /\ Alone' /\ OwnName' /\ Signed'
  BY <1>1, <1>3, <1>4, <1>7, <1>8, OutsideHandlers
<1>10. TypeOK'
  <2>1. /\ pc' \in [Conns -> Handling \cup {"none", "new", "reading", "begin", "close", "done"}]
        /\ unread' \subseteq Conns
    BY <1>4 DEF TypeOK
  <2> QED
    BY <1>1, <1>7, <2>1 DEF TypeOK, Storages
<1>11. Descriptors'
  BY SMTT(20), <1>1, <1>2, <1>7 DEF Descriptors, Serving, Handling, TypeOK
<1>12. Requests'
  BY <1>1, <1>7 DEF Requests, Serving, Handling, Kind
<1>13. OwnConn'
  <2>1. SUFFICES ASSUME ~overrun'
                 PROVE  OwnConn'
    BY DEF OwnConn
  <2>2. ~overrun /\ c = t
    BY <1>1, <1>6, <2>1
  <2>3. \A d \in Conns : pc'[d] \in Serving => req'[d].conn = d /\ Browser(d)' = from'[d]
    <3>1. \A d \in Conns \ {t} : pc'[d] \in Serving => req'[d].conn = d /\ Browser(d)' = from'[d]
      BY <1>1, <1>7, <2>2 DEF OwnConn, Browser
    <3>2. pc'[t] \in Serving => req'[t].conn = t /\ Browser(t)' = from'[t]
      BY <1>1, <1>7, <2>2 DEF Serving, Handling
    <3> QED
      BY <3>1, <3>2
  <2>4. \A f \in Fds : fds'[f] # None => pc'[fds'[f]] # "done"
    BY <1>1, <1>4, <1>7, <2>2 DEF OwnConn, TypeOK
  <2>5. \A d \in Conns : pc'[d] = "new" => pc[d] = "new"
    BY <1>7
  <2> QED
    BY <1>1, <2>2, <2>3, <2>4, <2>5 DEF OwnConn
<1> QED
  BY <1>9, <1>10, <1>11, <1>12, <1>13

LEMMA CloseFront ==
  ASSUME FrontInv, NEW t \in Conns, Close(t)
  PROVE  FrontInv'
<1> USE DEF FrontInv, BaseInv
<1>1. /\ pc[t] = "close" /\ pc[t] \notin Serving /\ pc' = [pc EXCEPT ![t] = "done"]
      /\ fds' = [fds EXCEPT ![my[t]] = None]
      /\ my' = [my EXCEPT ![t] = None] /\ req' = [req EXCEPT ![t] = None] /\ obj' = [obj EXCEPT ![t] = None]
      /\ from' = [c \in Conns |-> IF \E f \in Fds : fds'[f] = c THEN from[c] ELSE None]
      /\ UNCHANGED <<client_fd, unread, overrun, username, setter, sessions, all_storages, owner,
                     freed, registered, cookie, astray, ended, mixed, crossed>>
  BY DEF Close, CloseFd, Goto, Serving, Handling, sessionVars
<1>2. my[t] \in Fds
  BY <1>1 DEF Descriptors, TypeOK
<1>3. overrun \in BOOLEAN /\ overrun' \in BOOLEAN
  BY <1>1 DEF TypeOK
<1>4. /\ pc'[t] = "done" /\ my'[t] = None
      /\ \A d \in Conns \ {t} : pc'[d] = pc[d] /\ my'[d] = my[d] /\ req'[d] = req[d] /\ obj'[d] = obj[d]
      /\ fds'[my[t]] = None /\ \A g \in Fds \ {my[t]} : fds'[g] = fds[g]
      /\ \A f \in Fds : fds'[f] \in Conns => from'[fds'[f]] = from[fds'[f]]
  BY <1>1, <1>2 DEF TypeOK
<1>5. Storing' /\ Alone' /\ OwnName' /\ Signed'
  BY <1>1, <1>3, <1>4, OutsideHandlers
<1>6. TypeOK'
  <2>1. /\ pc' \in [Conns -> Handling \cup {"none", "new", "reading", "begin", "close", "done"}]
        /\ fds' \in [Fds -> Conns \cup {None}] /\ from' \in [Conns -> Users \cup {None}]
        /\ my' \in [Conns -> Fds \cup {None}] /\ req' \in [Conns -> Request \cup {None}]
        /\ obj' \in [Conns -> Storages \cup {None}]
    BY <1>1, <1>2 DEF TypeOK
  <2> QED
    BY <1>1, <2>1 DEF TypeOK, Storages
<1>7. \A f \in Fds : fds'[f] # None => /\ f # my[t] /\ fds'[f] = fds[f] /\ fds[f] \in Conns
                                       /\ from'[fds'[f]] = from[fds[f]]
  BY <1>2, <1>4 DEF TypeOK
<1>8. Descriptors'
  <2>1. \A f \in Fds : fds'[f] # None => pc'[fds'[f]] # "none" /\ from'[fds'[f]] \in Users
    BY <1>4, <1>7 DEF Descriptors
  <2>2. \A d \in Conns : my'[d] # None <=> pc'[d] \in Serving \cup {"reading", "close"}
    BY <1>1, <1>4 DEF Descriptors, Serving, Handling
  <2>3. \A f, g \in Fds : fds'[f] # None /\ fds'[f] = fds'[g] => f = g
    BY <1>7 DEF Descriptors
  <2>4. \A d \in Conns : pc'[d] = "new" => client_fd' # None
    BY <1>1, <1>4 DEF Descriptors
  <2> QED
    BY <2>1, <2>2, <2>3, <2>4 DEF Descriptors
<1>9. Requests'
  BY <1>1, <1>4 DEF Requests, Serving, Handling, Kind
<1>10. OwnConn'
  <2>1. SUFFICES ASSUME ~overrun'
                 PROVE  OwnConn'
    BY DEF OwnConn
  <2>2. ~overrun /\ fds[my[t]] = t /\ my[t] # None
    BY <1>1, <2>1, <1>2 DEF OwnConn, Descriptors
  <2>3. \A d \in Conns \ {t} : my[d] # None => my[d] \in Fds /\ fds[my[d]] = d /\ fds'[my[d]] = d
    BY <1>4, <2>2 DEF OwnConn, TypeOK
  <2>4. \A d \in Conns : pc'[d] = "new" => fds'[client_fd'] = d
    BY <1>1, <1>4, <2>2 DEF OwnConn, Descriptors, TypeOK
  <2>5. \A f \in Fds : fds'[f] # None => fds[f] # t
    BY <1>2, <1>7, <2>2 DEF Descriptors
  <2>6. \A f \in Fds : fds'[f] # None => pc'[fds'[f]] # "done"
    BY <1>4, <1>7, <2>2, <2>5 DEF OwnConn
  <2>7. \A d \in Conns : pc'[d] \in Serving => req'[d].conn = d /\ Browser(d)' = from'[d]
    <3>1. \A d \in Conns : pc'[d] \in Serving => d # t /\ pc[d] \in Serving /\ my[d] # None
      BY <1>4 DEF Serving, Handling, Descriptors
    <3>2. \A d \in Conns \ {t} : my[d] # None => from'[d] = from[d]
      BY <1>4, <2>3
    <3> QED
      BY <1>4, <2>2, <3>1, <3>2 DEF OwnConn, Browser
  <2> QED
    BY <1>1, <1>4, <2>2, <2>3, <2>4, <2>6, <2>7 DEF OwnConn
<1> QED
  BY <1>5, <1>6, <1>8, <1>9, <1>10

LEMMA StutterFront ==
  ASSUME FrontInv, UNCHANGED vars
  PROVE  FrontInv'
BY DEF vars, connVars, sessionVars, FrontInv, BaseInv, TypeOK, Descriptors, Requests, Storing, Alone, OwnConn,
       OwnName, Signed, KnownUsers, SigningUp, HasStorage, Finds, SessionStorage, Storages, Kind, Browser, Cookie

LEMMA NextFront == FrontInv /\ [Next]_vars => FrontInv'
<1> SUFFICES ASSUME FrontInv, [Next]_vars PROVE FrontInv'
  OBVIOUS
<1>1. ASSUME NEW c \in Conns, NEW b \in Users, Accept(c, b) PROVE FrontInv'
  BY <1>1, AcceptFront
<1>2. ASSUME NEW t \in Conns, Handler(t) PROVE FrontInv'
  <2>1. CASE Start(t) \/ Read(t) \/ Close(t)
    BY <2>1, StartFront, ReadFront, CloseFront
  <2>2. CASE BeginPage(t) \/ BeginAct(t) \/ BeginSignin(t) \/ BeginSignup(t) \/ BeginLogout(t)
    BY <2>2, BeginPageFront, BeginActFront, BeginSigninFront, BeginSignupFront, BeginLogoutFront
  <2>3. CASE SigninInsert(t) \/ AddSession(t) \/ Register(t) \/ SignupInsert(t)
    BY <2>3, SigninInsertFront, AddSessionFront, RegisterFront, SignupInsertFront
  <2>4. CASE Lookup(t) \/ UseStorage(t) \/ DeleteStorage(t) \/ EraseStorage(t)
    BY <2>4, LookupFront, UseStorageFront, DeleteStorageFront, EraseStorageFront
  <2>5. CASE Welcome(t) \/ Reply(t)
    BY <2>5, WelcomeFront, ReplyFront
  <2> QED
    BY <1>2, <2>1, <2>2, <2>3, <2>4, <2>5 DEF Handler
<1>3. CASE UNCHANGED vars
  BY <1>3, StutterFront
<1> QED
  BY <1>1, <1>2, <1>3 DEF Next

-----------------------------------------------------------------------------
(* The invariant of the front end: who has which descriptor, whose name is *)
(* used, and which Storages are in the table.                              *)
THEOREM FrontInvariance == Spec => []FrontInv
BY InitFront, NextFront, PTL DEF Spec

(* A request works on the files of the user whose browser sent it, and a   *)
(* browser's cookie names its own user, unless two browsers' requests or   *)
(* two accepted connections overlapped in the global variables.            *)
THEOREM FrontOwnStorage == Spec => []OwnStorage
<1>1. FrontInv => OwnStorage
  BY DEF FrontInv, OwnName, OwnStorage
<1> QED
  BY <1>1, FrontInvariance, PTL

(* Log-out, unless it overlaps another request, leaves no deleted Storage  *)
(* in use or in the table; and a session, on the conditions of             *)
(* FrontOwnStorage, has a Storage, so that no page meets a null pointer.   *)
THEOREM FrontLiveStorage == Spec => []LiveStorage
<1>1. ASSUME FrontInv PROVE LiveStorage
  <2>1. ~crossed => /\ \A t \in Conns : pc[t] = "using" => obj[t] \notin freed
                    /\ \A u \in Users : all_storages[u] \in freed => \E t \in Conns : pc[t] = "erase"
    BY <1>1 DEF FrontInv, Alone
  <2>2. ~mixed /\ ~overrun /\ ~crossed =>
          /\ \A u \in sessions :
               all_storages[u] # None \/ \E t \in Conns : pc[t] = "insert2" /\ Browser(t) = u
          /\ ended # "page"
    BY <1>1 DEF FrontInv, Signed, SessionStorage
  <2> QED
    BY <2>1, <2>2 DEF LiveStorage
<1> QED
  BY <1>1, FrontInvariance, PTL

(* Unless a connection is accepted before the last thread has copied       *)
(* client_fd, every reply reaches the browser whose request it answers,    *)
(* and every open descriptor has one thread that will close it.            *)
THEOREM FrontOwnAnswer == Spec => []OwnAnswer
<1>1. ASSUME FrontInv PROVE OwnAnswer
  <2>1. SUFFICES ASSUME ~overrun
                 PROVE  OwnAnswer
    BY DEF OwnAnswer
  <2>2. astray = {}
    BY <1>1, <2>1 DEF FrontInv, OwnConn
  <2>3. ASSUME NEW f \in Fds, fds[f] # None
        PROVE  /\ pc[fds[f]] # "done"
               /\ IF pc[fds[f]] = "new" THEN client_fd = f ELSE my[fds[f]] = f
               /\ \A t \in Conns \ {fds[f]} : my[t] # f
    <3> DEFINE c == fds[f]
    <3>1. c \in Conns /\ pc[c] # "none" /\ pc[c] # "done"
      BY <1>1, <2>1, <2>3 DEF FrontInv, BaseInv, TypeOK, Descriptors, OwnConn
    <3>2. f # None
      BY FrontendAssumption DEF Fds
    <3>3. \A t \in Conns : my[t] # None => my[t] \in Fds /\ fds[my[t]] = t
      BY <1>1, <2>1 DEF FrontInv, BaseInv, TypeOK, OwnConn
    <3>4. CASE pc[c] = "new"
      <4>1. client_fd \in Fds /\ fds[client_fd] = c
        BY <1>1, <2>1, <3>1, <3>4 DEF FrontInv, BaseInv, TypeOK, Descriptors, OwnConn
      <4> QED
        BY <1>1, <2>3, <3>1, <3>2, <3>3, <3>4, <4>1 DEF FrontInv, BaseInv, Descriptors
    <3>5. CASE pc[c] # "new"
      <4>1. my[c] # None
        BY <1>1, <3>1, <3>5 DEF FrontInv, BaseInv, Descriptors, TypeOK, Serving
      <4>2. my[c] = f
        BY <1>1, <2>3, <3>1, <3>3, <4>1 DEF FrontInv, BaseInv, Descriptors
      <4> QED
        BY <3>1, <3>2, <3>3, <3>5, <4>2
    <3> QED
      BY <3>4, <3>5
  <2> QED
    BY <2>2, <2>3 DEF OwnAnswer
<1> QED
  BY <1>1, FrontInvariance, PTL
=============================================================================
