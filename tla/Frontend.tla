------------------------------ MODULE Frontend ------------------------------
(***************************************************************************)
(* One front end process (frontendServer/frontend.cc, request.cc and the   *)
(* session handling of response.cc): a thread per connection, and global   *)
(* variables that all threads use without a lock - the name of the current *)
(* user, the table of sessions and the table of Storage objects.           *)
(*                                                                         *)
(* A request is one of                                                     *)
(*   page    a page that looks at the cookie first (/files, /upload ...)   *)
(*   act     a request that does not (/opendir, /delete, /back, /rename,   *)
(*           /filemove, a new file or folder): it works on the Storage of  *)
(*           whoever "username" names                                      *)
(*   signin, signup, logout.                                               *)
(* What a Storage then does is module Drive; here it is an object that is  *)
(* created for a user, looked up, used and deleted.                        *)
(*                                                                         *)
(* The three history variables say which schedules the properties set      *)
(* aside: "overrun", "mixed" and "crossed".                                *)
(***************************************************************************)
EXTENDS Naturals, Sequences, FiniteSets

CONSTANTS Users,        \* each user has one browser, with any number of tabs
          MaxRequests,  \* bound on the connections
          MaxThreads,   \* bound on the threads that run at a time
          None

Conns == 1 .. MaxRequests
Fds   == 1 .. MaxRequests
Kinds == {"page", "act", "signin", "signup", "logout"}

ASSUME FrontendAssumption ==
  /\ IsFiniteSet(Users)
  /\ None \notin Users /\ None \notin Nat /\ None \notin Kinds
  /\ MaxRequests \in Nat /\ MaxThreads \in Nat

VARIABLES
  fds,        \* the connection behind each open descriptor
  client_fd,  \* the variable of main whose address the threads are given
  from,       \* the browser at the other end of each open connection
  unread,     \* connections on which no request has been read yet
  pc, my, req,\* of each thread: its place, its descriptor, the request it read
  obj,        \* its Storage pointer
  username, sessions, all_storages,  \* the global variables of response.cc
  owner,      \* the user each Storage was created for
  freed,      \* deleted Storages
  registered, \* users in the back end
  cookie,     \* the cookie "username" of each browser
  astray,     \* <<c, d>>: the reply to the request of c was sent on connection d
  ended,      \* the kind of the request that ended the process, or None
  setter,     \* the browser whose request assigned "username" last
  overrun,    \* a connection was accepted before the last thread had copied client_fd
  mixed,      \* a request used "username" after another browser's had assigned it
  crossed     \* a log-out overlapped another request

connVars    == <<fds, client_fd, from, unread, my, req, overrun>>
sessionVars == <<username, sessions, all_storages, owner, freed, registered, setter>>
vars == <<connVars, pc, obj, sessionVars, cookie, astray, ended, mixed, crossed>>

Storages == 1 .. Len(owner)
Request  == [conn : Conns, browser : Users, kind : Kinds, cookie : Users \cup {None}]
Handling == {"use", "using", "register", "insert", "session", "session2", "insert2", "welcome",
             "reply", "delete", "erase"}

(* The type of every variable of the front end.                            *)
TypeOK ==
  /\ fds \in [Fds -> Conns \cup {None}]
  /\ client_fd \in Fds \cup {None}
  /\ from \in [Conns -> Users \cup {None}]
  /\ unread \subseteq Conns
  /\ pc \in [Conns -> Handling \cup {"none", "new", "reading", "begin", "close", "done"}]
  /\ my \in [Conns -> Fds \cup {None}]
  /\ req \in [Conns -> Request \cup {None}]
  /\ obj \in [Conns -> Storages \cup {None}]
  /\ username \in Users \cup {None} /\ setter \in Users \cup {None}
  /\ sessions \subseteq Users /\ registered \subseteq Users
  /\ all_storages \in [Users -> Storages \cup {None}]
  /\ owner \in Seq(Users)
  /\ freed \subseteq Storages
  /\ cookie \in [Users -> Users \cup {None}]
  /\ astray \subseteq Conns \X Conns
  /\ ended \in Kinds \cup {None}
  /\ {overrun, mixed, crossed} \subseteq BOOLEAN

(* Some of the registered users, one after the other, have signed in.      *)
Init ==
  /\ registered \in SUBSET Users
  /\ sessions \in SUBSET registered
  /\ owner \in {s \in [1 .. Cardinality(sessions) -> sessions] :
                  \A u \in sessions : \E n \in DOMAIN s : s[n] = u}
  /\ all_storages = [u \in Users |->
                       IF u \in sessions THEN CHOOSE n \in DOMAIN owner : owner[n] = u ELSE None]
  /\ cookie = [u \in Users |-> IF u \in sessions THEN u ELSE None]
  /\ username = (IF owner = <<>> THEN None ELSE owner[Len(owner)])
  /\ setter = username
  /\ freed = {} /\ astray = {} /\ unread = {}
  /\ fds = [f \in Fds |-> None] /\ client_fd = None
  /\ from = [c \in Conns |-> None]
  /\ pc = [c \in Conns |-> "none"]
  /\ my = [c \in Conns |-> None] /\ req = [c \in Conns |-> None]
  /\ obj = [c \in Conns |-> None]
  /\ ended = None
  /\ overrun = FALSE /\ mixed = FALSE /\ crossed = FALSE

(***************************************************************************)
(* The accept loop.  accept returns the lowest free descriptor; the thread *)
(* is given the address of client_fd.                                      *)
(***************************************************************************)
LowestFree == CHOOSE f \in Fds : fds[f] = None /\ \A g \in Fds : fds[g] = None => f <= g

Accept(c, b) ==
  /\ pc[c] = "none" /\ \A d \in Conns : d < c => pc[d] # "none"
  /\ Cardinality({d \in Conns : pc[d] \notin {"none", "done"}}) < MaxThreads
  /\ fds' = [fds EXCEPT ![LowestFree] = c]
  /\ client_fd' = LowestFree
  /\ from' = [from EXCEPT ![c] = b]
  /\ unread' = unread \cup {c}
  /\ pc' = [pc EXCEPT ![c] = "new"]
  /\ overrun' = (overrun \/ \E d \in Conns : pc[d] = "new")
  /\ UNCHANGED <<my, req, obj, sessionVars, cookie, astray, ended, mixed, crossed>>

(* handle_connection: int client_fd = *(int * )arg.                        *)
Start(t) ==
  /\ pc[t] = "new"
  /\ my' = [my EXCEPT ![t] = client_fd]
  /\ pc' = [pc EXCEPT ![t] = "reading"]
  /\ UNCHANGED <<fds, client_fd, from, unread, req, overrun, obj, sessionVars, cookie, astray,
                 ended, mixed, crossed>>

(* The constructor of request reads what the browser sends on the          *)
(* connection.  A read that finds nothing ends after the socket's time-out *)
(* or at end-of-file; the response then does nothing.                      *)
Read(t) ==
  LET c == fds[my[t]] IN
  /\ pc[t] = "reading"
  /\ \/ /\ c # None /\ c \in unread
        /\ \E k \in Kinds :
             req' = [req EXCEPT ![t] =
                       [conn |-> c, browser |-> from[c], kind |-> k, cookie |-> cookie[from[c]]]]
        /\ unread' = unread \ {c}
        /\ pc' = [pc EXCEPT ![t] = "begin"]
     \/ /\ c = None \/ c \notin unread
        /\ pc' = [pc EXCEPT ![t] = "close"]
        /\ UNCHANGED <<req, unread>>
  /\ UNCHANGED <<fds, client_fd, from, my, overrun, obj, sessionVars, cookie, astray,
                 ended, mixed, crossed>>

(***************************************************************************)
(* The handlers.                                                           *)
(***************************************************************************)
Browser(t) == req[t].browser
Kind(t)    == req[t].kind
Cookie(t)  == req[t].cookie

Goto(t, place) == pc' = [pc EXCEPT ![t] = place]

(* The request of t uses the global variable "username" in this step.      *)
UsesName(t) == mixed' = (mixed \/ setter # Browser(t))

Assign(t, u) == username' = u /\ setter' = Browser(t)

(* Another request is being handled and one of the two is a log-out.       *)
Crosses(t) ==
  crossed' = (crossed \/ \E d \in Conns \ {t} :
                pc[d] \in Handling /\ "logout" \in {Kind(d), Kind(t)})

HasSession(t) == Cookie(t) \in sessions

(* MUTANT: "username" becomes the user of any session.                     *)
LoggedIn_Any(t) == HasSession(t) /\ \E u \in sessions : Assign(t, u)

(* is_logged_in: the cookie names a session; "username" becomes its user.  *)
LoggedIn(t) == HasSession(t) /\ Assign(t, Cookie(t))

(* /files works on the Storage; the other pages only show the name.        *)
BeginPage(t) ==
  /\ pc[t] = "begin" /\ Kind(t) = "page"
  /\ \/ LoggedIn(t) /\ \E place \in {"use", "welcome"} : Goto(t, place)
     \/ ~HasSession(t) /\ Goto(t, "reply") /\ UNCHANGED <<username, setter>>
  /\ Crosses(t)
  /\ UNCHANGED <<connVars, obj, sessions, all_storages, owner, freed, registered, cookie, astray,
                 ended, mixed>>

BeginAct(t) ==
  /\ pc[t] = "begin" /\ Kind(t) = "act"
  /\ Goto(t, "use")
  /\ Crosses(t)
  /\ UNCHANGED <<connVars, obj, sessionVars, cookie, astray, ended, mixed>>

(* handle_signin, handle_signup: the name in the form becomes "username"   *)
(* before the back end is asked, and a Storage is created for it.          *)
NewStorage(t) ==
  /\ Assign(t, Browser(t))
  /\ owner' = Append(owner, Browser(t))
  /\ obj' = [obj EXCEPT ![t] = Len(owner')]

BeginSignin(t) ==
  /\ pc[t] = "begin" /\ Kind(t) = "signin"
  /\ \/ LoggedIn(t) /\ Goto(t, "welcome") /\ UNCHANGED <<owner, obj>>
     \/ ~HasSession(t) /\ NewStorage(t) /\ Goto(t, "insert")
  /\ Crosses(t)
  /\ UNCHANGED <<connVars, sessions, all_storages, freed, registered, cookie, astray,
                 ended, mixed>>

BeginSignup(t) ==
  /\ pc[t] = "begin" /\ Kind(t) = "signup"
  /\ NewStorage(t)
  /\ Goto(t, "register")
  /\ Crosses(t)
  /\ UNCHANGED <<connVars, sessions, all_storages, freed, registered, cookie, astray,
                 ended, mixed>>

(* all_storages.insert keeps the Storage that is there.                    *)
Insert(t) ==
  all_storages' = IF all_storages[username] = None
                    THEN [all_storages EXCEPT ![username] = obj[t]]
                    ELSE all_storages

(* sign_in succeeds for a registered user with the right password, and     *)
(* only the table of Storages is changed here; the session comes next.     *)
SigninInsert(t) ==
  /\ pc[t] = "insert"
  /\ UsesName(t)
  /\ \/ /\ Browser(t) \in registered
        /\ Insert(t)
        /\ Goto(t, "session")
     \/ /\ Goto(t, "reply")
        /\ UNCHANGED all_storages
  /\ UNCHANGED <<connVars, obj, username, sessions, owner, freed, registered, setter, cookie,
                 astray, ended, crossed>>

AddSession(t) ==
  /\ pc[t] \in {"session", "session2"}
  /\ UsesName(t)
  /\ sessions' = sessions \cup {username}
  /\ Goto(t, IF pc[t] = "session" THEN "welcome" ELSE "insert2")
  /\ UNCHANGED <<connVars, obj, username, all_storages, owner, freed, registered, setter,
                 cookie, astray, ended, crossed>>

(* resgister: refused if the name is taken.                                *)
Register(t) ==
  /\ pc[t] = "register"
  /\ \/ /\ Browser(t) \notin registered
        /\ registered' = registered \cup {Browser(t)}
        /\ Goto(t, "session2")
        /\ UNCHANGED freed
     \/ /\ Browser(t) \in registered
        /\ freed' = freed \cup {obj[t]}
        /\ Goto(t, "reply")
        /\ UNCHANGED registered
  /\ UNCHANGED <<connVars, obj, username, sessions, all_storages, owner, setter, cookie, astray,
                 ended, mixed, crossed>>

SignupInsert(t) ==
  /\ pc[t] = "insert2"
  /\ UsesName(t)
  /\ Insert(t)
  /\ Goto(t, "welcome")
  /\ UNCHANGED <<connVars, obj, username, sessions, owner, freed, registered, setter, cookie,
                 astray, ended, crossed>>

(* all_storages[username]: a name without Storage gives a null pointer.    *)
Lookup(t) ==
  /\ pc[t] = "use"
  /\ UsesName(t)
  /\ LET s == IF username = None THEN None ELSE all_storages[username] IN
       \/ /\ s = None
          /\ ended' = Kind(t)
          /\ UNCHANGED <<obj, pc>>
       \/ /\ s # None
          /\ obj' = [obj EXCEPT ![t] = s]
          /\ Goto(t, "using")
          /\ UNCHANGED ended
  /\ UNCHANGED <<connVars, sessionVars, cookie, astray, crossed>>

(* The Storage is used, for as long as its requests to the back end take.  *)
(* Some of the requests without a look at the cookie do not set it either. *)
UseStorage(t) ==
  /\ pc[t] = "using"
  /\ \/ Goto(t, "welcome")
     \/ Kind(t) = "act" /\ Goto(t, "reply")
  /\ UNCHANGED <<connVars, obj, sessionVars, cookie, astray, ended, mixed, crossed>>

(* Log-out: the session goes first, then the reply is sent, then the       *)
(* Storage is deleted and its entry erased.                                *)
BeginLogout(t) ==
  /\ pc[t] = "begin" /\ Kind(t) = "logout"
  /\ UsesName(t)
  /\ sessions' = sessions \ {username}
  /\ Goto(t, "reply")
  /\ Crosses(t)
  /\ UNCHANGED <<connVars, obj, username, all_storages, owner, freed, registered, setter,
                 cookie, astray, ended>>

(* delete all_storages[username] does nothing for a null pointer.          *)
DeleteStorage(t) ==
  /\ pc[t] = "delete"
  /\ UsesName(t)
  /\ freed' = IF username = None THEN freed ELSE freed \cup ({all_storages[username]} \ {None})
  /\ Goto(t, "erase")
  /\ UNCHANGED <<connVars, obj, username, sessions, all_storages, owner, registered, setter,
                 cookie, astray, ended, crossed>>

(* MUTANT: the entry of the deleted Storage is kept.                       *)
Erase_Kept == UNCHANGED all_storages

Erase ==
  all_storages' = IF username = None THEN all_storages ELSE [all_storages EXCEPT ![username] = None]

EraseStorage(t) ==
  /\ pc[t] = "erase"
  /\ UsesName(t)
  /\ Erase
  /\ Goto(t, "close")
  /\ UNCHANGED <<connVars, obj, username, sessions, owner, freed, registered, setter, cookie,
                 astray, ended, crossed>>

(***************************************************************************)
(* The reply goes to whatever is behind the descriptor now.  "welcome" is  *)
(* a reply whose Set-Cookie names the current "username".                  *)
(***************************************************************************)
Write(t) ==
  LET d == fds[my[t]] IN
  astray' = IF d \in {None, req[t].conn} THEN astray ELSE astray \cup {<<req[t].conn, d>>}

Welcome(t) ==
  /\ pc[t] = "welcome"
  /\ Write(t)
  /\ UsesName(t)
  /\ cookie' = IF fds[my[t]] = None THEN cookie
               ELSE [cookie EXCEPT ![from[fds[my[t]]]] = username]
  /\ Goto(t, "close")
  /\ UNCHANGED <<connVars, obj, sessionVars, ended, crossed>>

Reply(t) ==
  /\ pc[t] = "reply"
  /\ Write(t)
  /\ Goto(t, IF Kind(t) = "logout" THEN "delete" ELSE "close")
  /\ UNCHANGED <<connVars, obj, sessionVars, cookie, ended, mixed, crossed>>

(* MUTANT: the descriptor is closed by its number's successor.             *)
CloseFd_Next(t) == fds' = [fds EXCEPT ![(my[t] % MaxRequests) + 1] = None]

CloseFd(t) == fds' = [fds EXCEPT ![my[t]] = None]

Close(t) ==
  /\ pc[t] = "close"
  /\ CloseFd(t)
  /\ Goto(t, "done")
  /\ my' = [my EXCEPT ![t] = None]
  /\ req' = [req EXCEPT ![t] = None]
  /\ obj' = [obj EXCEPT ![t] = None]
  /\ from' = [c \in Conns |-> IF \E f \in Fds : fds'[f] = c THEN from[c] ELSE None]
  /\ UNCHANGED <<client_fd, unread, overrun, sessionVars, cookie, astray, ended, mixed, crossed>>

Handler(t) ==
  /\ ended = None
  /\ \/ Start(t) \/ Read(t)
     \/ BeginPage(t) \/ BeginAct(t) \/ BeginSignin(t) \/ BeginSignup(t) \/ BeginLogout(t)
     \/ SigninInsert(t) \/ AddSession(t) \/ Register(t) \/ SignupInsert(t)
     \/ Lookup(t) \/ UseStorage(t) \/ DeleteStorage(t) \/ EraseStorage(t)
     \/ Welcome(t) \/ Reply(t) \/ Close(t)

Next ==
  \/ ended = None /\ \E c \in Conns, b \in Users : Accept(c, b)
  \/ \E t \in Conns : Handler(t)

Spec == Init /\ [][Next]_vars

-----------------------------------------------------------------------------
(* A request works on the files of the user whose browser sent it, and a   *)
(* browser's cookie names its own user, as long as no request of another   *)
(* user assigns "username" in between.                                     *)
OwnStorage ==
  ~mixed /\ ~overrun =>
    /\ \A t \in Conns : pc[t] = "using" => owner[obj[t]] = Browser(t)
    /\ \A b \in Users : cookie[b] \in {b, None}

(* Unless a log-out overlapped another request: a Storage that log-out has *)
(* deleted is not used and cannot be found any more; and, under the        *)
(* conditions of OwnStorage, whoever has a session has a Storage, a        *)
(* sign-up between its two steps set aside, so that the pages that look at *)
(* the cookie never meet a null pointer.                                   *)
LiveStorage ==
  ~crossed =>
    /\ \A t \in Conns : pc[t] = "using" => obj[t] \notin freed
    /\ \A u \in Users : all_storages[u] \in freed => \E t \in Conns : pc[t] = "erase"
    /\ ~mixed /\ ~overrun =>
         /\ \A u \in sessions :
              all_storages[u] # None \/ \E t \in Conns : pc[t] = "insert2" /\ Browser(t) = u
         /\ ended # "page"

(* Unless two connections were accepted before a thread copied client_fd:  *)
(* a reply reaches the browser whose request it answers, and every open    *)
(* connection has a thread that will close it, and no other one will, so   *)
(* no browser is left waiting and no descriptor leaks.                     *)
OwnAnswer ==
  ~overrun =>
    /\ astray = {}
    /\ \A f \in Fds : fds[f] # None =>
         LET c == fds[f] IN
         /\ pc[c] # "done"
         /\ IF pc[c] = "new" THEN client_fd = f ELSE my[c] = f
         /\ \A t \in Conns \ {c} : my[t] # f
=============================================================================
