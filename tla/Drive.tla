-------------------------------- MODULE Drive --------------------------------
(***************************************************************************)
(* The file storage (storage/Storage.cc) and the pages that call it        *)
(* (frontendServer/response.cc), for one user who is signed in at several  *)
(* front ends.  A folder is one value of the key-value store, the list of  *)
(* its entries, and is changed by GET and CPUT in a loop; a file is its    *)
(* entry, its name and its content, written one after the other.           *)
(*                                                                         *)
(* The store is taken to be an atomic map that keeps what it acknowledged; *)
(* DataServer and Cluster say when it is.  A step is one request to it.    *)
(* When the primary dies, a request may or may not have been carried out.  *)
(* Then the Storage object connects to the new primary, sends the command  *)
(* again in a recursive call, and once more when that call returns.        *)
(***************************************************************************)
EXTENDS Naturals, Sequences, SequencesExt, FiniteSets

CONSTANTS
  Clients,     \* front ends at which the user is signed in
  NewNames,    \* names given by uploads, new folders and renames
  None,        \* "-ERR NULL"
  MaxEvents,   \* bound: requests of the users and deaths of the primary
  MaxCrashes   \* bound: deaths of the primary

Root == 0                      \* the id "storage"
Ids == 0 .. MaxEvents + 2
Names == NewNames \cup {"storage", "d", "f"}

\* "-ERR NULL" is neither a password nor the list of a folder.
ASSUME DriveAssumption ==
  /\ IsFiniteSet(Clients)
  /\ None \notin Clients /\ None \notin Seq([id : Nat, name : Names, dir : BOOLEAN])
  /\ MaxEvents \in Nat /\ MaxCrashes \in Nat

VARIABLES
  kv,       \* password; id:content of folders (list), of files (body); id:name
  clock,    \* source of ids: the last id drawn
  pc, loc,  \* per client: the request it is about to send; locals
  path,     \* per client: Storage::path, as ids; <<>> before sign-in
  view,     \* per client: Storage::files_in_path
  again,    \* per client: how often the command will be sent again
  stale,    \* clients whose connection is to a dead primary
  crashes, ops,
  told      \* history: what was asked for and what was answered

vars == <<kv, clock, pc, loc, path, view, again, stale, crashes, ops, told>>

Entry(id, name, dir) == [id |-> id, name |-> name, dir |-> dir]

\* What a call keeps: the entry it is about, the folder it changes, the list it
\* read last, whether an entry was taken out, and a new name or target folder.
NoEntry == Entry(Root, "storage", TRUE)
NoLoc == [op |-> "none", e |-> NoEntry, at |-> Root, old |-> <<>>, found |-> FALSE,
          new |-> None, dest |-> Root]

\* unordered_map::insert in a loop: the first entry of a name stays.
View(list) == {list[i] : i \in {j \in DOMAIN list :
                 \A h \in 1 .. j - 1 : list[h].name # list[j].name}}

-----------------------------------------------------------------------------
\* Nobody has registered; or the user has a folder and a file, and is signed
\* in everywhere.
EmptyStore == [pw |-> None, list |-> [i \in Ids |-> None],
               body |-> [i \in Ids |-> None], name |-> [i \in Ids |-> None]]

SomeFiles == <<Entry(1, "d", TRUE), Entry(2, "f", FALSE)>>

Populated(c) == [pw |-> c,
                 list |-> [EmptyStore.list EXCEPT ![Root] = SomeFiles, ![1] = <<>>],
                 body |-> [EmptyStore.body EXCEPT ![2] = c],
                 name |-> [EmptyStore.name EXCEPT ![Root] = "storage", ![1] = "d", ![2] = "f"]]

NothingTold == [registered |-> {}, stored |-> {}, deleted |-> {}, movers |-> {},
                renames |-> {}, dropped |-> {}, resent |-> {}]

Init ==
  /\ \/ /\ kv = EmptyStore
        /\ clock = 0
        /\ path = [c \in Clients |-> <<>>]
        /\ view = [c \in Clients |-> {NoEntry}]
        /\ told = NothingTold
     \/ /\ \E c \in Clients :
             /\ kv = Populated(c)
             /\ told = [NothingTold EXCEPT !.stored = {[e |-> e, at |-> Root, by |-> c] : e \in View(SomeFiles)}]
        /\ clock = 2
        /\ path = [c \in Clients |-> <<Root>>]
        /\ view = [c \in Clients |-> View(SomeFiles)]
  /\ pc = [c \in Clients |-> "idle"]
  /\ loc = [c \in Clients |-> NoLoc]
  /\ again = [c \in Clients |-> 0]
  /\ stale = {}
  /\ crashes = 0
  /\ ops = 0

-----------------------------------------------------------------------------
(* Requests to the store *)

SameName(list, name) == \E i \in DOMAIN list : list[i].name = name

\* send_cput_command_delete: all entries but those with the id.
Without(list, id) ==
  LET kept[i \in 0 .. Len(list)] ==
        IF i = 0 THEN <<>>
        ELSE IF list[i].id = id THEN kept[i-1] ELSE Append(kept[i-1], list[i])
  IN  kept[Len(list)]

\* rename_file: every entry with the name of the file is rewritten, with the
\* kind that the file had on the page.
Renamed(list, e, new) ==
  [i \in DOMAIN list |-> IF list[i].name = e.name
                           THEN Entry(list[i].id, new, e.dir) ELSE list[i]]

\* What client c sends as the new list of a folder.
NewList(c) == LET l == loc[c] IN
  CASE pc[c] = "add"     -> Append(l.old, l.e)
    [] pc[c] = "remove"  -> Without(l.old, l.e.id)
    [] pc[c] = "renCput" -> Renamed(l.old, l.e, l.new)

CputPlaces == {"add", "remove", "renCput"}

\* MUTANT: the list is written whatever is there.
Matches_Put(c) == kv.list[loc[c].at] # None

\* CPUT of a folder's list finds the old list unchanged.
Matches(c) == kv.list[loc[c].at] = loc[c].old

\* The store after it has carried out the request that client c is sending.
Effect(c) == LET l == loc[c] IN
  CASE pc[c] \in CputPlaces /\ Matches(c) -> [kv EXCEPT !.list[l.at] = NewList(c)]
    [] pc[c] = "regCput" /\ kv.pw = None  -> [kv EXCEPT !.pw = c]
    [] pc[c] = "putName"  -> [kv EXCEPT !.name[l.e.id] = l.e.name]
    [] pc[c] = "renName"  -> [kv EXCEPT !.name[l.e.id] = l.new]
    [] pc[c] = "putBody"  -> IF l.e.dir THEN [kv EXCEPT !.list[l.e.id] = <<>>]
                                        ELSE [kv EXCEPT !.body[l.e.id] = c]
    [] pc[c] = "delName"  -> [kv EXCEPT !.name[l.e.id] = None]
    [] pc[c] = "delBody"  -> [kv EXCEPT !.list[l.e.id] = None, !.body[l.e.id] = None]
    [] OTHER -> kv

Waiting(c) == pc[c] \notin {"idle", "dead"}

\* The last time the command is sent: the answer to this one counts.
Answered(c, place) ==
  /\ pc[c] = place /\ c \notin stale /\ again[c] = 0
  /\ kv' = Effect(c)
  /\ UNCHANGED <<again, stale, crashes, ops>>

\* The recursive call has returned; the loop of the caller sends again.
SendAgain(c) ==
  /\ Waiting(c) /\ c \notin stale /\ again[c] > 0
  /\ kv' = Effect(c)
  /\ again' = [again EXCEPT ![c] = @ - 1]
  /\ UNCHANGED <<clock, pc, loc, path, view, stale, crashes, ops, told>>

\* "SERVER CRASH": server_recover, then the recursive call.
Reconnect(c) ==
  /\ Waiting(c) /\ c \in stale
  /\ stale' = stale \ {c}
  /\ again' = [again EXCEPT ![c] = @ + 1]
  /\ told' = IF pc[c] = "putBody" THEN [told EXCEPT !.resent = @ \cup {loc[c].e.id}] ELSE told
  /\ UNCHANGED <<kv, clock, pc, loc, path, view, crashes, ops>>

\* The primary carries out the request and dies before it has answered, or
\* dies while nobody is waiting for it.
Crash ==
  /\ crashes < MaxCrashes /\ ops + crashes < MaxEvents
  /\ crashes' = crashes + 1
  /\ stale' = Clients
  /\ \/ \E c \in Clients : Waiting(c) /\ c \notin stale /\ kv' = Effect(c)
     \/ UNCHANGED kv
  /\ UNCHANGED <<clock, pc, loc, path, view, again, ops, told>>

To(c, place, l) == pc' = [pc EXCEPT ![c] = place] /\ loc' = [loc EXCEPT ![c] = l]
Done(c) == To(c, "idle", NoLoc)

-----------------------------------------------------------------------------
(* Requests of the user: the handlers of response.cc up to the first request *)
(* to the store.                                                             *)

Begin(c, place, l) ==
  /\ pc[c] = "idle" /\ ops + crashes < MaxEvents
  /\ ops' = ops + 1
  /\ To(c, place, l)
  /\ UNCHANGED <<kv, clock, again, stale, crashes>>

SignedIn(c) == path[c] # <<>>
Here(c) == Last(path[c])

Signup(c) ==
  /\ ~SignedIn(c) /\ Begin(c, "regGet", [NoLoc EXCEPT !.op = "register"])
  /\ UNCHANGED <<path, view, told>>

Signin(c) ==
  /\ ~SignedIn(c)
  /\ \E p \in Clients : Begin(c, "signGet", [NoLoc EXCEPT !.op = "sign_in", !.new = p])
  /\ UNCHANGED <<path, view, told>>

\* handle_upload, handle_create_newfolder
NewFile(c) ==
  /\ SignedIn(c)
  /\ \E n \in NewNames, dir \in BOOLEAN :
       Begin(c, "newGet", [NoLoc EXCEPT !.op = "new", !.e = Entry(Root, n, dir), !.at = Here(c)])
  /\ UNCHANGED <<path, view, told>>

DeleteFile(c) ==
  /\ SignedIn(c)
  /\ \E e \in view[c] :
       /\ Begin(c, "delGet", [NoLoc EXCEPT !.op = "delete", !.e = e, !.at = Here(c)])
       /\ told' = [told EXCEPT !.deleted = @ \cup {e.id}]
  /\ UNCHANGED <<path, view>>

RenameFile(c) ==
  /\ SignedIn(c)
  /\ \E e \in view[c], n \in NewNames :
       /\ Begin(c, "renGet", [NoLoc EXCEPT !.op = "rename", !.e = e, !.at = Here(c), !.new = n])
       /\ told' = [told EXCEPT !.renames = @ \cup {<<Here(c), n>>}]
  /\ UNCHANGED <<path, view>>

\* The page offers the folders of this folder, other than the one to move
\* (get_accessible_movingPath).
MoveFile(c) ==
  /\ SignedIn(c)
  /\ \E e, d \in view[c] :
       /\ d.dir /\ d.name # e.name
       /\ Begin(c, "movGet", [NoLoc EXCEPT !.op = "move", !.e = e, !.at = Here(c), !.dest = d.id])
       /\ told' = [told EXCEPT !.movers = @ \cup {<<ops, e.id, d.id>>}]
  /\ UNCHANGED <<path, view>>

OpenFolder(c) ==
  /\ SignedIn(c)
  /\ \E e \in view[c] : e.dir /\ Begin(c, "open", [NoLoc EXCEPT !.op = "open", !.e = e])
  /\ UNCHANGED <<path, view, told>>

\* goBack cuts the path before it reads the folder.
GoBack(c) ==
  /\ SignedIn(c)
  /\ \E i \in 1 .. Len(path[c]) - 1 : path' = [path EXCEPT ![c] = SubSeq(@, 1, i)]
  /\ Begin(c, "reload", [NoLoc EXCEPT !.op = "back"])
  /\ UNCHANGED <<view, told>>

\* GET /files
Files(c) ==
  /\ SignedIn(c) /\ Begin(c, "page", [NoLoc EXCEPT !.op = "files"])
  /\ UNCHANGED <<path, view, told>>

-----------------------------------------------------------------------------
(* What ends a front end before the store has answered *)

End(c) ==
  /\ To(c, "dead", NoLoc)
  /\ UNCHANGED <<kv, clock, path, view, again, stale, crashes, told>>

\* files_in_path[name] of a name that the folder does not list, from a page
\* that is no longer up to date or is open a second time: open_folder,
\* delete_file, move_file and download_file dereference NULL.
StalePage(c) ==
  /\ SignedIn(c) /\ pc[c] = "idle" /\ ops + crashes < MaxEvents
  /\ \E n \in Names : \A e \in view[c] : e.name # n
  /\ ops' = ops + 1
  /\ End(c)

\* PUT writes twice and CPUT three times: the first write to a primary that is
\* dead draws a reset, and the next one SIGPIPE, which nothing handles.  (A
\* write that came before the death is answered "SERVER CRASH", as in Reconnect.)
Puts == {"putName", "putBody", "renName", "regCput"} \cup CputPlaces

BrokenPipe(c) ==
  /\ pc[c] \in Puts /\ c \in stale
  /\ End(c) /\ UNCHANGED ops

-----------------------------------------------------------------------------
(* The answers.  register and sign_in *)

RegGet(c) ==
  /\ Answered(c, "regGet")
  /\ IF kv.pw = None THEN To(c, "regCput", loc[c]) ELSE Done(c)
  /\ UNCHANGED <<clock, path, view, told>>

\* MUTANT: the answer to the CPUT is not looked at.
RegCput_NoCheck(c) ==
  /\ Answered(c, "regCput")
  /\ To(c, "putName", loc[c])
  /\ UNCHANGED <<clock, path, view, told>>

RegCput(c) ==
  /\ Answered(c, "regCput")
  /\ IF kv.pw = None THEN To(c, "putName", loc[c]) ELSE Done(c)
  /\ UNCHANGED <<clock, path, view, told>>

SignGet(c) ==
  /\ Answered(c, "signGet")
  /\ IF kv.pw = loc[c].new THEN To(c, "open", loc[c]) ELSE Done(c)
  /\ UNCHANGED <<clock, path, view, told>>

\* Without a folder open_folder returns NULL.  After register or sign_in the
\* path is empty then, and path.at(size - 1) of the next page throws.
OpenGet(c) ==
  /\ Answered(c, "open")
  /\ LET l == loc[c]  list == kv.list[l.e.id] IN
       \/ /\ list # None
          /\ path' = [path EXCEPT ![c] = Append(@, l.e.id)]
          /\ view' = [view EXCEPT ![c] = View(list)]
          /\ Done(c)
       \/ /\ list = None
          /\ IF SignedIn(c) THEN Done(c) ELSE To(c, "dead", NoLoc)
          /\ UNCHANGED <<path, view>>
  /\ UNCHANGED <<clock, told>>

-----------------------------------------------------------------------------
(* upload_file, create_folder *)

NewGet(c) ==
  /\ Answered(c, "newGet")
  /\ LET l == loc[c]  list == kv.list[l.at] IN
       IF list = None \/ SameName(list, l.e.name)
         THEN To(c, "page", l) /\ UNCHANGED clock
         ELSE /\ clock' = clock + 1
              /\ To(c, "add", [l EXCEPT !.e.id = clock + 1, !.old = list])
  /\ UNCHANGED <<path, view, told>>

PutName(c) ==
  /\ Answered(c, "putName")
  /\ To(c, "putBody", loc[c])
  /\ UNCHANGED <<clock, path, view, told>>

PutBody(c) ==
  /\ Answered(c, "putBody")
  /\ LET l == loc[c] IN
       \/ /\ l.op = "register"
          /\ To(c, "open", l)
          /\ told' = [told EXCEPT !.registered = @ \cup {c}]
       \/ /\ l.op = "new"
          /\ To(c, "page", l)
          /\ told' = [told EXCEPT !.stored = @ \cup {[e |-> l.e, at |-> l.at, by |-> c]}]
  /\ UNCHANGED <<clock, path, view>>

-----------------------------------------------------------------------------
(* send_cput_command_add, which adds an entry for upload_file, create_folder, *)
(* move_file and recover_old_path.                                            *)

\* The name is checked on the list that is then the old data of the CPUT.
AddTo(c, at, list) == To(c, "add", [loc[c] EXCEPT !.at = at, !.old = list])

\* recover_old_path: the entry goes back to the folder it was taken from.
Recover(c) == To(c, "recGet", [loc[c] EXCEPT !.op = "recover", !.at = Here(c)])

Add(c) ==
  /\ Answered(c, "add")
  /\ LET l == loc[c] IN
       \/ ~Matches(c) /\ To(c, "addGet", l)
       \/ Matches(c) /\ l.op = "new" /\ To(c, "putName", l)
       \/ Matches(c) /\ l.op = "move" /\ To(c, "reload", l)
       \/ Matches(c) /\ l.op = "recover" /\ Done(c)
  /\ UNCHANGED <<clock, path, view, told>>

Drop(c) == told' = [told EXCEPT !.dropped = @ \cup {loc[c].e.id}]

\* MUTANT: the name is not checked again.
AddGet_NoCheck(c) ==
  /\ Answered(c, "addGet")
  /\ kv.list[loc[c].at] # None
  /\ AddTo(c, loc[c].at, kv.list[loc[c].at])
  /\ UNCHANGED <<clock, path, view, told>>

\* After a CPUT that failed.  Of a folder that is gone the reply stays "-ERR";
\* of a folder that has the name by now the reply is empty, which upload_file
\* takes for a failure, and move_file and recover_old_path for success.
AddGet(c) ==
  /\ Answered(c, "addGet")
  /\ LET l == loc[c]  list == kv.list[l.at] IN
       \/ /\ list # None /\ ~SameName(list, l.e.name)
          /\ AddTo(c, l.at, list) /\ UNCHANGED told
       \/ /\ list = None /\ l.op = "move"
          /\ Recover(c) /\ UNCHANGED told
       \/ /\ list # None /\ SameName(list, l.e.name) /\ l.op = "move"
          /\ To(c, "reload", l) /\ Drop(c)
       \/ /\ (list # None => SameName(list, l.e.name)) /\ l.op = "recover"
          /\ Done(c) /\ Drop(c)
       \/ /\ (list # None => SameName(list, l.e.name)) /\ l.op = "new"
          /\ To(c, "page", l) /\ UNCHANGED told
  /\ UNCHANGED <<clock, path, view>>

-----------------------------------------------------------------------------
(* send_cput_command_delete, for delete_file and move_file *)

Lists(list, id) == \E i \in DOMAIN list : list[i].id = id

\* The list is read, the first time and after every CPUT that failed.
RemoveGet(c) ==
  /\ Answered(c, "delGet") \/ Answered(c, "movGet") \/ Answered(c, "remGet")
  /\ LET l == loc[c]  list == kv.list[l.at] IN
       IF list \in {None, <<>>}
         THEN Done(c)
         ELSE To(c, "remove", [l EXCEPT !.old = list, !.found = @ \/ Lists(list, l.e.id)])
  /\ UNCHANGED <<clock, path, view, told>>

\* MUTANT: the answer to the CPUT is not looked at.
RemoveCput_NoCheck(c) ==
  /\ Answered(c, "remove")
  /\ LET l == loc[c] IN
       \/ ~l.found /\ Done(c)
       \/ l.found /\ l.op = "delete" /\ To(c, "delName", l)
       \/ l.found /\ l.op = "move" /\ To(c, "movDest", l)
  /\ UNCHANGED <<clock, path, view, told>>

\* found stays set although another client has taken the entry out since.
RemoveCput(c) ==
  /\ Answered(c, "remove")
  /\ LET l == loc[c] IN
       \/ ~Matches(c) /\ To(c, "remGet", l)
       \/ Matches(c) /\ ~l.found /\ Done(c)
       \/ Matches(c) /\ l.found /\ l.op = "delete" /\ To(c, "delName", l)
       \/ Matches(c) /\ l.found /\ l.op = "move" /\ To(c, "movDest", l)
  /\ UNCHANGED <<clock, path, view, told>>

DelName(c) ==
  /\ Answered(c, "delName")
  /\ To(c, "delBody", loc[c])
  /\ UNCHANGED <<clock, path, view, told>>

DelBody(c) ==
  /\ Answered(c, "delBody")
  /\ view' = [view EXCEPT ![c] = {e \in @ : e.name # loc[c].e.name}]
  /\ Done(c)
  /\ UNCHANGED <<clock, path, told>>

-----------------------------------------------------------------------------
(* move_file, after the entry has been taken out *)

MoveDest(c) ==
  /\ Answered(c, "movDest")
  /\ LET l == loc[c]  list == kv.list[l.dest] IN
       IF list = None \/ SameName(list, l.e.name) THEN Recover(c) ELSE AddTo(c, l.dest, list)
  /\ UNCHANGED <<clock, path, view, told>>

RecoverGet(c) ==
  /\ Answered(c, "recGet")
  /\ LET l == loc[c]  list == kv.list[l.at] IN
       IF list = None \/ SameName(list, l.e.name)
         THEN Done(c) /\ Drop(c)
         ELSE AddTo(c, l.at, list) /\ UNCHANGED told
  /\ UNCHANGED <<clock, path, view>>

-----------------------------------------------------------------------------
(* rename_file *)

RenameGet(c) ==
  /\ Answered(c, "renGet")
  /\ LET l == loc[c]  list == kv.list[l.at] IN
       IF list \in {None, <<>>} THEN Done(c) ELSE To(c, "renCput", [l EXCEPT !.old = list])
  /\ UNCHANGED <<clock, path, view, told>>

RenameCput(c) ==
  /\ Answered(c, "renCput")
  /\ To(c, IF Matches(c) THEN "renName" ELSE "renGet", loc[c])
  /\ UNCHANGED <<clock, path, view, told>>

RenameName(c) ==
  /\ Answered(c, "renName")
  /\ To(c, "page", loc[c])
  /\ UNCHANGED <<clock, path, view, told>>

-----------------------------------------------------------------------------
(* refresh_upload *)

\* Its result is not used.
Reload(c) ==
  /\ Answered(c, "reload")
  /\ LET list == kv.list[Here(c)] IN
       view' = [view EXCEPT ![c] = IF list = None THEN @ ELSE View(list)]
  /\ Done(c)
  /\ UNCHANGED <<clock, path, told>>

\* MUTANT: a folder without entries is taken for one that is gone.
Page_EmptyIsNull(c) ==
  /\ Answered(c, "page")
  /\ LET list == kv.list[Here(c)] IN
       \/ list \notin {None, <<>>} /\ view' = [view EXCEPT ![c] = View(list)] /\ Done(c)
       \/ list \in {None, <<>>} /\ To(c, "dead", NoLoc) /\ UNCHANGED view
  /\ UNCHANGED <<clock, path, told>>

\* Its result is dereferenced for the page: NULL ends the front end.
Page(c) ==
  /\ Answered(c, "page")
  /\ LET list == kv.list[Here(c)] IN
       \/ list # None /\ view' = [view EXCEPT ![c] = View(list)] /\ Done(c)
       \/ list = None /\ To(c, "dead", NoLoc) /\ UNCHANGED view
  /\ UNCHANGED <<clock, path, told>>

-----------------------------------------------------------------------------
Ask(c) == \/ Signup(c) \/ Signin(c) \/ NewFile(c) \/ DeleteFile(c) \/ RenameFile(c)
          \/ MoveFile(c) \/ OpenFolder(c) \/ GoBack(c) \/ Files(c)

Step(c) == \/ SendAgain(c) \/ Reconnect(c)
           \/ RegGet(c) \/ RegCput(c) \/ SignGet(c) \/ OpenGet(c)
           \/ NewGet(c) \/ PutName(c) \/ PutBody(c) \/ Add(c) \/ AddGet(c)
           \/ RemoveGet(c) \/ RemoveCput(c) \/ DelName(c) \/ DelBody(c)
           \/ MoveDest(c) \/ RecoverGet(c)
           \/ RenameGet(c) \/ RenameCput(c) \/ RenameName(c)
           \/ Reload(c) \/ Page(c)

Next == Crash \/ \E c \in Clients : Ask(c) \/ StalePage(c) \/ BrokenPipe(c) \/ Step(c)

Spec == Init /\ [][Next]_vars

-----------------------------------------------------------------------------
(* Properties *)

Listings(id) ==
  UNION {{d} \X {i \in DOMAIN kv.list[d] : kv.list[d][i].id = id} :
           d \in {f \in Ids : kv.list[f] # None}}

\* Some client is working on the entry with the id.
Busy(id) == \E c \in Clients : Waiting(c) /\ loc[c].e.id = id

Movers(id) == {m \in told.movers : m[2] = id}

EntryType == [id : Ids, name : Names, dir : BOOLEAN]
Places == {"idle", "dead", "regGet", "regCput", "signGet", "open", "newGet", "add", "addGet",
           "putName", "putBody", "delGet", "movGet", "remGet", "remove", "delName", "delBody",
           "movDest", "recGet", "renGet", "renCput", "renName", "reload", "page"}

\* The type of every variable: an entry has an id, a name and a kind wherever it
\* is kept, in a list of the store, on a page or in a call.
TypeOK ==
  /\ kv.pw \in Clients \cup {None}
  /\ \A i \in Ids : kv.list[i] = None \/ Range(kv.list[i]) \subseteq EntryType
  /\ kv.body \in [Ids -> Clients \cup {None}]
  /\ clock \in Ids
  /\ pc \in [Clients -> Places]
  /\ \A c \in Clients : /\ loc[c].e \in EntryType
                       /\ Range(path[c]) \subseteq Ids
                       /\ view[c] \subseteq EntryType
                       /\ again[c] \in Nat
  /\ stale \subseteq Clients

\* Whatever clients upload, create and move at the same time, and although the
\* primary dies, two entries of one folder have the same name only if somebody
\* renamed an entry of it to that name (rename_file does not look).
NamesUnique ==
  \A d \in Ids : kv.list[d] # None =>
    \A i, j \in DOMAIN kv.list[d] :
      i < j /\ kv.list[d][i].name = kv.list[d][j].name => <<d, kv.list[d][i].name>> \in told.renames

\* A file whose upload returned true, which nobody has tried to delete or to
\* move, in a folder nobody has tried to delete, is listed there and has the
\* content that was uploaded: no other change of the folder, by CPUT on what it
\* had read before, loses it.  Nor does a death of the primary, unless it comes
\* while the folder is being made: then the PUT of the empty list is sent again,
\* when another client may have stored something in it.
StoredKept ==
  \A s \in told.stored :
    (/\ s.e.id \notin told.deleted /\ Movers(s.e.id) = {}
     /\ s.at \notin told.deleted \cup told.resent) =>
      /\ Listings(s.e.id) # {} /\ \A p \in Listings(s.e.id) : p[1] = s.at
      /\ IF s.e.dir THEN kv.list[s.e.id] # None ELSE kv.body[s.e.id] = s.by

\* As long as the primary lives, an entry is listed once and has its content:
\* - it is listed in two places only if two clients have moved it;
\* - one that nobody deletes and a single client moves is listed, or is being
\*   moved, or it went with a folder that was deleted, or its folder had got
\*   another entry of that name meanwhile, which move_file and recover_old_path
\*   do not notice;
\* - one without content is being stored, or somebody deleted it while another
\*   client moved or renamed it.
ListedOnce ==
  crashes = 0 =>
    /\ \A id \in Ids : Cardinality(Movers(id)) <= 1 => Cardinality(Listings(id)) <= 1
    /\ \A s \in told.stored : LET id == s.e.id IN
         id \notin told.deleted /\ Cardinality(Movers(id)) <= 1 =>
           \/ Listings(id) # {} \/ Busy(id) \/ id \in told.dropped
           \/ s.at \in told.deleted \/ \E m \in Movers(id) : m[3] \in told.deleted
    /\ \A id \in 1 .. clock :
         Listings(id) # {} /\ kv.list[id] = None /\ kv.body[id] = None =>
           Busy(id) \/ id \in told.deleted

\* Of the clients that sign up with one name, one is told that it succeeded,
\* and its password is the one that counts.  As long as the primary lives the
\* account has its folder from then on.
RegisteredOnce ==
  /\ \A c \in told.registered : kv.pw = c
  /\ crashes = 0 /\ kv.pw # None /\ (\A c \in Clients : loc[c].op # "register") => kv.list[Root] # None

\* While it handles a request, a front end ends only because
\* - it sends a PUT or a CPUT to a primary that is dead;
\* - the user is signed in and the folder the page shows was deleted at another
\*   front end;
\* - somebody signed in to an account that has a password and no folder: it is
\*   just being made, or the primary died meanwhile.
\* Between two requests, only a name ends it that the page does not show.
EndsOnlyIf ==
  [][\A c \in Clients : pc'[c] = "dead" /\ pc[c] # "dead" =>
       CASE pc[c] = "idle" -> SignedIn(c) /\ \E n \in Names : \A e \in view[c] : e.name # n
         [] pc[c] \in Puts -> c \in stale
         [] OTHER -> IF SignedIn(c) THEN Here(c) \in told.deleted
                     ELSE crashes > 0 \/ \E b \in Clients \ {c} : loc[b].op = "register"]_vars
=============================================================================
