----------------------------- MODULE DriveProofs -----------------------------
(***************************************************************************)
(* Proofs about the file storage (module Drive), for any number of front   *)
(* ends, requests and deaths of the primary: names stay unique in a        *)
(* folder, a stored file is kept, one sign-up succeeds, what may end a     *)
(* front end, and where an entry is listed that clients move.              *)
(***************************************************************************)
EXTENDS Drive, FiniteSetTheorems, SequenceTheorems, WellFoundedInduction, TLAPS

Item == [id : Nat, name : Names, dir : BOOLEAN]
Folder == Seq(Item)
Store == [pw : Clients \cup {None}, list : [Ids -> Folder \cup {None}],
          body : [Ids -> Clients \cup {None}], name : [Ids -> Names \cup {None}]]
Ops == {"none", "register", "sign_in", "open", "new", "delete", "move", "recover", "rename",
        "back", "files"}
Locals == [op : Ops, e : Item, at : Ids, old : Folder, found : BOOLEAN,
           new : NewNames \cup Clients \cup {None}, dest : Ids]
Told == [registered : SUBSET Clients, stored : SUBSET [e : Item, at : Ids, by : Clients],
         deleted : SUBSET Nat, movers : SUBSET (Nat \X Nat \X Nat),
         renames : SUBSET (Nat \X NewNames), dropped : SUBSET Nat, resent : SUBSET Nat]

(* The type of every variable but the store.                               *)
CallType ==
  /\ pc \in [Clients -> Places] /\ loc \in [Clients -> Locals]
  /\ path \in [Clients -> Seq(Ids)] /\ view \in [Clients -> SUBSET Item]
  /\ again \in [Clients -> Nat] /\ stale \subseteq Clients
  /\ crashes \in Nat /\ ops \in 0 .. MaxEvents /\ clock \in Nat
  /\ told \in Told

Doing(c, names) == loc[c].op \in names

(* The places of an upload or a new folder once its id is drawn, and those *)
(* where it, or a registration, stores the name and the content.           *)
Writing == {"putName", "putBody"}
Making(c) == Doing(c, {"new"}) /\ pc[c] \in {"add", "addGet"} \cup Writing
Registering(c) == Doing(c, {"register"}) /\ pc[c] \in Writing

(* Each request to the store belongs to some of the handlers.              *)
Called(c) ==
  /\ pc[c] \in {"regGet", "regCput"} => Doing(c, {"register"})
  /\ pc[c] = "signGet" => Doing(c, {"sign_in"})
  /\ pc[c] = "open" => Doing(c, {"register", "sign_in", "open"})
  /\ pc[c] = "newGet" => Doing(c, {"new"})
  /\ pc[c] \in {"add", "addGet"} => Doing(c, {"new", "move", "recover"})
  /\ pc[c] \in Writing => Doing(c, {"register", "new"})
  /\ pc[c] \in {"delGet", "delName", "delBody"} => Doing(c, {"delete"})
  /\ pc[c] \in {"remGet", "remove"} => Doing(c, {"delete", "move"})
  /\ pc[c] \in {"movGet", "movDest"} => Doing(c, {"move"})
  /\ pc[c] = "recGet" => Doing(c, {"recover"})
  /\ pc[c] \in {"renGet", "renCput", "renName"} => Doing(c, {"rename"})
  /\ pc[c] \in {"page", "reload"} => SignedIn(c)

(* What a handler is about is what the user asked for.                     *)
Asked(c) ==
  /\ Doing(c, {"register", "sign_in"}) => loc[c].e = NoEntry /\ path[c] = <<>>
  /\ Doing(c, {"sign_in"}) => loc[c].new \in Clients
  /\ Doing(c, {"delete"}) => loc[c].e.id \in told.deleted
  /\ Doing(c, {"move", "recover"}) => \E m \in told.movers : m[2] = loc[c].e.id
  /\ Doing(c, {"rename"}) => <<loc[c].at, loc[c].new>> \in told.renames /\ loc[c].new \in NewNames
  /\ Doing(c, {"open", "new", "delete", "move", "recover", "rename", "back", "files"}) => SignedIn(c)

(* Ids come from the clock, and only the root has none.                    *)
Numbered(c) ==
  /\ SignedIn(c) => \A e \in view[c] : e.id \in 1 .. clock
  /\ loc[c].e.id \in 0 .. clock
  /\ Making(c) \/ Doing(c, {"delete", "move", "recover", "rename"}) => loc[c].e.id # Root

(* A name is added to a list that does not have it.                        *)
AddsNew(c) == pc[c] = "add" => ~SameName(loc[c].old, loc[c].e.name)

(* A folder that is being made is not there until its list is stored; and  *)
(* when that is sent a second time, it was told to be.                     *)
Unmade(k, c) ==
  Making(c) \/ Registering(c) =>
    (k.list[loc[c].e.id] # None =>
       pc[c] = "putBody" /\ (c \in stale \/ loc[c].e.id \in told.resent))
SentAgain(c) == pc[c] = "putBody" /\ again[c] > 0 => loc[c].e.id \in told.resent

(* A client that registers, and one that has found the password.           *)
Accepted(k, c) ==
  /\ Registering(c) => k.pw = c
  /\ Doing(c, {"register"}) /\ pc[c] = "open" => k.pw = c /\ k.list[Root] # None
  /\ Doing(c, {"sign_in"}) /\ pc[c] = "open" => k.pw # None

(* A folder that some client looks at is there unless it was deleted.      *)
Visited(k, c) ==
  \A i \in DOMAIN path[c] : k.list[path[c][i]] # None \/ path[c][i] \in told.deleted

(* Where the entry with an id is listed, and may be.                       *)
Untouched(id) == id \notin told.deleted /\ \A m \in told.movers : m[2] # id
ListedAt(k, id, d) == k.list[d] # None /\ \E i \in DOMAIN k.list[d] : k.list[d][i].id = id
OnlyAt(k, id, at) == Untouched(id) => \A d \in Ids : ListedAt(k, id, d) => d = at
Kept(k, id, at) == Untouched(id) /\ at \notin told.deleted \cup told.resent => ListedAt(k, id, at)

(* The same of an entry whose upload is not over.                          *)
Pending(k, c) ==
  /\ Making(c) => OnlyAt(k, loc[c].e.id, loc[c].at)
  /\ Making(c) /\ pc[c] \in Writing => Kept(k, loc[c].e.id, loc[c].at)

ClientOK(k, c) ==
  /\ Called(c) /\ Asked(c) /\ Numbered(c) /\ AddsNew(c) /\ SentAgain(c)
  /\ Accepted(k, c) /\ Visited(k, c) /\ Pending(k, c)

(* What the store k keeps.                                                 *)
HasContent(k, s) ==
  s.e.id \notin told.deleted => IF s.e.dir THEN k.list[s.e.id] # None ELSE k.body[s.e.id] = s.by
Unique(k, d) ==
  k.list[d] # None =>
    \A i, j \in DOMAIN k.list[d] :
      i < j /\ k.list[d][i].name = k.list[d][j].name => <<d, k.list[d][i].name>> \in told.renames
Known(k, d) ==
  k.list[d] # None =>
    d \in 0 .. clock /\ \A i \in DOMAIN k.list[d] : k.list[d][i].id \in 1 .. clock

StoreOK(k) ==
  /\ k \in Store
  /\ \A d \in Ids : Known(k, d) /\ Unique(k, d)
  /\ k.pw = None => k.list[Root] = None
  /\ \A c \in told.registered : k.pw = c
  /\ \A s \in told.stored : OnlyAt(k, s.e.id, s.at) /\ Kept(k, s.e.id, s.at) /\ HasContent(k, s)

(* Ids are drawn once.                                                     *)
NewGets == {c \in Clients : pc[c] = "newGet"}
Drawn ==
  /\ clock + Cardinality(NewGets) <= ops + 2
  /\ \A s \in told.stored : s.e.id \in 1 .. clock
  /\ told.deleted \subseteq 1 .. clock
  /\ \A c, d \in Clients : Making(c) /\ Making(d) /\ loc[c].e.id = loc[d].e.id => c = d
  /\ \A c \in Clients : Making(c) => \A s \in told.stored : s.e.id # loc[c].e.id

(* As long as the primary lives, nothing is sent again, and the account    *)
(* has its folder or is being registered.                                  *)
NoCrash ==
  crashes = 0 =>
    /\ stale = {} /\ \A c \in Clients : again[c] = 0
    /\ kv.pw # None => kv.list[Root] # None \/ \E c \in Clients : Registering(c)

DriveInv ==
  /\ CallType /\ StoreOK(kv) /\ Drawn /\ NoCrash
  /\ \A c \in Clients : ClientOK(kv, c) /\ Unmade(kv, c)


-----------------------------------------------------------------------------
(* Lists *)

\* Every set of numbers has a least one.
LEMMA LeastNumber ==
  ASSUME NEW T, T \subseteq Nat, T # {}
  PROVE  \E x \in T : \A y \in T : x <= y
<1> DEFINE R == {ss \in Nat \X Nat : ss[1] < ss[2]}
<1>1. R = OpToRel(<, Nat)
  BY DEF OpToRel
<1>2. IsWellFoundedOn(R, Nat)
  BY <1>1, NatLessThanWellFounded
<1>3. PICK x \in T : \A y \in T : <<y, x>> \notin R
  <2> HIDE DEF R
  <2> QED
    BY <1>2, WFMin
<1>4. ASSUME NEW y \in T PROVE x <= y
  <2>1. x \in Nat /\ y \in Nat
    OBVIOUS
  <2>2. y < x => <<y, x>> \in R
    BY <2>1
  <2> QED
    BY <1>3, <2>1, <2>2
<1> QED
  BY <1>4

\* Induction up to N, with the set of the numbers for which the claim holds.
LEMMA InductionTo ==
  ASSUME NEW N \in Nat, NEW S, 0 \in S, \A n \in 0 .. N - 1 : n \in S => n + 1 \in S
  PROVE  N \in S
<1>1. SUFFICES ASSUME (0 .. N) \ S # {} PROVE FALSE
  OBVIOUS
<1>2. PICK x \in (0 .. N) \ S : \A y \in (0 .. N) \ S : x <= y
  <2>1. (0 .. N) \ S \subseteq Nat
    OBVIOUS
  <2> QED
    BY <1>1, <2>1, LeastNumber
<1>3. x # 0 /\ x - 1 \in 0 .. N - 1 /\ x - 1 \in S
  BY <1>2
<1> QED
  BY <1>2, <1>3

\* The equation of the function in Without.
KeepStep(g, l, id, i) ==
  IF i = 0 THEN <<>> ELSE IF l[i].id = id THEN g[i-1] ELSE Append(g[i-1], l[i])

\* There is such a function, because each of its values depends on an earlier one.
LEMMA KeepExists ==
  ASSUME NEW l, Len(l) \in Nat, NEW id
  PROVE  \E g : g = [i \in 0 .. Len(l) |-> KeepStep(g, l, id, i)]
<1> DEFINE N == Len(l)
           S == {n \in 0 .. N : \E g : g = [i \in 0 .. n |-> KeepStep(g, l, id, i)]}
<1>1. 0 \in S
  <2> DEFINE g == [i \in 0 .. 0 |-> <<>>]
  <2>1. g = [i \in 0 .. 0 |-> KeepStep(g, l, id, i)]
    BY DEF KeepStep
  <2> HIDE DEF g
  <2> QED
    BY <2>1
<1>2. ASSUME NEW n \in 0 .. N - 1, n \in S PROVE n + 1 \in S
  <2>1. PICK g : g = [i \in 0 .. n |-> KeepStep(g, l, id, i)]
    BY <1>2
  <2> DEFINE last == IF l[n + 1].id = id THEN g[n] ELSE Append(g[n], l[n + 1])
             h == [i \in 0 .. n + 1 |-> IF i <= n THEN g[i] ELSE last]
  <2>2. \A i \in 0 .. n : h[i] = g[i] /\ g[i] = KeepStep(g, l, id, i)
    BY <2>1
  <2>3. h[n + 1] = last /\ h[n] = g[n]
    OBVIOUS
  <2>4. ASSUME NEW i \in 0 .. n + 1 PROVE h[i] = KeepStep(h, l, id, i)
    <3>1. CASE i = n + 1
      BY <2>3, <3>1 DEF KeepStep
    <3>2. CASE i # n + 1
      <4>1. i \in 0 .. n /\ (i # 0 => i - 1 \in 0 .. n)
        BY <3>2
      <4> QED
        BY <2>2, <4>1 DEF KeepStep
    <3> QED
      BY <3>1, <3>2
  <2>5. h = [i \in 0 .. n + 1 |-> KeepStep(h, l, id, i)]
    <3>1. h = [i \in 0 .. n + 1 |-> h[i]]
      OBVIOUS
    <3> HIDE DEF h
    <3> QED
      BY <2>4, <3>1
  <2> HIDE DEF h
  <2>6. n + 1 \in 0 .. N
    OBVIOUS
  <2> QED
    BY <2>5, <2>6
<1> HIDE DEF S
<1>3. \A n \in 0 .. N - 1 : n \in S => n + 1 \in S
  BY <1>2
<1> HIDE DEF N
<1>4. N \in S
  BY <1>1, <1>3, InductionTo DEF N
<1> QED
  BY <1>4 DEF S, N

\* The list w has only entries of l, in the order they have there: all of the
\* first n but those with the id.
Keeps(w, l, n, id) ==
  /\ w \in Folder
  /\ \A i \in DOMAIN w : w[i].id # id /\ \E a \in 1 .. n : w[i] = l[a]
  /\ \A i, j \in DOMAIN w : i < j => \E a, b \in 1 .. n : a < b /\ w[i] = l[a] /\ w[j] = l[b]
  /\ \A a \in 1 .. n : l[a].id # id => \E i \in DOMAIN w : w[i] = l[a]

LEMMA WithoutKeeps ==
  ASSUME NEW l \in Folder, NEW id
  PROVE  Keeps(Without(l, id), l, Len(l), id)
<1>0. Len(l) \in Nat /\ \A i \in 1 .. Len(l) : l[i] \in Item
  BY DEF Folder
<1> DEFINE N == Len(l)
           g == CHOOSE f : f = [i \in 0 .. N |-> KeepStep(f, l, id, i)]
<1>1. Without(l, id) = g[N]
  BY DEF Without, KeepStep
<1>2. \A i \in 0 .. N : g[i] = KeepStep(g, l, id, i)
  <2>1. g = [i \in 0 .. N |-> KeepStep(g, l, id, i)]
    BY <1>0, KeepExists
  <2> HIDE DEF g
  <2> QED
    BY <2>1
<1> HIDE DEF g
<1> DEFINE S == {n \in 0 .. N : Keeps(g[n], l, n, id)}
<1>3. 0 \in S
  <2>1. g[0] = <<>>
    BY <1>0, <1>2 DEF KeepStep
  <2>2. <<>> \in Seq(Item) /\ DOMAIN <<>> = {} /\ 1 .. 0 = {} /\ 0 \in 0 .. N
    BY <1>0
  <2>3. Keeps(<<>>, l, 0, id)
    BY <2>2 DEF Keeps, Folder
  <2> QED
    BY <2>1, <2>2, <2>3
<1>4. ASSUME NEW n \in 0 .. N - 1, n \in S PROVE n + 1 \in S
  <2> DEFINE v == g[n]  w == g[n + 1]  m == Len(v)
  <2>1. n \in Nat /\ n + 1 \in 1 .. N /\ n + 1 \in 0 .. N /\ l[n + 1] \in Item
    BY <1>0
  <2>2. /\ v \in Folder /\ m \in Nat /\ DOMAIN v = 1 .. m
        /\ \A i \in DOMAIN v : v[i].id # id /\ \E a \in 1 .. n : v[i] = l[a]
        /\ \A i, j \in DOMAIN v : i < j => \E a, b \in 1 .. n : a < b /\ v[i] = l[a] /\ v[j] = l[b]
        /\ \A a \in 1 .. n : l[a].id # id => \E i \in DOMAIN v : v[i] = l[a]
    BY <1>4 DEF Keeps, Folder
  <2>3. w = IF l[n + 1].id = id THEN v ELSE Append(v, l[n + 1])
    BY <1>0, <1>2, <2>1 DEF KeepStep
  <2> HIDE DEF v, w
  <2>4. \A a \in 1 .. n : a \in 1 .. n + 1 /\ a < n + 1
    BY <2>1
  <2>5. \A a \in 1 .. n + 1 : a \in 1 .. n \/ a = n + 1
    BY <2>1
  <2>6. CASE l[n + 1].id = id
    <3>1. w = v
      BY <2>3, <2>6
    <3>2. Keeps(v, l, n + 1, id)
      BY <2>2, <2>4, <2>5, <2>6 DEF Keeps
    <3> QED
      BY <2>1, <3>1, <3>2 DEF w
  <2>7. CASE l[n + 1].id # id
    <3>1. /\ w \in Folder /\ DOMAIN w = 1 .. m + 1 /\ w[m + 1] = l[n + 1]
          /\ \A i \in 1 .. m : w[i] = v[i]
      BY <2>1, <2>2, <2>3, <2>7 DEF Folder
    <3>2. \A i \in 1 .. m + 1 : i \in 1 .. m \/ i = m + 1
      BY <2>2
    <3>3. \A i \in DOMAIN w : w[i].id # id /\ \E a \in 1 .. n + 1 : w[i] = l[a]
      BY <2>1, <2>2, <2>4, <2>7, <3>1, <3>2
    <3>4. ASSUME NEW i \in DOMAIN w, NEW j \in DOMAIN w, i < j
          PROVE  \E a, b \in 1 .. n + 1 : a < b /\ w[i] = l[a] /\ w[j] = l[b]
      <4>1. i \in 1 .. m
        BY <2>2, <3>1, <3>4
      <4>2. CASE j \in 1 .. m
        <5>1. PICK a, b \in 1 .. n : a < b /\ v[i] = l[a] /\ v[j] = l[b]
          BY <2>2, <3>4, <4>1, <4>2
        <5> QED
          BY <2>4, <3>1, <4>1, <4>2, <5>1
      <4>3. CASE j = m + 1
        <5>1. PICK a \in 1 .. n : v[i] = l[a]
          BY <2>2, <4>1
        <5> QED
          BY <2>1, <2>4, <3>1, <4>1, <4>3, <5>1
      <4> QED
        BY <3>1, <3>2, <4>2, <4>3
    <3>5. ASSUME NEW a \in 1 .. n + 1, l[a].id # id PROVE \E i \in DOMAIN w : w[i] = l[a]
      <4>1. CASE a = n + 1
        BY <2>2, <3>1, <4>1
      <4>2. CASE a \in 1 .. n
        <5>1. PICK i \in DOMAIN v : v[i] = l[a]
          BY <2>2, <3>5, <4>2
        <5> QED
          BY <2>2, <3>1, <5>1
      <4> QED
        BY <2>5, <4>1, <4>2
    <3> QED
      BY <2>1, <3>1, <3>3, <3>4, <3>5 DEF Keeps, w
  <2> QED
    BY <2>6, <2>7
<1> HIDE DEF S
<1>5. \A n \in 0 .. N - 1 : n \in S => n + 1 \in S
  BY <1>4
<1>6. N \in Nat
  BY <1>0
<1> HIDE DEF N
<1>7. N \in S
  BY <1>3, <1>5, <1>6, InductionTo
<1> QED
  BY <1>1, <1>7 DEF S, N

\* A list in which a file has been renamed.
LEMMA RenamedEntries ==
  ASSUME NEW l \in Folder, NEW e \in Item, NEW new \in Names
  PROVE  /\ Renamed(l, e, new) \in Folder /\ DOMAIN Renamed(l, e, new) = DOMAIN l
         /\ \A i \in DOMAIN l : /\ Renamed(l, e, new)[i].id = l[i].id
                                /\ Renamed(l, e, new)[i].name =
                                     IF l[i].name = e.name THEN new ELSE l[i].name
<1>1. l \in [1 .. Len(l) -> Item] /\ Len(l) \in Nat /\ DOMAIN l = 1 .. Len(l)
  BY DEF Folder
<1>2. ASSUME NEW i \in DOMAIN l
      PROVE  Entry(l[i].id, new, e.dir) \in Item
  BY <1>1 DEF Item, Entry
<1>3. Renamed(l, e, new) \in [1 .. Len(l) -> Item]
  BY <1>1, <1>2 DEF Renamed
<1>4. Renamed(l, e, new) \in Folder
  BY <1>1, <1>3 DEF Folder
<1> QED
  BY <1>1, <1>4 DEF Renamed, Entry

-----------------------------------------------------------------------------
(* What a request does to the store *)

LEMMA Numbers ==
  ASSUME DriveInv
  PROVE  /\ IsFiniteSet(NewGets) /\ Cardinality(NewGets) \in Nat
         /\ clock \in Ids /\ 0 .. clock \subseteq Ids /\ Root \in Ids /\ MaxEvents \in Nat
         /\ NewGets # {} => Cardinality(NewGets) > 0 /\ clock + 1 \in Ids
<1>1. NewGets \subseteq Clients /\ IsFiniteSet(Clients) /\ MaxEvents \in Nat
  BY DriveAssumption DEF NewGets
<1>2. IsFiniteSet(NewGets) /\ Cardinality(NewGets) \in Nat
  BY <1>1, FS_Subset, FS_CardinalityType
<1>3. NewGets # {} => Cardinality(NewGets) # 0
  BY <1>2, FS_EmptySet
<1>4. clock \in Nat /\ ops \in 0 .. MaxEvents /\ clock + Cardinality(NewGets) <= ops + 2
  BY DEF DriveInv, CallType, Drawn
<1> QED
  BY <1>1, <1>2, <1>3, <1>4 DEF Ids, Root

\* The list that a client sends.
LEMMA NewListIs ==
  ASSUME DriveInv, NEW c \in Clients, pc[c] \in CputPlaces
  PROVE  /\ loc[c].old \in Folder /\ loc[c].e \in Item /\ loc[c].at \in Ids
         /\ NewList(c) \in Folder
         /\ pc[c] = "add" => NewList(c) = Append(loc[c].old, loc[c].e)
         /\ pc[c] = "remove" => Keeps(NewList(c), loc[c].old, Len(loc[c].old), loc[c].e.id)
         /\ pc[c] = "renCput" => /\ NewList(c) = Renamed(loc[c].old, loc[c].e, loc[c].new)
                                 /\ loc[c].new \in Names
<1>1. loc[c] \in Locals
  BY DEF DriveInv, CallType
<1>2. loc[c].old \in Folder /\ loc[c].e \in Item /\ loc[c].at \in Ids
  BY <1>1 DEF Locals
<1>3. pc[c] = "renCput" => loc[c].new \in Names
  BY DEF DriveInv, ClientOK, Called, Asked, Names
<1>4. CASE pc[c] = "add"
  <2>1. NewList(c) = Append(loc[c].old, loc[c].e)
    BY <1>4 DEF NewList
  <2> QED
    BY <1>2, <1>4, <2>1 DEF Folder
<1>5. CASE pc[c] = "remove"
  <2>1. NewList(c) = Without(loc[c].old, loc[c].e.id)
    BY <1>5 DEF NewList
  <2>2. Keeps(NewList(c), loc[c].old, Len(loc[c].old), loc[c].e.id)
    BY <1>2, <2>1, WithoutKeeps
  <2> QED
    BY <1>2, <1>5, <2>2 DEF Keeps
<1>6. CASE pc[c] = "renCput"
  <2>1. NewList(c) = Renamed(loc[c].old, loc[c].e, loc[c].new)
    BY <1>6 DEF NewList
  <2> QED
    BY <1>2, <1>3, <1>6, <2>1, RenamedEntries
<1> QED
  BY <1>4, <1>5, <1>6 DEF CputPlaces

LEMMA Rewritten ==
  ASSUME NEW k \in Store, NEW d \in Ids, NEW x \in Folder \cup {None}
  PROVE  LET s == [k EXCEPT !.list[d] = x] IN
           /\ s \in Store /\ s.pw = k.pw /\ s.body = k.body
           /\ s.list[d] = x /\ \A f \in Ids \ {d} : s.list[f] = k.list[f]
BY DEF Store

LEMMA EffectIs ==
  ASSUME DriveInv, NEW c \in Clients
  PROVE  LET k == Effect(c)  x == loc[c].e.id IN
         /\ k \in Store
         /\ k.pw = IF pc[c] = "regCput" /\ kv.pw = None THEN c ELSE kv.pw
         /\ \A d \in Ids : k.list[d] =
              IF pc[c] \in CputPlaces /\ Matches(c) /\ d = loc[c].at THEN NewList(c)
              ELSE IF pc[c] = "putBody" /\ loc[c].e.dir /\ d = x THEN <<>>
              ELSE IF pc[c] = "delBody" /\ d = x THEN None
              ELSE kv.list[d]
         /\ \A d \in Ids : k.body[d] =
              IF pc[c] = "putBody" /\ ~loc[c].e.dir /\ d = x THEN c
              ELSE IF pc[c] = "delBody" /\ d = x THEN None
              ELSE kv.body[d]
<1> DEFINE k == Effect(c)  x == loc[c].e.id
<1>1. kv \in Store /\ loc[c] \in Locals
  BY DEF DriveInv, CallType, StoreOK
<1>2. x \in Ids /\ loc[c].e \in Item /\ loc[c].at \in Ids /\ loc[c].e.dir \in BOOLEAN
      /\ loc[c].e.name \in Names
  <2>1. x \in Ids
    BY Numbers DEF DriveInv, ClientOK, Numbered
  <2> QED
    BY <1>1, <2>1 DEF Locals, Item
<1>3. <<>> \in Folder /\ CputPlaces = {"add", "remove", "renCput"}
  BY DEF Folder, CputPlaces
<1>4. CASE pc[c] \in CputPlaces /\ Matches(c)
  <2>1. k = [kv EXCEPT !.list[loc[c].at] = NewList(c)]
    BY <1>3, <1>4 DEF Effect
  <2>2. NewList(c) \in Folder
    BY <1>4, NewListIs
  <2> HIDE DEF k
  <2>3. /\ k \in Store /\ k.pw = kv.pw /\ k.body = kv.body
        /\ k.list[loc[c].at] = NewList(c) /\ \A f \in Ids \ {loc[c].at} : k.list[f] = kv.list[f]
    BY <1>1, <1>2, <2>1, <2>2, Rewritten
  <2>4. pc[c] \notin {"regCput", "putBody", "delBody"}
    BY <1>3, <1>4
  <2> QED
    BY <1>4, <2>3, <2>4 DEF k
<1>5. CASE pc[c] = "regCput"
  <2>1. k = IF kv.pw = None THEN [kv EXCEPT !.pw = c] ELSE kv
    BY <1>3, <1>5 DEF Effect
  <2> HIDE DEF k
  <2>2. k \in Store /\ k.pw = (IF kv.pw = None THEN c ELSE kv.pw) /\ k.list = kv.list /\ k.body = kv.body
    BY <1>1, <2>1 DEF Store
  <2> QED
    BY <1>3, <1>5, <2>2 DEF k
<1>6. CASE pc[c] = "putBody"
  <2>1. CASE loc[c].e.dir
    <3>1. k = [kv EXCEPT !.list[x] = <<>>]
      BY <1>3, <1>6, <2>1 DEF Effect
    <3> HIDE DEF k, x
    <3>2. /\ k \in Store /\ k.pw = kv.pw /\ k.body = kv.body
          /\ k.list[x] = <<>> /\ \A f \in Ids \ {x} : k.list[f] = kv.list[f]
      BY <1>1, <1>2, <1>3, <3>1, Rewritten
    <3> QED
      BY <1>3, <1>6, <2>1, <3>2 DEF k, x
  <2>2. CASE ~loc[c].e.dir
    <3>1. k = [kv EXCEPT !.body[x] = c]
      BY <1>3, <1>6, <2>2 DEF Effect
    <3> HIDE DEF k, x
    <3>2. /\ k \in Store /\ k.pw = kv.pw /\ k.list = kv.list
          /\ k.body[x] = c /\ \A f \in Ids \ {x} : k.body[f] = kv.body[f]
      BY <1>1, <1>2, <3>1 DEF Store
    <3> QED
      BY <1>3, <1>6, <2>2, <3>2 DEF k, x
  <2> QED
    BY <2>1, <2>2
<1>7. CASE pc[c] = "delBody"
  <2>1. k = [kv EXCEPT !.list[x] = None, !.body[x] = None]
    BY <1>3, <1>7 DEF Effect
  <2> HIDE DEF k, x
  <2>2. /\ k \in Store /\ k.pw = kv.pw
        /\ k.list[x] = None /\ \A f \in Ids \ {x} : k.list[f] = kv.list[f]
        /\ k.body[x] = None /\ \A f \in Ids \ {x} : k.body[f] = kv.body[f]
    BY <1>1, <1>2, <2>1 DEF Store
  <2> QED
    BY <1>3, <1>7, <2>2 DEF k, x
<1>8. CASE pc[c] \notin {"regCput", "putBody", "delBody"} /\ ~(pc[c] \in CputPlaces /\ Matches(c))
  <2>1. \/ k = kv
        \/ \E d \in Ids, n \in Names \cup {None} : k = [kv EXCEPT !.name[d] = n]
    <3>1. CASE pc[c] = "putName"
      BY <1>2, <1>3, <1>8, <3>1 DEF Effect
    <3>2. CASE pc[c] = "renName"
      <4>1. loc[c].new \in Names
        BY <3>2 DEF DriveInv, ClientOK, Called, Asked, Names
      <4> QED
        BY <1>2, <1>3, <1>8, <3>2, <4>1 DEF Effect
    <3>3. CASE pc[c] = "delName"
      BY <1>2, <1>3, <1>8, <3>3 DEF Effect
    <3>4. CASE pc[c] \notin {"putName", "renName", "delName"}
      BY <1>8, <3>4 DEF Effect
    <3> QED
      BY <3>1, <3>2, <3>3, <3>4
  <2> HIDE DEF k
  <2>2. k \in Store /\ k.pw = kv.pw /\ k.list = kv.list /\ k.body = kv.body
    BY <1>1, <2>1 DEF Store
  <2> QED
    BY <1>8, <2>2 DEF k
<1> QED
  BY <1>4, <1>5, <1>6, <1>7, <1>8

\* How the lists differ after a request of a client whose connection stands.
LEMMA EffectLists ==
  ASSUME DriveInv, NEW c \in Clients, c \notin stale, NEW k, k = Effect(c), NEW d \in Ids
  PROVE  /\ k.list[d] \in Folder \cup {None} /\ kv.list[d] \in Folder \cup {None}
         /\ k.list[d] # None /\ kv.list[d] = None =>
              pc[c] = "putBody" /\ loc[c].e.dir /\ d = loc[c].e.id
         /\ kv.list[d] # None /\ k.list[d] = None =>
              pc[c] = "delBody" /\ d = loc[c].e.id /\ d \in told.deleted /\ d # Root
         /\ \A id : ListedAt(k, id, d) =>
              \/ ListedAt(kv, id, d)
              \/ pc[c] = "add" /\ d = loc[c].at /\ id = loc[c].e.id
         /\ \A id : ListedAt(kv, id, d) /\ Untouched(id) /\ d \notin told.deleted \cup told.resent =>
              ListedAt(k, id, d)
         /\ Known(k, d) /\ Unique(k, d)
<1> DEFINE l == loc[c]  old == kv.list[d]  new == k.list[d]
<1>0. kv \in Store /\ k \in Store /\ Known(kv, d) /\ Unique(kv, d)
  BY EffectIs DEF DriveInv, StoreOK
<1>1. old \in Folder \cup {None} /\ new \in Folder \cup {None}
  BY <1>0 DEF Store
<1>2. None \notin Folder
  BY DriveAssumption DEF Folder, Item
<1>3. Called(c) /\ Asked(c) /\ Numbered(c) /\ AddsNew(c) /\ Unmade(kv, c)
  BY DEF DriveInv, ClientOK
<1>4. clock \in Nat
  BY DEF DriveInv, CallType
<1> HIDE DEF old, new
<1>5. CASE new = old
  BY <1>0, <1>1, <1>5 DEF ListedAt, Known, Unique, old, new
<1>6. CASE pc[c] \in CputPlaces /\ Matches(c) /\ d = l.at
  <2>1. /\ new = NewList(c) /\ old = l.old /\ l.old \in Folder /\ new \in Folder /\ l.e \in Item
        /\ old # None /\ new # None
    BY <1>2, <1>6, EffectIs, NewListIs DEF Matches, old, new
  <2>2. CASE pc[c] = "add"
    <3> DEFINE n == Len(old)
    <3>1. new = Append(old, l.e)
      BY <2>1, <2>2, NewListIs DEF CputPlaces
    <3>2. /\ n \in Nat /\ DOMAIN old = 1 .. n /\ DOMAIN new = 1 .. n + 1
          /\ new[n + 1] = l.e /\ \A i \in 1 .. n : new[i] = old[i]
      BY <2>1, <3>1 DEF Folder
    <3>3. \A i \in 1 .. n + 1 : i \in 1 .. n \/ i = n + 1
      BY <3>2
    <3>4. \A i \in 1 .. n : i \in 1 .. n + 1 /\ i < n + 1
      BY <3>2
    <3> HIDE DEF n
    <3>5. \A id : ListedAt(k, id, d) => ListedAt(kv, id, d) \/ id = l.e.id
      BY <2>1, <3>2, <3>3 DEF ListedAt, old, new
    <3>6. \A id : ListedAt(kv, id, d) => ListedAt(k, id, d)
      BY <2>1, <3>2, <3>4 DEF ListedAt, old, new
    <3>7. l.e.id \in 1 .. clock
      <4>1. l.e.id \in 0 .. clock /\ l.e.id # 0
        BY <1>3, <2>2 DEF Called, Numbered, Making, Doing, Root
      <4> QED
        BY <1>4, <4>1
    <3>8. Known(k, d)
      BY <1>0, <2>1, <3>2, <3>3, <3>7 DEF Known, old, new
    <3>9. \A i \in 1 .. n : new[i].name # new[n + 1].name
      BY <1>3, <2>1, <2>2, <3>2 DEF AddsNew, SameName
    <3>10. Unique(k, d)
      <4> SUFFICES ASSUME NEW i \in 1 .. n + 1, NEW j \in 1 .. n + 1, i < j, new[i].name = new[j].name
                   PROVE  <<d, new[i].name>> \in told.renames
        BY <3>2 DEF Unique, new
      <4>1. i \in 1 .. n
        BY <3>2, <3>3
      <4>2. j \in 1 .. n
        BY <3>3, <3>9, <4>1
      <4> QED
        BY <1>0, <2>1, <3>2, <4>1, <4>2 DEF Unique, old, new
    <3> QED
      BY <1>1, <1>6, <2>1, <2>2, <3>5, <3>6, <3>8, <3>10 DEF old, new
  <2>3. CASE pc[c] = "remove"
    <3>1. /\ DOMAIN old = 1 .. Len(old)
          /\ \A i \in DOMAIN new : \E a \in DOMAIN old : new[i] = old[a]
          /\ \A i, j \in DOMAIN new : i < j =>
               \E a, b \in DOMAIN old : a < b /\ new[i] = old[a] /\ new[j] = old[b]
          /\ \A a \in DOMAIN old : old[a].id # l.e.id => \E i \in DOMAIN new : new[i] = old[a]
      <4>1. Keeps(new, old, Len(old), l.e.id)
        BY <2>1, <2>3, NewListIs DEF CputPlaces
      <4>2. DOMAIN old = 1 .. Len(old)
        BY <2>1 DEF Folder
      <4>3. /\ \A i \in DOMAIN new : \E a \in 1 .. Len(old) : new[i] = old[a]
            /\ \A i, j \in DOMAIN new : i < j =>
                 \E a, b \in 1 .. Len(old) : a < b /\ new[i] = old[a] /\ new[j] = old[b]
            /\ \A a \in 1 .. Len(old) : old[a].id # l.e.id => \E i \in DOMAIN new : new[i] = old[a]
        BY <4>1 DEF Keeps
      <4>4. ASSUME NEW D, D = 1 .. Len(old)
            PROVE  /\ \A i \in DOMAIN new : \E a \in D : new[i] = old[a]
                   /\ \A i, j \in DOMAIN new : i < j =>
                        \E a, b \in D : a < b /\ new[i] = old[a] /\ new[j] = old[b]
                   /\ \A a \in D : old[a].id # l.e.id => \E i \in DOMAIN new : new[i] = old[a]
        BY <4>3, <4>4
      <4> QED
        BY <4>2, <4>4
    <3>2. ~Untouched(l.e.id)
      BY <1>3, <2>3 DEF Called, Asked, Doing, Untouched
    <3>3. \A id : ListedAt(k, id, d) => ListedAt(kv, id, d)
      BY <2>1, <3>1 DEF ListedAt, old, new
    <3>4. \A id : ListedAt(kv, id, d) /\ id # l.e.id => ListedAt(k, id, d)
      BY <2>1, <3>1 DEF ListedAt, old, new
    <3>5. Known(k, d)
      BY <1>0, <2>1, <3>1 DEF Known, old, new
    <3>6. Unique(k, d)
      <4> SUFFICES ASSUME NEW i \in DOMAIN new, NEW j \in DOMAIN new, i < j, new[i].name = new[j].name
                   PROVE  <<d, new[i].name>> \in told.renames
        BY DEF Unique, new
      <4>1. PICK a \in DOMAIN old, b \in DOMAIN old : a < b /\ new[i] = old[a] /\ new[j] = old[b]
        BY <3>1
      <4> QED
        BY <1>0, <2>1, <4>1 DEF Unique, old
    <3> QED
      BY <1>1, <1>6, <2>1, <2>3, <3>2, <3>3, <3>4, <3>5, <3>6 DEF old, new
  <2>4. CASE pc[c] = "renCput"
    <3>1. /\ DOMAIN new = DOMAIN old
          /\ \A i \in DOMAIN old : /\ new[i].id = old[i].id
                                   /\ new[i].name = IF old[i].name = l.e.name THEN l.new ELSE old[i].name
      BY <2>1, <2>4, NewListIs, RenamedEntries DEF CputPlaces
    <3>2. <<d, l.new>> \in told.renames
      BY <1>3, <1>6, <2>4 DEF Called, Asked, Doing
    <3>3. \A id : ListedAt(k, id, d) <=> ListedAt(kv, id, d)
      BY <2>1, <3>1 DEF ListedAt, old, new
    <3>4. Known(k, d)
      BY <1>0, <2>1, <3>1 DEF Known, old, new
    <3>5. Unique(k, d)
      <4> SUFFICES ASSUME NEW i \in DOMAIN new, NEW j \in DOMAIN new, i < j, new[i].name = new[j].name
                   PROVE  <<d, new[i].name>> \in told.renames
        BY DEF Unique, new
      <4>1. CASE new[i].name = l.new
        BY <3>2, <4>1
      <4>2. CASE new[i].name # l.new
        <5>1. old[i].name = new[i].name /\ old[j].name = new[j].name
          BY <3>1, <4>2
        <5> QED
          BY <1>0, <2>1, <3>1, <5>1 DEF Unique, old
      <4> QED
        BY <4>1, <4>2
    <3> QED
      BY <1>1, <1>6, <2>1, <2>4, <3>3, <3>4, <3>5 DEF old, new
  <2> QED
    BY <1>6, <2>2, <2>3, <2>4 DEF CputPlaces
<1>7. CASE pc[c] = "putBody" /\ l.e.dir /\ d = l.e.id
  <2>1. new = <<>> /\ new # None /\ DOMAIN new = {}
    <3>1. new = <<>>
      BY <1>7, EffectIs DEF CputPlaces, new
    <3>2. <<>> \in Folder /\ DOMAIN <<>> = {}
      BY DEF Folder
    <3> QED
      BY <1>2, <3>1, <3>2
  <2>2. old # None => d \in told.resent
    BY <1>3, <1>7 DEF Unmade, Called, Making, Registering, Doing, Writing, old
  <2>3. Known(k, d) /\ Unique(k, d) /\ \A id : ~ListedAt(k, id, d)
    BY <1>3, <1>7, <2>1 DEF Known, Unique, ListedAt, Numbered, new
  <2> QED
    BY <1>1, <1>7, <2>1, <2>2, <2>3 DEF ListedAt, old, new
<1>8. CASE pc[c] = "delBody" /\ d = l.e.id
  <2>1. new = None
    BY <1>8, EffectIs DEF CputPlaces, new
  <2>2. d \in told.deleted /\ d # Root
    BY <1>3, <1>8 DEF Called, Asked, Numbered, Doing
  <2>3. Known(k, d) /\ Unique(k, d) /\ \A id : ~ListedAt(k, id, d)
    BY <2>1 DEF Known, Unique, ListedAt, new
  <2> QED
    BY <1>1, <1>8, <2>1, <2>2, <2>3 DEF old, new
<1> QED
  BY <1>5, <1>6, <1>7, <1>8, EffectIs DEF old, new

LEMMA RootEntry == \A c \in Clients : Asked(c) /\ Doing(c, {"register", "sign_in"}) => loc[c].e.id = Root
BY DEF Asked, NoEntry, Entry

\* The request keeps what the store promises, and what it promises to the clients
\* while they wait for their answers.
LEMMA EffectKeeps ==
  ASSUME DriveInv, NEW c \in Clients, c \notin stale, NEW k, k = Effect(c)
  PROVE  /\ StoreOK(k)
         /\ \A d \in Clients : ClientOK(k, d)
         /\ \A d \in Clients : d # c \/ pc[c] # "putBody" => Unmade(k, d)
<1> DEFINE x == loc[c].e.id
<1>1. k \in Store /\ kv \in Store /\ x \in Ids /\ Root \in Ids /\ c # None /\ x \in 0 .. clock
  BY EffectIs, Numbers, DriveAssumption DEF DriveInv, StoreOK, ClientOK, Numbered
<1>2. \A d \in Clients : ClientOK(kv, d) /\ Unmade(kv, d)
  BY DEF DriveInv
<1>3. /\ k.pw = kv.pw \/ (kv.pw = None /\ k.pw = c /\ pc[c] = "regCput")
      /\ kv.pw # None => k.pw = kv.pw
  <2>1. k.pw = IF pc[c] = "regCput" /\ kv.pw = None THEN c ELSE kv.pw
    BY EffectIs
  <2> QED
    BY <2>1
<1>4. \A d \in Ids : Known(k, d) /\ Unique(k, d)
  BY EffectLists
<1>5. k.pw = None => k.list[Root] = None
  <2>1. SUFFICES ASSUME k.pw = None, k.list[Root] # None PROVE FALSE
    OBVIOUS
  <2>2. kv.pw = None /\ kv.list[Root] = None
    BY <1>1, <1>3, <2>1 DEF DriveInv, StoreOK
  <2>3. pc[c] = "putBody" /\ x = Root
    BY <1>1, <2>1, <2>2, EffectLists
  <2>4. Registering(c)
    BY <1>2, <2>3 DEF ClientOK, Called, Numbered, Making, Registering, Doing, Writing
  <2>5. kv.pw = c
    BY <1>2, <2>4 DEF ClientOK, Accepted
  <2> QED
    BY <1>1, <2>2, <2>5
<1>6. \A d \in told.registered : k.pw = d
  <2>1. \A d \in told.registered : kv.pw = d /\ d # None
    BY DriveAssumption DEF DriveInv, StoreOK, CallType, Told
  <2> QED
    BY <1>3, <2>1
<1>7. ASSUME NEW id, NEW at \in Ids, OnlyAt(kv, id, at), 
             pc[c] = "add" /\ x = id => loc[c].at = at \/ ~Untouched(id)
      PROVE  OnlyAt(k, id, at)
  <2> SUFFICES ASSUME Untouched(id), NEW d \in Ids, ListedAt(k, id, d) PROVE d = at
    BY DEF OnlyAt
  <2>1. ListedAt(kv, id, d) \/ (pc[c] = "add" /\ d = loc[c].at /\ id = x)
    <3>1. \A i : ListedAt(k, i, d) =>
            ListedAt(kv, i, d) \/ (pc[c] = "add" /\ d = loc[c].at /\ i = x)
      BY EffectLists
    <3> QED
      BY <3>1
  <2> QED
    BY <1>7, <2>1 DEF OnlyAt
<1>8. ASSUME NEW id, NEW at \in Ids, Kept(kv, id, at) PROVE Kept(k, id, at)
  BY <1>8, EffectLists DEF Kept
<1>9. pc[c] = "add" => Making(c) \/ ~Untouched(x)
  BY <1>2 DEF ClientOK, Called, Asked, Making, Untouched, Doing
<1>10. ASSUME NEW s \in told.stored
       PROVE  OnlyAt(k, s.e.id, s.at) /\ Kept(k, s.e.id, s.at) /\ HasContent(k, s)
  <2>1. s.e \in Item /\ s.at \in Ids /\ s.e.id \in Ids /\ s.e.id # Root /\ s.e.dir \in BOOLEAN
    <3>1. told.stored \subseteq [e : Item, at : Ids, by : Clients] /\ s.e.id \in 1 .. clock
      BY DEF DriveInv, CallType, Told, Drawn
    <3>2. s.e \in Item /\ s.at \in Ids
      BY <3>1
    <3>3. clock \in Nat /\ s.e.id \in 0 .. clock /\ s.e.id # 0
      BY <3>1 DEF DriveInv, CallType
    <3> QED
      BY <3>2, <3>3, Numbers DEF Item, Root
  <2>2. Making(c) => s.e.id # x
    BY DEF DriveInv, Drawn
  <2>3. OnlyAt(kv, s.e.id, s.at) /\ Kept(kv, s.e.id, s.at) /\ HasContent(kv, s)
    BY DEF DriveInv, StoreOK
  <2>4. OnlyAt(k, s.e.id, s.at)
    BY <1>7, <1>9, <2>1, <2>2, <2>3
  <2>5. Kept(k, s.e.id, s.at)
    BY <1>8, <2>1, <2>3
  <2>6. ASSUME s.e.id \notin told.deleted
        PROVE  IF s.e.dir THEN k.list[s.e.id] # None ELSE k.body[s.e.id] = s.by
    <3>1. pc[c] = "delBody" => x \in told.deleted
      BY <1>2 DEF ClientOK, Called, Asked, Doing
    <3>2. pc[c] = "putBody" => x # s.e.id
      <4>1. pc[c] = "putBody" => Doing(c, {"register"}) \/ Making(c)
        BY <1>2 DEF ClientOK, Called, Making, Doing, Writing
      <4>2. Doing(c, {"register"}) => x = Root
        BY <1>2, RootEntry DEF ClientOK, Doing
      <4> QED
        BY <2>1, <2>2, <4>1, <4>2
    <3>3. k.body[s.e.id] = kv.body[s.e.id]
      BY <2>1, <2>6, <3>1, <3>2, EffectIs
    <3>4. kv.list[s.e.id] # None => k.list[s.e.id] # None
      BY <2>1, <2>6, EffectLists
    <3> QED
      BY <2>3, <2>6, <3>3, <3>4 DEF HasContent
  <2> QED
    BY <2>4, <2>5, <2>6 DEF HasContent
<1>11. StoreOK(k)
  BY <1>1, <1>4, <1>5, <1>6, <1>10 DEF StoreOK
<1>12. ASSUME NEW d \in Clients PROVE ClientOK(k, d)
  <2>1. d # None /\ loc[d].at \in Ids /\ path[d] \in Seq(Ids)
    BY DriveAssumption DEF DriveInv, CallType, Locals
  <2>2. Accepted(k, d)
    <3>1. kv.list[Root] # None => k.list[Root] # None
      BY <1>1, EffectLists
    <3> QED
      BY <1>2, <1>3, <2>1, <3>1 DEF ClientOK, Accepted
  <2>3. Visited(k, d)
    <3> SUFFICES ASSUME NEW i \in DOMAIN path[d] PROVE k.list[path[d][i]] # None \/ path[d][i] \in told.deleted
      BY DEF Visited
    <3>1. path[d][i] \in Ids
      BY <2>1
    <3>2. kv.list[path[d][i]] # None \/ path[d][i] \in told.deleted
      BY <1>2 DEF ClientOK, Visited
    <3> QED
      BY <3>1, <3>2, EffectLists
  <2>4. Pending(k, d)
    <3>1. Making(d) => OnlyAt(k, loc[d].e.id, loc[d].at)
      <4>1. Making(d) /\ Making(c) /\ x = loc[d].e.id => c = d
        BY DEF DriveInv, Drawn
      <4> QED
        BY <1>2, <1>7, <1>9, <2>1, <4>1 DEF ClientOK, Pending
    <3>2. Making(d) /\ pc[d] \in Writing => Kept(k, loc[d].e.id, loc[d].at)
      BY <1>2, <1>8, <2>1 DEF ClientOK, Pending
    <3> QED
      BY <3>1, <3>2 DEF Pending
  <2> QED
    BY <1>2, <2>2, <2>3, <2>4 DEF ClientOK
<1>13. ASSUME NEW d \in Clients, d # c \/ pc[c] # "putBody" PROVE Unmade(k, d)
  <2> DEFINE y == loc[d].e.id
  <2>1. SUFFICES ASSUME Making(d) \/ Registering(d), k.list[y] # None
                 PROVE  pc[d] = "putBody" /\ (d \in stale \/ y \in told.resent)
    BY DEF Unmade
  <2>2. y \in Ids
    BY <1>2, Numbers DEF ClientOK, Numbered
  <2>3. CASE kv.list[y] # None
    BY <1>2, <2>1, <2>3 DEF Unmade
  <2>4. CASE kv.list[y] = None
    <3>1. pc[c] = "putBody" /\ x = y
      BY <2>1, <2>2, <2>4, EffectLists
    <3>2. Making(c) \/ Registering(c)
      BY <1>2, <3>1 DEF ClientOK, Called, Making, Registering, Doing, Writing
    <3>3. CASE Registering(c) /\ Registering(d)
      <4>1. kv.pw = c /\ kv.pw = d
        BY <1>2, <3>3 DEF ClientOK, Accepted
      <4> QED
        BY <1>13, <3>1, <4>1
    <3>4. CASE Making(c) /\ Making(d)
      <4>1. c = d
        BY <3>1, <3>4 DEF DriveInv, Drawn
      <4> QED
        BY <1>13, <3>1, <4>1
    <3>5. CASE (Registering(c) /\ Making(d)) \/ (Making(c) /\ Registering(d))
      <4>1. \A a, b \in Clients : Registering(a) /\ Making(b) => loc[a].e.id # loc[b].e.id
        <5>1. \A a \in Clients : Registering(a) => loc[a].e.id = Root
          BY <1>2, RootEntry DEF ClientOK, Registering, Doing
        <5>2. \A b \in Clients : Making(b) => loc[b].e.id # Root
          BY <1>2 DEF ClientOK, Numbered
        <5> QED
          BY <5>1, <5>2
      <4> QED
        BY <3>1, <3>5, <4>1
    <3> QED
      BY <2>1, <3>2, <3>3, <3>4, <3>5
  <2> QED
    BY <2>3, <2>4
<1> QED
  BY <1>11, <1>12, <1>13

-----------------------------------------------------------------------------
(* Steps of one client *)

(* The store after the request, for the clients as they were before it.    *)
StoreAfter(c) ==
  /\ StoreOK(kv')
  /\ \A d \in Clients : ClientOK(kv', d)
  /\ \A d \in Clients : d # c \/ pc[c] # "putBody" => Unmade(kv', d)

(* Only client c moves; ids and what was asked for only get more.          *)
Frame(c) ==
  /\ \A d \in Clients \ {c} :
       /\ pc'[d] = pc[d] /\ loc'[d] = loc[d] /\ path'[d] = path[d] /\ view'[d] = view[d]
       /\ again'[d] = again[d] /\ (d \in stale => d \in stale')
  /\ clock <= clock'
  /\ told.deleted \subseteq told'.deleted /\ told.movers \subseteq told'.movers
  /\ told.renames \subseteq told'.renames /\ told.resent \subseteq told'.resent

LEMMA OthersKeep ==
  ASSUME DriveInv, NEW c \in Clients, StoreAfter(c), CallType', Frame(c)
  PROVE  /\ \A d \in Clients \ {c} : ClientOK(kv, d)' /\ Unmade(kv, d)'
         /\ kv' \in Store /\ (kv'.pw = None => kv'.list[Root] = None)
         /\ \A d \in Ids : Known(kv, d)' /\ Unique(kv, d)'
         /\ \A d \in told.registered : kv'.pw = d
         /\ \A s \in told.stored : OnlyAt(kv, s.e.id, s.at)' /\ Kept(kv, s.e.id, s.at)' /\ HasContent(kv, s)'
         /\ \A id, at : (OnlyAt(kv', id, at) => OnlyAt(kv, id, at)') /\ (Kept(kv', id, at) => Kept(kv, id, at)')
<1>1. clock \in Nat /\ clock' \in Nat /\ clock <= clock'
  BY DEF Frame, DriveInv, CallType
<1>2. \A i : i \in 1 .. clock => i \in 1 .. clock'
  BY <1>1
<1>3. \A i : i \in 0 .. clock => i \in 0 .. clock'
  BY <1>1
<1>4. /\ told.deleted \subseteq told'.deleted /\ told.movers \subseteq told'.movers
      /\ told.renames \subseteq told'.renames /\ told.resent \subseteq told'.resent
  BY DEF Frame
<1>5. \A id, at : (OnlyAt(kv', id, at) => OnlyAt(kv, id, at)') /\ (Kept(kv', id, at) => Kept(kv, id, at)')
  BY <1>4 DEF OnlyAt, Kept, Untouched, ListedAt
<1>6. ASSUME NEW s \in told.stored
      PROVE  OnlyAt(kv, s.e.id, s.at)' /\ Kept(kv, s.e.id, s.at)' /\ HasContent(kv, s)'
  <2>1. OnlyAt(kv', s.e.id, s.at) /\ Kept(kv', s.e.id, s.at) /\ HasContent(kv', s)
    BY DEF StoreAfter, StoreOK
  <2>2. HasContent(kv, s)'
    BY <1>4, <2>1 DEF HasContent
  <2> QED
    BY <1>5, <2>1, <2>2
<1>7. \A d \in Ids : Known(kv, d)' /\ Unique(kv, d)'
  <2>1. \A d \in Ids : Known(kv', d) /\ Unique(kv', d)
    BY DEF StoreAfter, StoreOK
  <2>2. \A d \in Ids : Known(kv, d)'
    BY <1>2, <1>3, <2>1 DEF Known
  <2>3. \A d \in Ids : Unique(kv, d)'
    BY <1>4, <2>1 DEF Unique
  <2> QED
    BY <2>2, <2>3
<1>8. ASSUME NEW d \in Clients \ {c} PROVE ClientOK(kv, d)' /\ Unmade(kv, d)'
  <2>1. /\ pc'[d] = pc[d] /\ loc'[d] = loc[d] /\ path'[d] = path[d] /\ view'[d] = view[d]
        /\ again'[d] = again[d] /\ (d \in stale => d \in stale')
    BY DEF Frame
  <2>2. /\ Called(d) /\ Asked(d) /\ Numbered(d) /\ AddsNew(d) /\ SentAgain(d)
        /\ Accepted(kv', d) /\ Visited(kv', d) /\ Pending(kv', d) /\ Unmade(kv', d)
    BY DEF StoreAfter, ClientOK
  <2>3. Called(d)' /\ Asked(d)'
    BY <1>4, <2>1, <2>2 DEF Called, Asked, Doing, SignedIn
  <2>4. Numbered(d)' /\ AddsNew(d)' /\ SentAgain(d)'
    BY <1>2, <1>3, <1>4, <2>1, <2>2 DEF Numbered, AddsNew, SentAgain, Making, Doing, SignedIn
  <2>5. Accepted(kv, d)' /\ Visited(kv, d)'
    BY <1>4, <2>1, <2>2 DEF Accepted, Visited, Registering, Doing
  <2>6. Pending(kv, d)'
    BY <1>5, <2>1, <2>2 DEF Pending, Making, Doing
  <2>7. Unmade(kv, d)'
    BY <1>4, <2>1, <2>2 DEF Unmade, Making, Registering, Doing
  <2> QED
    BY <2>3, <2>4, <2>5, <2>6, <2>7 DEF ClientOK
<1> QED
  BY <1>5, <1>6, <1>7, <1>8 DEF StoreAfter, StoreOK

\* The same with what was stored and who was registered before.
LEMMA StoreKeeps ==
  ASSUME DriveInv, NEW c \in Clients, StoreAfter(c), CallType', Frame(c),
         told'.stored = told.stored, told'.registered = told.registered
  PROVE  StoreOK(kv)'
BY OthersKeep DEF StoreOK

\* Nobody draws an id.
LEMMA DrawnKeeps ==
  ASSUME DriveInv, NEW c \in Clients, Frame(c), CallType', UNCHANGED clock, ops <= ops',
         pc[c] = "newGet" <=> pc'[c] = "newGet", Making(c)' => Making(c) /\ loc'[c].e.id = loc[c].e.id,
         told'.stored = told.stored, told'.deleted \subseteq 1 .. clock
  PROVE  Drawn'
<1>1. \A d \in Clients : pc'[d] = "newGet" <=> pc[d] = "newGet"
  BY DEF Frame
<1>2. NewGets' = NewGets
  BY <1>1 DEF NewGets
<1>3. clock' + Cardinality(NewGets') <= ops' + 2
  BY <1>2, Numbers DEF DriveInv, CallType, Drawn
<1>4. \A d \in Clients : Making(d)' => Making(d) /\ loc'[d].e.id = loc[d].e.id
  BY DEF Frame, Making, Doing
<1> QED
  BY <1>3, <1>4 DEF DriveInv, Drawn

\* A client whose handler is over.
LEMMA CallerIdle ==
  ASSUME DriveInv, NEW c \in Clients, StoreAfter(c), CallType', Frame(c),
         pc'[c] \in {"idle", "dead"}, loc'[c] = NoLoc, Visited(kv, c)',
         SignedIn(c)' => \A e \in view'[c] : e.id \in 1 .. clock'
  PROVE  ClientOK(kv, c)' /\ Unmade(kv, c)' /\ ~Making(c)' /\ ~Registering(c)'
<1>1. /\ ~Making(c)' /\ ~Registering(c)'
      /\ \A names \in SUBSET (Ops \ {"none"}) : ~Doing(c, names)'
  BY DEF Making, Registering, Doing, NoLoc, Writing
<1>2. Called(c)'
  BY DEF Called, Writing
<1>3. Asked(c)'
  BY DEF Asked, Doing, NoLoc
<1>4. Numbered(c)'
  <2>1. loc'[c].e.id = 0 /\ clock' \in Nat
    BY DEF NoLoc, NoEntry, Entry, Root, CallType
  <2>2. ~Doing(c, {"delete", "move", "recover", "rename"})'
    BY DEF Doing, NoLoc
  <2> QED
    BY <1>1, <2>1, <2>2 DEF Numbered, SignedIn
<1>5. AddsNew(c)' /\ SentAgain(c)' /\ Accepted(kv, c)' /\ Unmade(kv, c)' /\ Pending(kv, c)'
  BY <1>1 DEF AddsNew, SentAgain, Accepted, Unmade, Pending
<1> QED
  BY <1>1, <1>2, <1>3, <1>4, <1>5 DEF ClientOK

\* A client that goes on with the entry that its handler is about.
LEMMA CallerGoes ==
  ASSUME DriveInv, NEW c \in Clients, StoreAfter(c), CallType', Frame(c),
         path'[c] = path[c], view'[c] = view[c], loc'[c].e = loc[c].e,
         \/ loc'[c].op = loc[c].op /\ (Doing(c, {"rename", "sign_in"}) => loc'[c].at = loc[c].at /\ loc'[c].new = loc[c].new)
         \/ Doing(c, {"move", "recover"}) /\ Doing(c, {"move", "recover"})',
         pc[c] = "putBody" => ~Making(c)' /\ ~Registering(c)', pc'[c] = "putBody" => again'[c] = 0,
         Called(c)', AddsNew(c)', Accepted(kv, c)',
         Making(c)' => /\ Making(c) /\ loc'[c].at = loc[c].at
                       /\ pc'[c] \in Writing => pc[c] \in Writing \/ ListedAt(kv', loc[c].e.id, loc[c].at),
         Registering(c)' => Registering(c) \/ kv'.list[Root] = None
  PROVE  ClientOK(kv, c)' /\ Unmade(kv, c)'
<1>1. /\ clock \in Nat /\ clock' \in Nat /\ clock <= clock'
      /\ told.deleted \subseteq told'.deleted /\ told.movers \subseteq told'.movers
      /\ told.renames \subseteq told'.renames /\ told.resent \subseteq told'.resent
  BY DEF Frame, DriveInv, CallType
<1>2. \A i : (i \in 1 .. clock => i \in 1 .. clock') /\ (i \in 0 .. clock => i \in 0 .. clock')
  BY <1>1
<1>3. /\ Called(c) /\ Asked(c) /\ Numbered(c) /\ Visited(kv', c) /\ Pending(kv', c)
      /\ pc[c] # "putBody" => Unmade(kv', c)
  BY DEF StoreAfter, ClientOK
<1>4. Asked(c)'
  <2>1. \A names : Doing(c, names)' /\ loc'[c].op = loc[c].op => Doing(c, names)
    BY DEF Doing
  <2>2. CASE loc'[c].op = loc[c].op /\ (Doing(c, {"rename", "sign_in"}) => loc'[c].at = loc[c].at /\ loc'[c].new = loc[c].new)
    BY <1>1, <1>3, <2>2 DEF Asked, Doing, SignedIn
  <2>3. CASE Doing(c, {"move", "recover"}) /\ Doing(c, {"move", "recover"})'
    BY <1>1, <1>3, <2>3 DEF Asked, Doing, SignedIn
  <2> QED
    BY <2>2, <2>3
<1>5. Numbered(c)'
  <2>1. Doing(c, {"delete", "move", "recover", "rename"})' => Doing(c, {"delete", "move", "recover", "rename"})
    BY DEF Doing
  <2>2. Making(c)' => Making(c)
    OBVIOUS
  <2> QED
    BY <1>2, <1>3, <2>1, <2>2 DEF Numbered, SignedIn
<1>6. Visited(kv, c)' /\ SentAgain(c)'
  BY <1>1, <1>3 DEF Visited, SentAgain
<1>7. Pending(kv, c)'
  <2>1. ASSUME Making(c)' PROVE OnlyAt(kv, loc[c].e.id, loc[c].at)'
    <3>1. OnlyAt(kv', loc[c].e.id, loc[c].at)
      BY <1>3, <2>1 DEF Pending
    <3>2. OnlyAt(kv', loc'[c].e.id, loc'[c].at)
      BY <2>1, <3>1
    <3> QED
      BY <2>1, <3>2, OthersKeep
  <2>2. ASSUME Making(c)', pc'[c] \in Writing PROVE Kept(kv, loc[c].e.id, loc[c].at)'
    <3>1. Kept(kv', loc[c].e.id, loc[c].at)
      BY <1>3, <2>2 DEF Pending, Kept
    <3>2. Kept(kv', loc'[c].e.id, loc'[c].at)
      BY <2>2, <3>1
    <3> QED
      BY <2>2, <3>2, OthersKeep
  <2> QED
    BY <2>1, <2>2 DEF Pending
<1>8. Unmade(kv, c)'
  <2> SUFFICES ASSUME Making(c)' \/ Registering(c)' PROVE kv'.list[loc[c].e.id] = None
    BY DEF Unmade
  <2>1. CASE Making(c) \/ Registering(c)
    BY <1>3, <2>1 DEF Unmade
  <2>2. CASE Registering(c)' /\ kv'.list[Root] = None
    <3>1. Doing(c, {"register"})
      BY <2>2 DEF Registering, Doing
    <3> QED
      BY <1>3, <2>2, <3>1, RootEntry DEF Doing
  <2> QED
    BY <2>1, <2>2
<1> QED
  BY <1>3, <1>4, <1>5, <1>6, <1>7, <1>8 DEF ClientOK

\* A client gets its answer and goes on, unless that registers or stores something.
LEMMA AnswerKeeps ==
  ASSUME DriveInv, NEW c \in Clients, StoreAfter(c), CallType', Frame(c),
         kv' = Effect(c), c \notin stale, pc[c] \notin {"regCput", "putBody", "newGet"}, pc'[c] # "newGet",
         UNCHANGED <<clock, ops, again, stale, crashes>>,
         told'.registered = told.registered, told'.stored = told.stored, told'.deleted = told.deleted,
         ClientOK(kv, c)' /\ Unmade(kv, c)',
         Making(c)' => Making(c) /\ loc'[c].e.id = loc[c].e.id,
         Registering(c) => Registering(c)'
  PROVE  DriveInv'
<1>1. StoreOK(kv)'
  BY StoreKeeps
<1>2. Drawn'
  <2>1. ops <= ops' /\ told'.deleted \subseteq 1 .. clock
    BY DEF DriveInv, CallType, Drawn
  <2> QED
    BY <2>1, DrawnKeeps
<1>3. \A d \in Clients : ClientOK(kv, d)' /\ Unmade(kv, d)'
  BY OthersKeep
<1>4. NoCrash'
  <2>1. kv'.pw = kv.pw
    <3>1. kv'.pw = IF pc[c] = "regCput" /\ kv.pw = None THEN c ELSE kv.pw
      BY EffectIs
    <3> QED
      BY <3>1
  <2>2. kv.list[Root] # None => kv'.list[Root] # None
    BY Numbers, EffectLists
  <2>3. \A d \in Clients : Registering(d) => Registering(d)'
    BY DEF Frame, Registering, Doing
  <2> QED
    BY <2>1, <2>2, <2>3 DEF DriveInv, NoCrash
<1> QED
  BY <1>1, <1>2, <1>3, <1>4 DEF DriveInv

LEMMA NoLocType == NoLoc \in Locals /\ NoEntry \in Item
BY DriveAssumption DEF NoLoc, Locals, NoEntry, Entry, Item, Ops, Names, Ids, Root, Folder

LEMMA AnsweredFacts ==
  ASSUME DriveInv, NEW c \in Clients, NEW place, Answered(c, place)
  PROVE  /\ StoreAfter(c) /\ kv' = Effect(c) /\ c \notin stale /\ pc[c] = place /\ again[c] = 0
         /\ UNCHANGED <<again, stale, crashes, ops>>
         /\ loc[c] \in Locals /\ told \in Told
         /\ Called(c) /\ Asked(c) /\ Numbered(c) /\ AddsNew(c)
<1>1. kv' = Effect(c) /\ c \notin stale /\ pc[c] = place /\ again[c] = 0 /\ UNCHANGED <<again, stale, crashes, ops>>
  BY DEF Answered
<1>2. StoreAfter(c)
  BY <1>1, EffectKeeps DEF StoreAfter
<1> QED
  BY <1>1, <1>2 DEF DriveInv, CallType, ClientOK

LEMMA Moved ==
  ASSUME CallType, NEW c \in Clients, NEW p \in Places, NEW l \in Locals, To(c, p, l)
  PROVE  /\ pc' \in [Clients -> Places] /\ loc' \in [Clients -> Locals]
         /\ pc'[c] = p /\ loc'[c] = l
         /\ \A d \in Clients \ {c} : pc'[d] = pc[d] /\ loc'[d] = loc[d]
BY DEF CallType, To

(* What was asked for and what was answered stays, but for dropped.        *)
SameTold ==
  /\ told' \in Told
  /\ told'.registered = told.registered /\ told'.stored = told.stored /\ told'.deleted = told.deleted
  /\ told'.movers = told.movers /\ told'.renames = told.renames /\ told'.resent = told.resent

LEMMA ToldSame ==
  ASSUME CallType
  PROVE  /\ UNCHANGED told => SameTold
         /\ \A c \in Clients : Drop(c) => SameTold
<1>1. UNCHANGED told => SameTold
  BY DEF CallType, SameTold
<1>2. ASSUME NEW c \in Clients, Drop(c) PROVE SameTold
  <2>1. loc[c].e.id \in Nat /\ told \in Told
    BY DEF CallType, Locals, Item
  <2>2. told' = [told EXCEPT !.dropped = @ \cup {loc[c].e.id}]
    BY <1>2 DEF Drop
  <2> QED
    BY <2>1, <2>2 DEF Told, SameTold
<1> QED
  BY <1>1, <1>2

\* The handler ends with this answer.
LEMMA AnswerCloses ==
  ASSUME DriveInv, NEW c \in Clients, Answered(c, pc[c]), NEW p \in {"idle", "dead"}, To(c, p, NoLoc),
         pc[c] \notin {"regCput", "putBody", "newGet"}, ~Registering(c),
         UNCHANGED clock, SameTold, path' \in [Clients -> Seq(Ids)], view' \in [Clients -> SUBSET Item],
         \A d \in Clients \ {c} : path'[d] = path[d] /\ view'[d] = view[d], Visited(kv, c)',
         SignedIn(c)' => \A e \in view'[c] : e.id \in 1 .. clock
  PROVE  DriveInv'
<1>1. /\ StoreAfter(c) /\ kv' = Effect(c) /\ c \notin stale
      /\ UNCHANGED <<again, stale, crashes, ops>>
  BY AnsweredFacts
<1>2. /\ pc' \in [Clients -> Places] /\ loc' \in [Clients -> Locals]
      /\ pc'[c] = p /\ loc'[c] = NoLoc
      /\ \A d \in Clients \ {c} : pc'[d] = pc[d] /\ loc'[d] = loc[d]
  BY Moved, NoLocType DEF DriveInv, Places
<1>3. CallType'
  BY <1>1, <1>2 DEF DriveInv, CallType, SameTold
<1>4. Frame(c)
  BY <1>1, <1>2 DEF Frame, SameTold, DriveInv, CallType
<1>5. ClientOK(kv, c)' /\ Unmade(kv, c)' /\ ~Making(c)' /\ ~Registering(c)'
  BY <1>1, <1>2, <1>3, <1>4, CallerIdle
<1> QED
  BY <1>1, <1>2, <1>3, <1>4, <1>5, AnswerKeeps DEF SameTold

\* The user stays in the folder.
LEMMA AnswerEnds ==
  ASSUME DriveInv, NEW c \in Clients, Answered(c, pc[c]), NEW p \in {"idle", "dead"}, To(c, p, NoLoc),
         pc[c] \notin {"regCput", "putBody", "newGet"}, ~Registering(c),
         UNCHANGED <<clock, path>>, SameTold, view' \in [Clients -> SUBSET Item],
         \A d \in Clients \ {c} : view'[d] = view[d],
         SignedIn(c) => \A e \in view'[c] : e.id \in 1 .. clock
  PROVE  DriveInv'
<1>1. Visited(kv', c)
  BY AnsweredFacts DEF StoreAfter, ClientOK
<1>2. Visited(kv, c)'
  BY <1>1 DEF Visited, SameTold
<1>3. path' \in [Clients -> Seq(Ids)] /\ (SignedIn(c)' <=> SignedIn(c))
  BY DEF DriveInv, CallType, SignedIn
<1> QED
  BY <1>2, <1>3, AnswerCloses

(* A handler o may be at place p.                                          *)
CalledAs(p, o) ==
  /\ p \in {"regGet", "regCput"} => o = "register"
  /\ p = "signGet" => o = "sign_in"
  /\ p = "open" => o \in {"register", "sign_in", "open"}
  /\ p = "newGet" => o = "new"
  /\ p \in {"add", "addGet"} => o \in {"new", "move", "recover"}
  /\ p \in Writing => o \in {"register", "new"}
  /\ p \in {"delGet", "delName", "delBody"} => o = "delete"
  /\ p \in {"remGet", "remove"} => o \in {"delete", "move"}
  /\ p \in {"movGet", "movDest"} => o = "move"
  /\ p = "recGet" => o = "recover"
  /\ p \in {"renGet", "renCput", "renName"} => o = "rename"

LEMMA CalledPlaces ==
  \A c \in Clients :
    Called(c) <=> CalledAs(pc[c], loc[c].op) /\ (pc[c] \in {"page", "reload"} => SignedIn(c))
BY DEF Called, CalledAs, Doing

\* The handler goes on.
LEMMA AnswerGoes ==
  ASSUME DriveInv, NEW c \in Clients, Answered(c, pc[c]), NEW p \in Places \ {"newGet"}, NEW l \in Locals,
         To(c, p, l), pc[c] \notin {"regCput", "putBody", "newGet"},
         UNCHANGED <<clock, path, view>>, SameTold, l.e = loc[c].e,
         \/ l.op = loc[c].op /\ (Doing(c, {"rename", "sign_in"}) => l.at = loc[c].at /\ l.new = loc[c].new)
         \/ Doing(c, {"move", "recover"}) /\ l.op \in {"move", "recover"},
         CalledAs(p, l.op), p \in {"page", "reload"} => SignedIn(c),
         p = "add" => ~SameName(l.old, l.e.name),
         p = "open" => l.op = "sign_in" /\ kv'.pw # None,
         l.op = "new" /\ p \in {"add", "addGet"} \cup Writing =>
           /\ Making(c) /\ l.at = loc[c].at
           /\ p \in Writing => pc[c] \in Writing \/ ListedAt(kv', loc[c].e.id, loc[c].at),
         l.op = "register" /\ p \in Writing <=> Registering(c)
  PROVE  DriveInv'
<1>1. /\ StoreAfter(c) /\ kv' = Effect(c) /\ c \notin stale /\ again[c] = 0
      /\ UNCHANGED <<again, stale, crashes, ops>>
  BY AnsweredFacts
<1>2. /\ pc' \in [Clients -> Places] /\ loc' \in [Clients -> Locals]
      /\ pc'[c] = p /\ loc'[c] = l
      /\ \A d \in Clients \ {c} : pc'[d] = pc[d] /\ loc'[d] = loc[d]
  BY Moved DEF DriveInv
<1>3. CallType'
  BY <1>1, <1>2 DEF DriveInv, CallType, SameTold
<1>4. Frame(c)
  BY <1>1, <1>2 DEF Frame, SameTold, DriveInv, CallType
<1>5. AddsNew(c)' /\ (Doing(c, {"move", "recover"})' <=> l.op \in {"move", "recover"})
  BY <1>2 DEF AddsNew, Doing
<1>6. Called(c)'
  BY <1>2 DEF Called, CalledAs, Doing, SignedIn
<1>7. /\ Registering(c)' <=> Registering(c)
      /\ Making(c)' <=> (l.op = "new" /\ p \in {"add", "addGet"} \cup Writing)
  BY <1>2 DEF Registering, Making, Doing
<1>8. Accepted(kv, c)'
  <2>1. Accepted(kv', c)
    BY <1>1 DEF StoreAfter, ClientOK
  <2> QED
    BY <1>2, <1>7, <2>1 DEF Accepted, Doing
<1>9. ClientOK(kv, c)' /\ Unmade(kv, c)'
  BY <1>1, <1>2, <1>3, <1>4, <1>5, <1>6, <1>7, <1>8, CallerGoes
<1> QED
  BY <1>1, <1>2, <1>3, <1>4, <1>7, <1>9, AnswerKeeps DEF SameTold


-----------------------------------------------------------------------------
(* The answers *)

\* A handler that ends without a change of the page.
LEMMA JustEnds ==
  ASSUME DriveInv, NEW c \in Clients, Answered(c, pc[c]), Done(c) \/ To(c, "dead", NoLoc),
         pc[c] \notin {"regCput", "putBody", "newGet"}, ~Registering(c),
         UNCHANGED <<clock, path, view>>, SameTold
  PROVE  DriveInv'
<1>1. view' \in [Clients -> SUBSET Item] /\ \A d \in Clients \ {c} : view'[d] = view[d]
  BY DEF DriveInv, CallType
<1>2. SignedIn(c) => \A e \in view'[c] : e.id \in 1 .. clock
  BY DEF DriveInv, ClientOK, Numbered
<1>3. PICK p \in {"idle", "dead"} : To(c, p, NoLoc)
  BY DEF Done
<1> QED
  BY <1>1, <1>2, <1>3, AnswerEnds

\* What is there to know about the client and the folder that it reads.
LEMMA Reading ==
  ASSUME DriveInv, NEW c \in Clients
  PROVE  /\ loc[c] \in Locals /\ CalledAs(pc[c], loc[c].op) /\ (pc[c] \in {"page", "reload"} => SignedIn(c))
         /\ loc[c].at \in Ids /\ loc[c].dest \in Ids /\ loc[c].e.id \in Ids /\ loc[c].e \in Item
         /\ loc[c].old \in Folder /\ path[c] \in Seq(Ids) /\ (SignedIn(c) => Here(c) \in Ids)
         /\ \A d \in Ids : kv.list[d] # None => kv.list[d] \in Folder
         /\ (UNCHANGED told => SameTold) /\ (Drop(c) => SameTold)
<1>1. loc[c] \in Locals /\ path[c] \in Seq(Ids) /\ kv \in Store /\ Called(c) /\ loc[c].e.id \in Ids
  BY Numbers DEF DriveInv, CallType, StoreOK, ClientOK, Numbered
<1>2. SignedIn(c) => Here(c) \in Ids
  BY <1>1 DEF SignedIn, Here, Last
<1>3. (UNCHANGED told => SameTold) /\ (Drop(c) => SameTold)
  BY ToldSame DEF DriveInv
<1> QED
  BY <1>1, <1>2, <1>3, CalledPlaces DEF Locals, Store

LEMMA RegGetDrive ==
  ASSUME DriveInv, NEW c \in Clients, RegGet(c)
  PROVE  DriveInv'
<1>1. Answered(c, pc[c]) /\ pc[c] = "regGet" /\ UNCHANGED <<clock, path, view>> /\ SameTold
  BY Reading DEF RegGet, Answered
<1>2. loc[c].op = "register" /\ ~Registering(c) /\ loc[c] \in Locals
  BY <1>1, Reading DEF CalledAs, Registering, Writing
<1>3. CASE To(c, "regCput", loc[c])
  <2>1. CalledAs("regCput", loc[c].op)
    BY <1>2 DEF CalledAs, Writing
  <2> QED
    BY <1>1, <1>2, <1>3, <2>1, AnswerGoes DEF Places, Writing
<1>4. CASE Done(c)
  BY <1>1, <1>2, <1>4, JustEnds
<1> QED
  BY <1>3, <1>4 DEF RegGet

LEMMA SignGetDrive ==
  ASSUME DriveInv, NEW c \in Clients, SignGet(c)
  PROVE  DriveInv'
<1>1. Answered(c, pc[c]) /\ pc[c] = "signGet" /\ UNCHANGED <<clock, path, view>> /\ SameTold
  BY Reading DEF SignGet, Answered
<1>2. loc[c].op = "sign_in" /\ ~Registering(c) /\ loc[c] \in Locals
  BY <1>1, Reading DEF CalledAs, Registering, Writing
<1>3. CASE kv.pw = loc[c].new /\ To(c, "open", loc[c])
  <2>1. CalledAs("open", loc[c].op)
    BY <1>2 DEF CalledAs, Writing
  <2>2. kv'.pw # None
    <3>1. kv.pw # None
      BY <1>1, <1>2, <1>3, DriveAssumption DEF DriveInv, ClientOK, Asked, Doing
    <3>2. kv'.pw = IF pc[c] = "regCput" /\ kv.pw = None THEN c ELSE kv.pw
      BY <1>1, AnsweredFacts, EffectIs
    <3> QED
      BY <1>1, <3>1, <3>2
  <2> QED
    BY <1>1, <1>2, <1>3, <2>1, <2>2, AnswerGoes DEF Places, Writing
<1>4. CASE Done(c)
  BY <1>1, <1>2, <1>4, JustEnds
<1> QED
  BY <1>3, <1>4 DEF SignGet

LEMMA PutNameDrive ==
  ASSUME DriveInv, NEW c \in Clients, PutName(c)
  PROVE  DriveInv'
<1>1. /\ Answered(c, pc[c]) /\ pc[c] = "putName" /\ UNCHANGED <<clock, path, view>> /\ SameTold
      /\ To(c, "putBody", loc[c])
  BY Reading DEF PutName, Answered
<1>2. loc[c].op \in {"register", "new"} /\ loc[c] \in Locals
  BY <1>1, Reading DEF CalledAs, Writing
<1>3. /\ loc[c].op = "new" => Making(c)
      /\ loc[c].op = "register" <=> Registering(c)
      /\ pc[c] \in Writing /\ "putBody" \in Writing
  BY <1>1, <1>2 DEF Making, Registering, Doing, Writing
<1>4. CalledAs("putBody", loc[c].op)
  BY <1>2 DEF CalledAs, Writing
<1> QED
  BY <1>1, <1>2, <1>3, <1>4, AnswerGoes DEF Places, Doing

\* The entry is in the list that a CPUT has added it to.
LEMMA AddedIsListed ==
  ASSUME DriveInv, NEW c \in Clients, Answered(c, "add"), Matches(c)
  PROVE  ListedAt(kv', loc[c].e.id, loc[c].at)
<1> DEFINE l == loc[c]  n == Len(l.old)
<1>1. pc[c] = "add" /\ kv' = Effect(c)
  BY DEF Answered
<1>2. l.old \in Folder /\ l.at \in Ids /\ NewList(c) \in Folder /\ NewList(c) = Append(l.old, l.e)
  BY <1>1, NewListIs DEF CputPlaces
<1>3. kv'.list[l.at] = Append(l.old, l.e)
  BY <1>1, <1>2, EffectIs DEF CputPlaces
<1>4. kv'.list[l.at] # None
  BY <1>2, <1>3, DriveAssumption DEF Folder, Item
<1>5. n + 1 \in DOMAIN Append(l.old, l.e) /\ Append(l.old, l.e)[n + 1] = l.e
  BY <1>2 DEF Folder
<1> HIDE DEF n
<1> QED
  BY <1>3, <1>4, <1>5 DEF ListedAt

LEMMA AddDrive ==
  ASSUME DriveInv, NEW c \in Clients, Add(c)
  PROVE  DriveInv'
<1>1. Answered(c, pc[c]) /\ pc[c] = "add" /\ UNCHANGED <<clock, path, view>> /\ SameTold
  BY Reading DEF Add, Answered
<1>2. /\ loc[c].op \in {"new", "move", "recover"} /\ loc[c] \in Locals
      /\ ~Registering(c) /\ (loc[c].op = "new" => Making(c))
  BY <1>1, Reading DEF CalledAs, Registering, Making, Doing, Writing
<1>3. CASE To(c, "addGet", loc[c])
  <2>1. CalledAs("addGet", loc[c].op)
    BY <1>2 DEF CalledAs, Writing
  <2> QED
    BY <1>1, <1>2, <1>3, <2>1, AnswerGoes DEF Places, Writing
<1>4. CASE Matches(c) /\ loc[c].op = "new" /\ To(c, "putName", loc[c])
  <2>1. CalledAs("putName", loc[c].op)
    BY <1>4 DEF CalledAs, Writing
  <2>2. ListedAt(kv', loc[c].e.id, loc[c].at)
    BY <1>1, <1>4, AddedIsListed
  <2> QED
    BY <1>1, <1>2, <1>4, <2>1, <2>2, AnswerGoes DEF Places
<1>5. CASE loc[c].op = "move" /\ To(c, "reload", loc[c])
  <2>1. CalledAs("reload", loc[c].op)
    BY <1>5 DEF CalledAs, Writing
  <2>2. SignedIn(c)
    BY <1>1, <1>5, AnsweredFacts DEF Asked, Doing
  <2> QED
    BY <1>1, <1>2, <1>5, <2>1, <2>2, AnswerGoes DEF Places, Writing
<1>6. CASE Done(c)
  BY <1>1, <1>2, <1>6, JustEnds
<1> QED
  BY <1>3, <1>4, <1>5, <1>6 DEF Add

\* The next place is a CPUT that adds the entry, to the list just read.
LEMMA AddToGoes ==
  ASSUME DriveInv, NEW c \in Clients, Answered(c, pc[c]), pc[c] \in {"addGet", "movDest", "recGet"},
         UNCHANGED <<clock, path, view>>, SameTold,
         NEW at \in Ids, kv.list[at] # None, ~SameName(kv.list[at], loc[c].e.name),
         AddTo(c, at, kv.list[at]), loc[c].op = "new" => at = loc[c].at
  PROVE  DriveInv'
<1> DEFINE l == [loc[c] EXCEPT !.at = at, !.old = kv.list[at]]
<1>1. /\ loc[c].op \in {"new", "move", "recover"} /\ loc[c] \in Locals
      /\ ~Registering(c) /\ (loc[c].op = "new" => Making(c))
      /\ pc[c] \notin {"regCput", "putBody", "newGet"}
  BY Reading DEF CalledAs, Registering, Making, Doing, Writing
<1>2. kv.list[at] \in Folder
  BY Reading
<1>3. l \in Locals /\ l.e = loc[c].e /\ l.op = loc[c].op /\ l.at = at /\ l.old = kv.list[at]
  BY <1>1, <1>2 DEF Locals
<1>4. To(c, "add", l)
  BY DEF AddTo
<1> HIDE DEF l
<1>5. CalledAs("add", l.op) /\ ~SameName(l.old, l.e.name)
  BY <1>1, <1>3 DEF CalledAs, Writing
<1>6. (Doing(c, {"rename", "sign_in"}) => FALSE) /\ "add" \notin Writing /\ "add" \in Places \ {"newGet"}
  BY <1>1 DEF Doing, Writing, Places
<1> QED
  BY <1>1, <1>3, <1>4, <1>5, <1>6, AnswerGoes

\* The entry will go back to the folder that the page shows.
LEMMA RecoverGoes ==
  ASSUME DriveInv, NEW c \in Clients, Answered(c, pc[c]), loc[c].op = "move",
         pc[c] \in {"addGet", "movDest"}, UNCHANGED <<clock, path, view>>, SameTold, Recover(c)
  PROVE  DriveInv'
<1> DEFINE l == [loc[c] EXCEPT !.op = "recover", !.at = Here(c)]
<1>1. Here(c) \in Ids /\ loc[c] \in Locals
  BY Reading, AnsweredFacts DEF Asked, Doing
<1>2. l \in Locals /\ l.e = loc[c].e /\ l.op = "recover"
  BY <1>1 DEF Locals, Ops
<1>3. To(c, "recGet", l)
  BY DEF Recover
<1> HIDE DEF l
<1>4. /\ CalledAs("recGet", l.op) /\ Doing(c, {"move", "recover"}) /\ ~Registering(c)
      /\ "recGet" \notin Writing /\ "recGet" \in Places \ {"newGet"}
  BY <1>2 DEF CalledAs, Writing, Doing, Registering, Places
<1> QED
  BY <1>1, <1>2, <1>3, <1>4, AnswerGoes

LEMMA AddGetDrive ==
  ASSUME DriveInv, NEW c \in Clients, AddGet(c)
  PROVE  DriveInv'
<1>1. Answered(c, pc[c]) /\ pc[c] = "addGet" /\ UNCHANGED <<clock, path, view>> /\ SameTold
  BY Reading DEF AddGet, Answered
<1>2. /\ loc[c].op \in {"new", "move", "recover"} /\ loc[c] \in Locals /\ loc[c].at \in Ids
      /\ ~Registering(c) /\ SignedIn(c)
  BY <1>1, Reading, AnsweredFacts DEF CalledAs, Registering, Making, Doing, Writing, Asked
<1>3. CASE /\ kv.list[loc[c].at] # None /\ ~SameName(kv.list[loc[c].at], loc[c].e.name)
           /\ AddTo(c, loc[c].at, kv.list[loc[c].at])
  BY <1>1, <1>2, <1>3, AddToGoes
<1>4. CASE loc[c].op = "move" /\ Recover(c)
  BY <1>1, <1>4, RecoverGoes
<1>5. CASE loc[c].op = "move" /\ To(c, "reload", loc[c])
  <2>1. CalledAs("reload", loc[c].op)
    BY <1>5 DEF CalledAs, Writing
  <2> QED
    BY <1>1, <1>2, <1>5, <2>1, AnswerGoes DEF Places, Writing
<1>6. CASE Done(c)
  BY <1>1, <1>2, <1>6, JustEnds
<1>7. CASE loc[c].op = "new" /\ To(c, "page", loc[c])
  <2>1. CalledAs("page", loc[c].op)
    BY <1>7 DEF CalledAs, Writing
  <2> QED
    BY <1>1, <1>2, <1>7, <2>1, AnswerGoes DEF Places, Writing
<1> QED
  BY <1>3, <1>4, <1>5, <1>6, <1>7 DEF AddGet

LEMMA MoveDestDrive ==
  ASSUME DriveInv, NEW c \in Clients, MoveDest(c)
  PROVE  DriveInv'
<1>1. Answered(c, pc[c]) /\ pc[c] = "movDest" /\ UNCHANGED <<clock, path, view>> /\ SameTold
  BY Reading DEF MoveDest, Answered
<1>2. loc[c].op = "move" /\ loc[c].dest \in Ids
  BY <1>1, Reading DEF CalledAs
<1>3. CASE Recover(c)
  BY <1>1, <1>2, <1>3, RecoverGoes
<1>4. CASE /\ kv.list[loc[c].dest] # None /\ ~SameName(kv.list[loc[c].dest], loc[c].e.name)
           /\ AddTo(c, loc[c].dest, kv.list[loc[c].dest])
  BY <1>1, <1>2, <1>4, AddToGoes
<1> QED
  BY <1>3, <1>4 DEF MoveDest

LEMMA RecoverGetDrive ==
  ASSUME DriveInv, NEW c \in Clients, RecoverGet(c)
  PROVE  DriveInv'
<1>1. Answered(c, pc[c]) /\ pc[c] = "recGet" /\ UNCHANGED <<clock, path, view>> /\ SameTold
  BY Reading DEF RecoverGet, Answered
<1>2. loc[c].op = "recover" /\ loc[c].at \in Ids /\ ~Registering(c)
  BY <1>1, Reading DEF CalledAs, Registering, Doing
<1>3. CASE Done(c)
  BY <1>1, <1>2, <1>3, JustEnds
<1>4. CASE /\ kv.list[loc[c].at] # None /\ ~SameName(kv.list[loc[c].at], loc[c].e.name)
           /\ AddTo(c, loc[c].at, kv.list[loc[c].at])
  BY <1>1, <1>2, <1>4, AddToGoes
<1> QED
  BY <1>3, <1>4 DEF RecoverGet

LEMMA RemoveGetDrive ==
  ASSUME DriveInv, NEW c \in Clients, RemoveGet(c)
  PROVE  DriveInv'
<1>1. /\ Answered(c, pc[c]) /\ pc[c] \in {"delGet", "movGet", "remGet"}
      /\ UNCHANGED <<clock, path, view>> /\ SameTold
  BY Reading DEF RemoveGet, Answered
<1>2. loc[c].op \in {"delete", "move"} /\ loc[c] \in Locals /\ ~Registering(c)
  BY <1>1, Reading DEF CalledAs, Registering, Writing
<1>3. CASE Done(c)
  BY <1>1, <1>2, <1>3, JustEnds
<1> DEFINE list == kv.list[loc[c].at]
           l == [loc[c] EXCEPT !.old = list, !.found = @ \/ Lists(list, loc[c].e.id)]
<1>4. CASE list # None /\ To(c, "remove", l)
  <2>1. list \in Folder /\ loc[c].found \in BOOLEAN
    BY <1>2, <1>4, Reading DEF Locals
  <2>2. (loc[c].found \/ Lists(list, loc[c].e.id)) \in BOOLEAN
    OBVIOUS
  <2>3. l \in Locals /\ l.e = loc[c].e /\ l.op = loc[c].op
    BY <1>2, <2>1, <2>2 DEF Locals
  <2> HIDE DEF l
  <2>4. /\ CalledAs("remove", l.op) /\ ~Doing(c, {"rename", "sign_in"})
        /\ "remove" \notin Writing /\ "remove" \in Places \ {"newGet"}
    BY <1>2, <2>3 DEF CalledAs, Writing, Doing, Places
  <2> QED
    BY <1>1, <1>2, <1>4, <2>3, <2>4, AnswerGoes
<1> QED
  BY <1>3, <1>4 DEF RemoveGet

LEMMA RemoveCputDrive ==
  ASSUME DriveInv, NEW c \in Clients, RemoveCput(c)
  PROVE  DriveInv'
<1>1. Answered(c, pc[c]) /\ pc[c] = "remove" /\ UNCHANGED <<clock, path, view>> /\ SameTold
  BY Reading DEF RemoveCput, Answered
<1>2. loc[c].op \in {"delete", "move"} /\ loc[c] \in Locals /\ ~Registering(c)
  BY <1>1, Reading DEF CalledAs, Registering, Writing
<1>3. CASE Done(c)
  BY <1>1, <1>2, <1>3, JustEnds
<1>4. ASSUME NEW p \in {"remGet", "delName", "movDest"}, To(c, p, loc[c]),
             p = "delName" => loc[c].op = "delete", p = "movDest" => loc[c].op = "move"
      PROVE  DriveInv'
  <2>1. /\ CalledAs(p, loc[c].op) /\ ~Doing(c, {"rename", "sign_in"})
        /\ p \notin Writing /\ p \in Places \ {"newGet"}
    BY <1>2, <1>4 DEF CalledAs, Writing, Doing, Places
  <2> QED
    BY <1>1, <1>2, <1>4, <2>1, AnswerGoes
<1> QED
  BY <1>3, <1>4 DEF RemoveCput

LEMMA DelNameDrive ==
  ASSUME DriveInv, NEW c \in Clients, DelName(c)
  PROVE  DriveInv'
<1>1. /\ Answered(c, pc[c]) /\ pc[c] = "delName" /\ UNCHANGED <<clock, path, view>> /\ SameTold
      /\ To(c, "delBody", loc[c])
  BY Reading DEF DelName, Answered
<1>2. loc[c].op = "delete" /\ loc[c] \in Locals /\ ~Registering(c)
  BY <1>1, Reading DEF CalledAs, Registering, Writing
<1>3. /\ CalledAs("delBody", loc[c].op) /\ ~Doing(c, {"rename", "sign_in"})
      /\ "delBody" \notin Writing /\ "delBody" \in Places \ {"newGet"}
  BY <1>2 DEF CalledAs, Writing, Doing, Places
<1> QED
  BY <1>1, <1>2, <1>3, AnswerGoes

LEMMA DelBodyDrive ==
  ASSUME DriveInv, NEW c \in Clients, DelBody(c)
  PROVE  DriveInv'
<1>1. /\ Answered(c, pc[c]) /\ pc[c] = "delBody" /\ UNCHANGED <<clock, path>> /\ SameTold
      /\ To(c, "idle", NoLoc)
  BY Reading DEF DelBody, Answered, Done
<1>2. ~Registering(c)
  BY <1>1 DEF Registering, Writing
<1>3. /\ view' \in [Clients -> SUBSET Item] /\ view'[c] \subseteq view[c]
      /\ \A d \in Clients \ {c} : view'[d] = view[d]
  BY DEF DelBody, DriveInv, CallType
<1>4. SignedIn(c) => \A e \in view'[c] : e.id \in 1 .. clock
  BY <1>3 DEF DriveInv, ClientOK, Numbered
<1> QED
  BY <1>1, <1>2, <1>3, <1>4, AnswerEnds

LEMMA RenameGetDrive ==
  ASSUME DriveInv, NEW c \in Clients, RenameGet(c)
  PROVE  DriveInv'
<1>1. Answered(c, pc[c]) /\ pc[c] = "renGet" /\ UNCHANGED <<clock, path, view>> /\ SameTold
  BY Reading DEF RenameGet, Answered
<1>2. loc[c].op = "rename" /\ loc[c] \in Locals /\ ~Registering(c)
  BY <1>1, Reading DEF CalledAs, Registering, Writing
<1>3. CASE Done(c)
  BY <1>1, <1>2, <1>3, JustEnds
<1> DEFINE list == kv.list[loc[c].at]
           l == [loc[c] EXCEPT !.old = list]
<1>4. CASE list # None /\ To(c, "renCput", l)
  <2>1. list \in Folder
    BY <1>2, <1>4, Reading
  <2>2. l \in Locals /\ l.e = loc[c].e /\ l.op = loc[c].op /\ l.at = loc[c].at /\ l.new = loc[c].new
    BY <1>2, <2>1 DEF Locals
  <2> HIDE DEF l
  <2>3. CalledAs("renCput", l.op) /\ "renCput" \notin Writing /\ "renCput" \in Places \ {"newGet"}
    BY <1>2, <2>2 DEF CalledAs, Writing, Places
  <2> QED
    BY <1>1, <1>2, <1>4, <2>2, <2>3, AnswerGoes
<1> QED
  BY <1>3, <1>4 DEF RenameGet

LEMMA RenameGoes ==
  ASSUME DriveInv, NEW c \in Clients, RenameCput(c) \/ RenameName(c)
  PROVE  DriveInv'
<1>1. /\ Answered(c, pc[c]) /\ pc[c] \in {"renCput", "renName"}
      /\ UNCHANGED <<clock, path, view>> /\ SameTold
  BY Reading DEF RenameCput, RenameName, Answered
<1>2. loc[c].op = "rename" /\ loc[c] \in Locals /\ ~Registering(c)
  BY <1>1, Reading DEF CalledAs, Registering, Writing
<1>3. PICK p \in {"renGet", "renName", "page"} : To(c, p, loc[c])
  BY DEF RenameCput, RenameName
<1>4. CalledAs(p, loc[c].op) /\ p \notin Writing /\ p \in Places \ {"newGet"}
  BY <1>2 DEF CalledAs, Writing, Places
<1>5. SignedIn(c)
  BY <1>1, <1>2, AnsweredFacts DEF Asked, Doing
<1> QED
  BY <1>1, <1>2, <1>3, <1>4, <1>5, AnswerGoes

\* What a page shows of a folder.
LEMMA ViewIs ==
  ASSUME DriveInv, NEW d \in Ids, kv.list[d] # None
  PROVE  View(kv.list[d]) \subseteq Item /\ \A e \in View(kv.list[d]) : e.id \in 1 .. clock
<1>1. kv.list[d] \in Seq(Item) /\ Known(kv, d)
  BY DEF DriveInv, StoreOK, Store, Folder
<1>2. \A i \in DOMAIN kv.list[d] : kv.list[d][i] \in Item
  BY <1>1
<1> QED
  BY <1>1, <1>2 DEF View, Known

\* The handler ends with a page of the folder that the user looks at.
LEMMA PageDrive ==
  ASSUME DriveInv, NEW c \in Clients, Reload(c) \/ Page(c)
  PROVE  DriveInv'
<1>1. Answered(c, pc[c]) /\ pc[c] \in {"reload", "page"} /\ UNCHANGED <<clock, path>> /\ SameTold
  BY Reading DEF Reload, Page, Answered
<1>2. ~Registering(c) /\ Here(c) \in Ids
  BY <1>1, Reading DEF Registering, Writing
<1>3. PICK p \in {"idle", "dead"} : To(c, p, NoLoc)
  BY DEF Reload, Page, Done
<1> DEFINE list == kv.list[Here(c)]
<1>4. PICK v \in SUBSET Item : view' = [view EXCEPT ![c] = v] /\ (v = view[c] \/ (list # None /\ v = View(list)))
  <2>1. view[c] \in SUBSET Item /\ view = [view EXCEPT ![c] = view[c]]
    BY DEF DriveInv, CallType
  <2>2. list # None => View(list) \in SUBSET Item
    BY <1>2, ViewIs
  <2>3. CASE UNCHANGED view
    BY <2>1, <2>3
  <2>4. CASE list # None /\ view' = [view EXCEPT ![c] = View(list)]
    BY <2>2, <2>4
  <2> QED
    BY <2>3, <2>4, <2>1 DEF Reload, Page
<1>5. /\ view' \in [Clients -> SUBSET Item] /\ view'[c] = v
      /\ \A d \in Clients \ {c} : view'[d] = view[d]
  BY <1>4 DEF DriveInv, CallType
<1>6. SignedIn(c) => \A e \in view'[c] : e.id \in 1 .. clock
  <2>1. SignedIn(c) => \A e \in view[c] : e.id \in 1 .. clock
    BY DEF DriveInv, ClientOK, Numbered
  <2>2. list # None => \A e \in View(list) : e.id \in 1 .. clock
    BY <1>2, ViewIs
  <2> QED
    BY <1>4, <1>5, <2>1, <2>2
<1> QED
  BY <1>1, <1>2, <1>3, <1>5, <1>6, AnswerEnds

LEMMA OpenGetDrive ==
  ASSUME DriveInv, NEW c \in Clients, OpenGet(c)
  PROVE  DriveInv'
<1>1. Answered(c, pc[c]) /\ pc[c] = "open" /\ UNCHANGED clock /\ SameTold
  BY Reading DEF OpenGet, Answered
<1>2. ~Registering(c) /\ loc[c].e.id \in Ids /\ path[c] \in Seq(Ids)
  BY <1>1, Reading DEF Registering, Writing
<1>3. CASE UNCHANGED <<path, view>> /\ (Done(c) \/ To(c, "dead", NoLoc))
  BY <1>1, <1>2, <1>3, JustEnds
<1> DEFINE id == loc[c].e.id  list == kv.list[id]  n == Len(path[c])
<1>4. CASE /\ list # None /\ Done(c)
           /\ path' = [path EXCEPT ![c] = Append(path[c], id)]
           /\ view' = [view EXCEPT ![c] = View(list)]
  <2>1. View(list) \subseteq Item /\ \A e \in View(list) : e.id \in 1 .. clock
    BY <1>2, <1>4, ViewIs
  <2>2. Append(path[c], id) \in Seq(Ids)
    BY <1>2
  <2>3. /\ path' \in [Clients -> Seq(Ids)] /\ view' \in [Clients -> SUBSET Item]
        /\ \A d \in Clients \ {c} : path'[d] = path[d] /\ view'[d] = view[d]
        /\ path'[c] = Append(path[c], id) /\ view'[c] = View(list)
    BY <1>4, <2>1, <2>2 DEF DriveInv, CallType
  <2>4. kv'.list[id] # None /\ Visited(kv', c) /\ told'.deleted = told.deleted
    <3>1. StoreAfter(c) /\ kv' = Effect(c) /\ c \notin stale
      BY <1>1, AnsweredFacts
    <3>2. kv'.list[id] # None
      BY <1>1, <1>2, <1>4, <3>1, EffectLists
    <3> QED
      BY <1>1, <3>1, <3>2 DEF StoreAfter, ClientOK, SameTold
  <2>5. Visited(kv, c)'
    <3> SUFFICES ASSUME NEW i \in DOMAIN path'[c]
                 PROVE  kv'.list[path'[c][i]] # None \/ path'[c][i] \in told.deleted
      BY <2>4 DEF Visited
    <3>1. /\ n \in Nat /\ DOMAIN path[c] = 1 .. n /\ i \in 1 .. n + 1
          /\ path'[c][n + 1] = id /\ \A j \in 1 .. n : path'[c][j] = path[c][j]
      BY <1>2, <2>3
    <3> HIDE DEF n
    <3>2. i = n + 1 \/ i \in 1 .. n
      BY <3>1
    <3> QED
      BY <2>4, <3>1, <3>2 DEF Visited
  <2> QED
    BY <1>1, <1>2, <1>4, <2>1, <2>3, <2>5, AnswerCloses DEF Done
<1> QED
  BY <1>3, <1>4 DEF OpenGet

-----------------------------------------------------------------------------
(* Answers that register, store and draw ids *)

\* The account keeps its folder.
LEMMA NoCrashKeeps ==
  ASSUME DriveInv, NEW c \in Clients, Frame(c), kv' = Effect(c), c \notin stale,
         UNCHANGED <<again, stale, crashes>>, pc[c] # "regCput",
         Registering(c) => Registering(c)' \/ kv'.list[Root] # None
  PROVE  NoCrash'
<1>1. kv'.pw = kv.pw
  <2>1. kv'.pw = IF pc[c] = "regCput" /\ kv.pw = None THEN c ELSE kv.pw
    BY EffectIs
  <2> QED
    BY <2>1
<1>2. kv.list[Root] # None => kv'.list[Root] # None
  BY Numbers, EffectLists
<1>3. \A d \in Clients : Registering(d) => Registering(d)' \/ kv'.list[Root] # None
  BY DEF Frame, Registering, Doing
<1> QED
  BY <1>1, <1>2, <1>3 DEF DriveInv, NoCrash

LEMMA RegCputDrive ==
  ASSUME DriveInv, NEW c \in Clients, RegCput(c)
  PROVE  DriveInv'
<1>1. Answered(c, pc[c]) /\ pc[c] = "regCput" /\ UNCHANGED <<clock, path, view>> /\ SameTold
  BY Reading DEF RegCput, Answered
<1>2. /\ StoreAfter(c) /\ kv' = Effect(c) /\ c \notin stale /\ again[c] = 0
      /\ UNCHANGED <<again, stale, crashes, ops>> /\ Asked(c)
  BY <1>1, AnsweredFacts
<1>3. /\ loc[c].op = "register" /\ loc[c] \in Locals /\ ~Registering(c) /\ ~Making(c)
      /\ Root \in Ids /\ c # None
  BY <1>1, Reading, Numbers, DriveAssumption DEF CalledAs, Registering, Making, Doing, Writing
<1>4. PICK p \in {"idle", "putName"}, l \in {NoLoc, loc[c]} :
        To(c, p, l) /\ (IF kv.pw = None THEN p = "putName" /\ l = loc[c] ELSE p = "idle" /\ l = NoLoc)
  BY DEF RegCput, Done
<1>5. /\ pc' \in [Clients -> Places] /\ loc' \in [Clients -> Locals]
      /\ pc'[c] = p /\ loc'[c] = l
      /\ \A d \in Clients \ {c} : pc'[d] = pc[d] /\ loc'[d] = loc[d]
  <2>1. p \in Places /\ l \in Locals
    BY <1>3, NoLocType DEF Places
  <2> QED
    BY <1>4, <2>1, Moved DEF DriveInv
<1>6. CallType'
  BY <1>1, <1>2, <1>5 DEF DriveInv, CallType, SameTold
<1>7. Frame(c)
  BY <1>1, <1>2, <1>5 DEF Frame, SameTold, DriveInv, CallType
<1>8. ~Making(c)' /\ (Registering(c)' <=> kv.pw = None)
  BY <1>3, <1>4, <1>5 DEF Making, Registering, Doing, Writing, NoLoc
<1>9. /\ kv'.pw = IF kv.pw = None THEN c ELSE kv.pw
      /\ kv'.list[Root] = kv.list[Root] /\ (kv.pw = None => kv.list[Root] = None)
  <2>1. kv'.pw = IF pc[c] = "regCput" /\ kv.pw = None THEN c ELSE kv.pw
    BY <1>2, EffectIs
  <2>2. kv'.list[Root] = kv.list[Root]
    BY <1>1, <1>2, <1>3, EffectIs DEF CputPlaces
  <2> QED
    BY <1>1, <2>1, <2>2 DEF DriveInv, StoreOK
<1>10. ClientOK(kv, c)' /\ Unmade(kv, c)'
  <2>1. CASE kv.pw = None
    <3>1. p = "putName" /\ l = loc[c] /\ loc'[c] = loc[c] /\ pc'[c] = "putName"
      BY <1>4, <1>5, <2>1
    <3>2. Called(c)' /\ AddsNew(c)' /\ Accepted(kv, c)'
      BY <1>3, <1>9, <2>1, <3>1 DEF Called, AddsNew, Accepted, Doing, Writing
    <3> QED
      BY <1>1, <1>2, <1>3, <1>6, <1>7, <1>8, <1>9, <2>1, <3>1, <3>2, CallerGoes
  <2>2. CASE kv.pw # None
    <3>1. pc'[c] = "idle" /\ loc'[c] = NoLoc
      BY <1>4, <1>5, <2>2
    <3>2. Visited(kv, c)'
      BY <1>1, <1>2 DEF StoreAfter, ClientOK, Visited, SameTold
    <3>3. SignedIn(c)' => \A e \in view'[c] : e.id \in 1 .. clock'
      BY <1>1 DEF DriveInv, ClientOK, Numbered, SignedIn
    <3> QED
      BY <1>2, <1>6, <1>7, <3>1, <3>2, <3>3, CallerIdle
  <2> QED
    BY <2>1, <2>2
<1>11. StoreOK(kv)'
  BY <1>1, <1>2, <1>6, <1>7, StoreKeeps DEF SameTold
<1>12. Drawn'
  <2>1. told'.deleted \subseteq 1 .. clock /\ ops <= ops' /\ pc'[c] # "newGet" /\ told'.stored = told.stored
    BY <1>1, <1>2, <1>4, <1>5 DEF DriveInv, Drawn, CallType, SameTold
  <2> QED
    BY <1>1, <1>6, <1>7, <1>8, <2>1, DrawnKeeps
<1>13. NoCrash'
  <2>1. \A d \in Clients : Registering(d) => Registering(d)'
    BY <1>3, <1>5 DEF Registering, Doing
  <2>2. kv'.pw # None => kv.pw # None \/ Registering(c)'
    BY <1>8, <1>9
  <2> QED
    BY <1>2, <1>9, <2>1, <2>2 DEF DriveInv, NoCrash
<1> QED
  BY <1>2, <1>6, <1>7, <1>10, <1>11, <1>12, <1>13, OthersKeep DEF DriveInv

LEMMA PutBodyDrive ==
  ASSUME DriveInv, NEW c \in Clients, PutBody(c)
  PROVE  DriveInv'
<1> DEFINE l == loc[c]  new == [e |-> l.e, at |-> l.at, by |-> c]  x == l.e.id
<1>1. /\ Answered(c, pc[c]) /\ pc[c] = "putBody" /\ UNCHANGED <<clock, path, view>>
      /\ \/ l.op = "register" /\ To(c, "open", l) /\ told' = [told EXCEPT !.registered = @ \cup {c}]
         \/ l.op = "new" /\ To(c, "page", l) /\ told' = [told EXCEPT !.stored = @ \cup {new}]
  BY DEF PutBody, Answered
<1>2. /\ StoreAfter(c) /\ kv' = Effect(c) /\ c \notin stale /\ again[c] = 0
      /\ UNCHANGED <<again, stale, crashes, ops>> /\ Asked(c) /\ Numbered(c)
  BY <1>1, AnsweredFacts
<1>3. /\ l \in Locals /\ l.e \in Item /\ l.at \in Ids /\ x \in Ids /\ Root \in Ids
      /\ told \in Told /\ clock \in Nat
  BY Reading, Numbers DEF DriveInv, CallType
<1>4. /\ l.op = "register" => Registering(c) /\ x = Root /\ l.e.dir
      /\ l.op = "new" => Making(c) /\ SignedIn(c)
  BY <1>1, <1>2, <1>3 DEF Registering, Making, Doing, Asked, Writing, NoEntry, Entry
<1>5. PICK p \in {"open", "page"} : To(c, p, l) /\ (IF p = "open" THEN l.op = "register" ELSE l.op = "new")
  BY <1>1
<1>6. /\ pc' \in [Clients -> Places] /\ loc' \in [Clients -> Locals]
      /\ pc'[c] = p /\ loc'[c] = l
      /\ \A d \in Clients \ {c} : pc'[d] = pc[d] /\ loc'[d] = loc[d]
  <2>1. p \in Places
    BY DEF Places
  <2> QED
    BY <1>3, <1>5, <2>1, Moved DEF DriveInv
<1>7. /\ told' \in Told
      /\ told'.deleted = told.deleted /\ told'.movers = told.movers
      /\ told'.renames = told.renames /\ told'.resent = told.resent
      /\ told'.registered = IF l.op = "register" THEN told.registered \cup {c} ELSE told.registered
      /\ told'.stored = IF l.op = "new" THEN told.stored \cup {new} ELSE told.stored
  <2>1. new \in [e : Item, at : Ids, by : Clients]
    BY <1>3
  <2> HIDE DEF new, l
  <2>2. CASE l.op = "register" /\ told' = [told EXCEPT !.registered = @ \cup {c}]
    BY <1>3, <2>2 DEF Told
  <2>3. CASE l.op = "new" /\ told' = [told EXCEPT !.stored = @ \cup {new}]
    BY <1>3, <2>1, <2>3 DEF Told
  <2> QED
    BY <1>1, <2>2, <2>3
<1> HIDE DEF l, x, new
<1>8. CallType'
  BY <1>1, <1>2, <1>6, <1>7 DEF DriveInv, CallType
<1>9. Frame(c)
  BY <1>1, <1>2, <1>3, <1>6, <1>7 DEF Frame
<1>10. ~Making(c)' /\ ~Registering(c)'
  BY <1>5, <1>6 DEF Making, Registering, Writing
<1>11. /\ kv'.pw = kv.pw
       /\ l.e.dir => kv'.list[x] = <<>> /\ kv'.list[x] # None
       /\ ~l.e.dir => kv'.body[x] = c
  <2>1. <<>> # None
    BY DriveAssumption, <<>> \in Folder DEF Folder, Item
  <2>2. kv'.pw = IF pc[c] = "regCput" /\ kv.pw = None THEN c ELSE kv.pw
    BY <1>2, EffectIs
  <2>3. l.e.dir => kv'.list[x] = <<>>
    BY <1>1, <1>2, <1>3, EffectIs DEF CputPlaces, l, x
  <2>4. ~l.e.dir => kv'.body[x] = c
    BY <1>1, <1>2, <1>3, EffectIs DEF l, x
  <2> QED
    BY <1>1, <2>1, <2>2, <2>3, <2>4
<1>12. l.op = "register" => kv'.pw = c /\ kv'.list[Root] # None
  BY <1>4, <1>11 DEF DriveInv, ClientOK, Accepted
<1>13. ClientOK(kv, c)' /\ Unmade(kv, c)'
  <2>1. Called(c)'
    BY <1>1, <1>4, <1>5, <1>6 DEF Called, Doing, SignedIn, Writing
  <2>2. AddsNew(c)' /\ Accepted(kv, c)' /\ pc'[c] # "putBody"
    BY <1>5, <1>6, <1>10, <1>12 DEF AddsNew, Accepted, Doing
  <2>3. loc'[c] = loc[c] /\ path'[c] = path[c] /\ view'[c] = view[c]
    BY <1>1, <1>6 DEF l
  <2> QED
    BY <1>2, <1>8, <1>9, <1>10, <2>1, <2>2, <2>3, CallerGoes
<1>14. StoreOK(kv)'
  <2>1. /\ kv' \in Store /\ (kv'.pw = None => kv'.list[Root] = None)
        /\ \A d \in Ids : Known(kv, d)' /\ Unique(kv, d)'
        /\ \A d \in told.registered : kv'.pw = d
        /\ \A s \in told.stored : OnlyAt(kv, s.e.id, s.at)' /\ Kept(kv, s.e.id, s.at)' /\ HasContent(kv, s)'
    BY <1>2, <1>8, <1>9, OthersKeep
  <2>2. \A d \in told'.registered : kv'.pw = d
    BY <1>7, <1>12, <2>1
  <2>3. ASSUME NEW s, s = new, l.op = "new"
        PROVE  OnlyAt(kv, s.e.id, s.at)' /\ Kept(kv, s.e.id, s.at)' /\ HasContent(kv, s)'
    <3>1. OnlyAt(kv', s.e.id, s.at) /\ Kept(kv', s.e.id, s.at)
      BY <1>1, <1>2, <1>4, <2>3 DEF StoreAfter, ClientOK, Pending, Writing, new, l
    <3>2. OnlyAt(kv, s.e.id, s.at)' /\ Kept(kv, s.e.id, s.at)'
      BY <1>2, <1>8, <1>9, <3>1, OthersKeep
    <3>3. s.e = l.e /\ s.by = c /\ s.e.id = x
      BY <2>3 DEF new, x
    <3> QED
      BY <1>11, <3>2, <3>3 DEF HasContent
  <2>4. \A s \in told'.stored : OnlyAt(kv, s.e.id, s.at)' /\ Kept(kv, s.e.id, s.at)' /\ HasContent(kv, s)'
    <3> SUFFICES ASSUME NEW s \in told'.stored
                 PROVE  OnlyAt(kv, s.e.id, s.at)' /\ Kept(kv, s.e.id, s.at)' /\ HasContent(kv, s)'
      OBVIOUS
    <3>1. CASE s \in told.stored
      BY <2>1, <3>1
    <3>2. CASE l.op = "new" /\ s = new
      BY <2>3, <3>2
    <3> QED
      BY <1>7, <3>1, <3>2
  <2> QED
    BY <2>1, <2>2, <2>4 DEF StoreOK
<1>15. Drawn'
  <2>1. \A d \in Clients : Making(d)' => Making(d) /\ loc'[d] = loc[d] /\ d # c
    BY <1>6, <1>10 DEF Making, Doing
  <2>2. NewGets' = NewGets
    BY <1>1, <1>5, <1>6 DEF NewGets
  <2>3. l.op = "new" => x \in 1 .. clock
    <3>1. l.op = "new" => x # 0 /\ x \in 0 .. clock
      BY <1>2, <1>4 DEF Numbered, Root, l, x
    <3> QED
      BY <1>3, <3>1
  <2>4. \A s \in told'.stored : s.e.id \in 1 .. clock
    BY <1>7, <2>3 DEF DriveInv, Drawn, new, x
  <2>5. ASSUME NEW d \in Clients, Making(d)', NEW s \in told'.stored
        PROVE  s.e.id # loc'[d].e.id
    <3>1. CASE s \in told.stored
      BY <2>1, <2>5, <3>1 DEF DriveInv, Drawn
    <3>2. CASE l.op = "new" /\ s = new
      BY <1>4, <2>1, <2>5, <3>2 DEF DriveInv, Drawn, new, l
    <3> QED
      BY <1>7, <3>1, <3>2
  <2> QED
    BY <1>1, <1>2, <1>7, <2>1, <2>2, <2>4, <2>5 DEF DriveInv, Drawn
<1>16. NoCrash'
  BY <1>1, <1>2, <1>4, <1>9, <1>12, NoCrashKeeps DEF Registering, Making, Doing
<1> QED
  BY <1>2, <1>8, <1>9, <1>13, <1>14, <1>15, <1>16, OthersKeep DEF DriveInv

LEMMA NewGetDrive ==
  ASSUME DriveInv, NEW c \in Clients, NewGet(c)
  PROVE  DriveInv'
<1> DEFINE list == kv.list[loc[c].at]  l == [loc[c] EXCEPT !.e.id = clock + 1, !.old = list]
<1>1. /\ Answered(c, pc[c]) /\ pc[c] = "newGet" /\ UNCHANGED <<path, view, told>> /\ SameTold
      /\ \/ To(c, "page", loc[c]) /\ UNCHANGED clock
         \/ /\ list # None /\ ~SameName(list, loc[c].e.name)
            /\ clock' = clock + 1 /\ To(c, "add", l)
  BY Reading DEF NewGet, Answered
<1>2. /\ StoreAfter(c) /\ kv' = Effect(c) /\ c \notin stale /\ again[c] = 0
      /\ UNCHANGED <<again, stale, crashes, ops>> /\ Asked(c)
  BY <1>1, AnsweredFacts
<1>3. /\ loc[c] \in Locals /\ loc[c].op = "new" /\ loc[c].at \in Ids /\ SignedIn(c)
      /\ ~Registering(c) /\ ~Making(c) /\ clock \in Nat
  BY <1>1, <1>2, Reading DEF CalledAs, Asked, Registering, Making, Doing, Writing, DriveInv, CallType
<1>4. list # None => l \in Locals /\ l.e.id = clock + 1 /\ l.e.name = loc[c].e.name /\ l.at = loc[c].at
                     /\ l.op = "new" /\ l.old = list
  <2>1. list # None => list \in Folder
    BY <1>3, Reading
  <2> HIDE DEF list
  <2>2. loc[c].e \in Item /\ clock + 1 \in Nat
    BY <1>3 DEF Locals
  <2>3. [loc[c].e EXCEPT !.id = clock + 1] \in Item
    BY <2>2 DEF Item
  <2> QED
    BY <1>3, <2>1, <2>2, <2>3 DEF Locals, Item
<1> HIDE DEF l
<1>5. PICK p \in {"page", "add"}, m \in {loc[c], l} :
        /\ To(c, p, m) /\ m \in Locals
        /\ IF p = "page" THEN m = loc[c] /\ clock' = clock
           ELSE m = l /\ clock' = clock + 1 /\ list # None /\ ~SameName(list, loc[c].e.name)
  BY <1>1, <1>3, <1>4
<1> HIDE DEF list
<1>6. /\ pc' \in [Clients -> Places] /\ loc' \in [Clients -> Locals]
      /\ pc'[c] = p /\ loc'[c] = m
      /\ \A d \in Clients \ {c} : pc'[d] = pc[d] /\ loc'[d] = loc[d]
  <2>1. p \in Places
    BY DEF Places
  <2> QED
    BY <1>5, <2>1, Moved DEF DriveInv
<1>7. clock' \in Nat /\ clock <= clock' /\ clock' \in {clock, clock + 1}
  BY <1>3, <1>5
<1>8. CallType'
  BY <1>1, <1>2, <1>6, <1>7 DEF DriveInv, CallType
<1>9. Frame(c)
  BY <1>1, <1>2, <1>6, <1>7 DEF Frame
<1>10. ~Registering(c)' /\ (Making(c)' <=> p = "add") /\ m.op = "new" /\ pc'[c] \notin Writing
  BY <1>3, <1>4, <1>5, <1>6 DEF Making, Registering, Writing, Doing
<1>11. \A d \in Ids : kv'.list[d] # None =>
         d # clock + 1 /\ \A i \in DOMAIN kv'.list[d] : kv'.list[d][i].id # clock + 1
  <2>1. \A d \in Ids : Known(kv', d)
    BY <1>2 DEF StoreAfter, StoreOK
  <2>2. clock + 1 \notin 1 .. clock /\ clock + 1 \notin 0 .. clock
    BY <1>3
  <2> QED
    BY <2>1, <2>2 DEF Known
<1>12. clock + 1 \in Ids
  BY <1>1, Numbers DEF NewGets
<1>13. ClientOK(kv, c)' /\ Unmade(kv, c)'
  <2>1. Called(c)' /\ AddsNew(c)' /\ SentAgain(c)' /\ Accepted(kv, c)'
    BY <1>1, <1>3, <1>4, <1>5, <1>6, <1>10 DEF Called, AddsNew, SentAgain, Accepted, Doing, Writing, SignedIn
  <2>2. Asked(c)'
    BY <1>1, <1>3, <1>6, <1>10 DEF Asked, Doing, SignedIn
  <2>3. Visited(kv, c)'
    BY <1>1, <1>2 DEF StoreAfter, ClientOK, Visited
  <2>4. Numbered(c)'
    <3>1. Numbered(c)
      BY DEF DriveInv, ClientOK
    <3>2. \A i : (i \in 1 .. clock => i \in 1 .. clock') /\ (i \in 0 .. clock => i \in 0 .. clock')
      BY <1>3, <1>7
    <3>3. SignedIn(c)' => \A e \in view'[c] : e.id \in 1 .. clock'
      BY <1>1, <3>1, <3>2 DEF Numbered, SignedIn
    <3>4. m.e.id \in 0 .. clock'
      <4>1. CASE p = "page"
        BY <1>5, <3>1, <3>2, <4>1 DEF Numbered
      <4>2. CASE p = "add"
        BY <1>3, <1>4, <1>5, <4>2
      <4> QED
        BY <4>1, <4>2
    <3>5. p = "add" => m.e.id # 0
      BY <1>3, <1>4, <1>5
    <3> QED
      BY <1>6, <1>10, <3>3, <3>4, <3>5 DEF Numbered, Doing, Root
  <2>5. Making(c)' => \A d \in Ids : ~ListedAt(kv', m.e.id, d)
    BY <1>4, <1>5, <1>10, <1>11 DEF ListedAt
  <2>6. Pending(kv, c)'
    BY <1>6, <1>10, <2>5 DEF Pending, OnlyAt, ListedAt
  <2>7. Unmade(kv, c)'
    BY <1>4, <1>5, <1>6, <1>10, <1>11, <1>12 DEF Unmade
  <2> QED
    BY <2>1, <2>2, <2>3, <2>4, <2>6, <2>7 DEF ClientOK
<1>14. StoreOK(kv)'
  BY <1>1, <1>2, <1>8, <1>9, StoreKeeps
<1>15. Drawn'
  <2>1. NewGets' = NewGets \ {c} /\ c \in NewGets
    BY <1>1, <1>5, <1>6 DEF NewGets
  <2>2. clock' + Cardinality(NewGets') <= ops' + 2
    <3>1. Cardinality(NewGets') = Cardinality(NewGets) - 1 /\ Cardinality(NewGets) \in Nat
      BY <2>1, Numbers, FS_RemoveElement
    <3>2. clock + Cardinality(NewGets) <= ops + 2 /\ ops \in Nat
      BY DEF DriveInv, Drawn, CallType
    <3> QED
      BY <1>2, <1>3, <1>7, <3>1, <3>2
  <2>3. \A i : i \in 1 .. clock => i \in 1 .. clock'
    BY <1>3, <1>7
  <2>4. \A d \in Clients \ {c} : (Making(d)' <=> Making(d)) /\ loc'[d] = loc[d]
    BY <1>6 DEF Making, Doing
  <2>5. Making(c)' => loc'[c].e.id = clock + 1
    BY <1>4, <1>5, <1>6, <1>10
  <2>6. \A d \in Clients : loc[d].e.id # clock + 1
    <3>1. \A d \in Clients : loc[d].e.id \in 0 .. clock
      BY DEF DriveInv, ClientOK, Numbered
    <3>2. clock + 1 \notin 0 .. clock
      BY <1>3
    <3> QED
      BY <3>1, <3>2
  <2>7. \A s \in told.stored : s.e.id # clock + 1
    <3>1. \A s \in told.stored : s.e.id \in 1 .. clock
      BY DEF DriveInv, Drawn
    <3>2. clock + 1 \notin 1 .. clock
      BY <1>3
    <3> QED
      BY <3>1, <3>2
  <2>8. \A a, b \in Clients : Making(a)' /\ Making(b)' /\ loc'[a].e.id = loc'[b].e.id => a = b
    BY <2>4, <2>5, <2>6 DEF DriveInv, Drawn
  <2>9. \A d \in Clients : Making(d)' => \A s \in told'.stored : s.e.id # loc'[d].e.id
    BY <1>1, <2>4, <2>5, <2>7 DEF DriveInv, Drawn
  <2> QED
    BY <1>1, <2>2, <2>3, <2>8, <2>9 DEF DriveInv, Drawn
<1>16. NoCrash'
  BY <1>1, <1>2, <1>3, <1>9, NoCrashKeeps
<1> QED
  BY <1>2, <1>8, <1>9, <1>13, <1>14, <1>15, <1>16, OthersKeep DEF DriveInv

-----------------------------------------------------------------------------
(* Commands sent again, and deaths of the primary *)

\* A client that stands where it was.
LEMMA SameCaller ==
  ASSUME DriveInv, NEW c \in Clients, StoreAfter(c), CallType', Frame(c),
         UNCHANGED <<clock, pc, loc, path, view>>, SentAgain(c)'
  PROVE  ClientOK(kv, c)'
<1>1. /\ Called(c) /\ Asked(c) /\ Numbered(c) /\ AddsNew(c)
      /\ Accepted(kv', c) /\ Visited(kv', c) /\ Pending(kv', c)
  BY DEF StoreAfter, ClientOK
<1>2. Called(c)' /\ Numbered(c)' /\ AddsNew(c)' /\ Accepted(kv, c)'
  BY <1>1 DEF Called, Numbered, AddsNew, Accepted, Making, Registering, Doing, SignedIn
<1>3. Asked(c)' /\ Visited(kv, c)'
  BY <1>1 DEF Asked, Visited, Frame, Doing, SignedIn
<1>4. Pending(kv, c)'
  <2>1. \A id, at : (OnlyAt(kv', id, at) => OnlyAt(kv, id, at)') /\ (Kept(kv', id, at) => Kept(kv, id, at)')
    BY OthersKeep
  <2>2. Making(c)' => /\ OnlyAt(kv', loc[c].e.id, loc[c].at)
                      /\ pc[c] \in Writing => Kept(kv', loc[c].e.id, loc[c].at)
    BY <1>1 DEF Pending, Making, Doing
  <2>3. PICK id, at : id = loc[c].e.id /\ at = loc[c].at
    OBVIOUS
  <2>4. Making(c)' => OnlyAt(kv, id, at)' /\ (pc[c] \in Writing => Kept(kv, id, at)')
    BY <2>1, <2>2, <2>3
  <2>5. id = loc'[c].e.id /\ at = loc'[c].at /\ pc'[c] = pc[c]
    BY <2>3
  <2> QED
    BY <2>4, <2>5 DEF Pending
<1> QED
  BY <1>2, <1>3, <1>4 DEF ClientOK

LEMMA SendAgainDrive ==
  ASSUME DriveInv, NEW c \in Clients, SendAgain(c)
  PROVE  DriveInv'
<1>1. /\ c \notin stale /\ again[c] > 0 /\ kv' = Effect(c) /\ again' = [again EXCEPT ![c] = @ - 1]
      /\ UNCHANGED <<clock, pc, loc, path, view, stale, crashes, ops, told>>
  BY DEF SendAgain
<1>2. StoreAfter(c)
  BY <1>1, EffectKeeps DEF StoreAfter
<1>3. /\ again' \in [Clients -> Nat] /\ again'[c] = again[c] - 1 /\ again[c] \in Nat
      /\ \A d \in Clients \ {c} : again'[d] = again[d]
  BY <1>1 DEF DriveInv, CallType
<1>4. CallType' /\ Frame(c)
  BY <1>1, <1>3 DEF DriveInv, CallType, Frame
<1>5. SentAgain(c)'
  BY <1>1 DEF DriveInv, ClientOK, SentAgain
<1>6. ClientOK(kv, c)'
  BY <1>1, <1>2, <1>4, <1>5, SameCaller
<1>7. Unmade(kv, c)'
  <2>1. pc[c] # "putBody" => Unmade(kv', c)
    BY <1>2 DEF StoreAfter
  <2>2. pc[c] = "putBody" => loc[c].e.id \in told.resent
    BY <1>1 DEF DriveInv, ClientOK, SentAgain
  <2> QED
    BY <1>1, <2>1, <2>2 DEF Unmade, Making, Registering, Doing
<1>8. StoreOK(kv)'
  BY <1>1, <1>2, <1>4, StoreKeeps
<1>9. Drawn' /\ NoCrash'
  BY <1>1 DEF DriveInv, Drawn, NoCrash, NewGets, Making, Doing
<1> QED
  BY <1>2, <1>4, <1>6, <1>7, <1>8, <1>9, OthersKeep DEF DriveInv

\* The store as it is.
LEMMA StoreStands ==
  ASSUME DriveInv, NEW c \in Clients, UNCHANGED kv
  PROVE  StoreAfter(c)
BY DEF DriveInv, StoreAfter

LEMMA ReconnectDrive ==
  ASSUME DriveInv, NEW c \in Clients, Reconnect(c)
  PROVE  DriveInv'
<1>1. /\ c \in stale /\ stale' = stale \ {c} /\ again' = [again EXCEPT ![c] = @ + 1]
      /\ told' = IF pc[c] = "putBody" THEN [told EXCEPT !.resent = @ \cup {loc[c].e.id}] ELSE told
      /\ UNCHANGED <<kv, clock, pc, loc, path, view, crashes, ops>>
  BY DEF Reconnect
<1>2. StoreAfter(c)
  BY <1>1, StoreStands
<1>3. /\ again' \in [Clients -> Nat] /\ \A d \in Clients \ {c} : again'[d] = again[d]
  BY <1>1 DEF DriveInv, CallType
<1>4. loc[c].e.id \in Nat /\ told \in Told
  BY Reading DEF Item, DriveInv, CallType
<1>5. /\ told' \in Told /\ told'.registered = told.registered /\ told'.stored = told.stored
      /\ told'.deleted = told.deleted /\ told'.movers = told.movers /\ told'.renames = told.renames
      /\ told.resent \subseteq told'.resent /\ (pc[c] = "putBody" => loc[c].e.id \in told'.resent)
  <2>1. CASE pc[c] = "putBody"
    <3>1. told' = [told EXCEPT !.resent = @ \cup {loc[c].e.id}]
      BY <1>1, <2>1
    <3> QED
      BY <1>4, <3>1 DEF Told
  <2>2. CASE pc[c] # "putBody"
    BY <1>1, <1>4, <2>2
  <2> QED
    BY <2>1, <2>2
<1>6. CallType'
  BY <1>1, <1>3, <1>5 DEF DriveInv, CallType
<1>7. Frame(c)
  BY <1>1, <1>3, <1>5 DEF DriveInv, CallType, Frame
<1>8. ClientOK(kv, c)'
  <2>1. SentAgain(c)'
    BY <1>1, <1>5 DEF SentAgain
  <2> QED
    BY <1>1, <1>2, <1>6, <1>7, <2>1, SameCaller
<1>9. Unmade(kv, c)'
  <2>1. Unmade(kv, c)
    BY DEF DriveInv
  <2> QED
    BY <1>1, <1>5, <2>1 DEF Unmade, Making, Registering, Doing
<1>10. StoreOK(kv)'
  BY <1>2, <1>5, <1>6, <1>7, StoreKeeps
<1>11. Drawn' /\ NoCrash'
  BY <1>1, <1>5 DEF DriveInv, Drawn, NoCrash, NewGets, Making, Doing
<1> QED
  BY <1>2, <1>6, <1>7, <1>8, <1>9, <1>10, <1>11, OthersKeep DEF DriveInv

LEMMA CrashDrive ==
  ASSUME DriveInv, Crash
  PROVE  DriveInv'
<1>1. /\ crashes' = crashes + 1 /\ stale' = Clients
      /\ UNCHANGED <<clock, pc, loc, path, view, again, ops, told>>
      /\ (\E c \in Clients : c \notin stale /\ kv' = Effect(c)) \/ UNCHANGED kv
  BY DEF Crash
<1>2. CallType'
  BY <1>1 DEF DriveInv, CallType
<1>3. NoCrash' /\ Drawn'
  <2>1. crashes' # 0
    BY <1>1 DEF DriveInv, CallType
  <2> QED
    BY <1>1, <2>1 DEF DriveInv, Drawn, NoCrash, NewGets, Making, Doing
<1>4. \A c \in Clients : Frame(c)
  BY <1>1, <1>2 DEF Frame, CallType
<1>5. StoreOK(kv') /\ \A d \in Clients : ClientOK(kv', d)
  BY <1>1, EffectKeeps DEF DriveInv
<1>6. \A d \in Clients : Unmade(kv', d) \/ pc[d] = "putBody"
  BY <1>1, EffectKeeps DEF DriveInv
<1>7. \A d \in Clients : Unmade(kv, d)'
  BY <1>1, <1>6 DEF Unmade, Making, Registering, Doing
<1>8. StoreOK(kv)'
  BY <1>1, <1>5 DEF StoreOK, Known, Unique, OnlyAt, Kept, HasContent, Untouched, ListedAt
<1>9. ASSUME NEW d \in Clients PROVE ClientOK(kv, d)'
  <2>1. /\ Called(d) /\ Asked(d) /\ Numbered(d) /\ AddsNew(d) /\ SentAgain(d)
        /\ Accepted(kv', d) /\ Visited(kv', d) /\ Pending(kv', d)
    BY <1>5 DEF ClientOK
  <2>2. Called(d)' /\ Asked(d)' /\ Numbered(d)' /\ AddsNew(d)' /\ SentAgain(d)'
    BY <1>1, <2>1 DEF Called, Asked, Numbered, AddsNew, SentAgain, Making, Doing, SignedIn
  <2>3. Accepted(kv, d)' /\ Visited(kv, d)'
    BY <1>1, <2>1 DEF Accepted, Visited, Registering, Doing
  <2>4. Pending(kv, d)'
    BY <1>1, <2>1 DEF Pending, OnlyAt, Kept, Untouched, ListedAt, Making, Doing
  <2> QED
    BY <2>2, <2>3, <2>4 DEF ClientOK
<1> QED
  BY <1>2, <1>3, <1>7, <1>8, <1>9 DEF DriveInv

-----------------------------------------------------------------------------
(* Requests of the user *)

\* A handler begins.
LEMMA Begins ==
  ASSUME DriveInv, NEW c \in Clients, NEW p \in Places, NEW l \in Locals, Begin(c, p, l),
         p \in {"regGet", "signGet", "newGet", "delGet", "renGet", "movGet", "open", "reload", "page"},
         CalledAs(p, l.op), p \in {"page", "reload"} => SignedIn(c)', p = "open" => l.op = "open",
         l.op \in {"delete", "move", "rename"} => l.e.id \in 1 .. clock,
         l.e.id = Root \/ l.e.id \in 1 .. clock, l.op # "recover",
         UNCHANGED view, path' \in [Clients -> Seq(Ids)], \A d \in Clients \ {c} : path'[d] = path[d],
         SignedIn(c)' <=> SignedIn(c), Visited(kv, c)', Asked(c)',
         told' \in Told, told'.registered = told.registered, told'.stored = told.stored,
         told.deleted \subseteq told'.deleted, told'.deleted \subseteq 1 .. clock,
         told.movers \subseteq told'.movers, told.renames \subseteq told'.renames,
         told'.resent = told.resent
  PROVE  DriveInv'
<1>1. /\ pc[c] = "idle" /\ ops + crashes < MaxEvents /\ ops' = ops + 1 /\ To(c, p, l)
      /\ UNCHANGED <<kv, clock, again, stale, crashes>>
  BY DEF Begin
<1>2. /\ pc' \in [Clients -> Places] /\ loc' \in [Clients -> Locals]
      /\ pc'[c] = p /\ loc'[c] = l
      /\ \A d \in Clients \ {c} : pc'[d] = pc[d] /\ loc'[d] = loc[d]
  BY <1>1, Moved DEF DriveInv
<1>3. ops \in Nat /\ ops' \in 0 .. MaxEvents /\ ops <= ops' /\ clock \in Nat
  BY <1>1, DriveAssumption DEF DriveInv, CallType
<1>4. CallType'
  BY <1>1, <1>2, <1>3 DEF DriveInv, CallType
<1>5. Frame(c)
  BY <1>1, <1>2 DEF Frame, DriveInv, CallType
<1>6. StoreAfter(c)
  BY <1>1, StoreStands
<1>7. ~Making(c)' /\ ~Registering(c)' /\ pc'[c] # "add" /\ pc'[c] \notin Writing
  BY <1>2 DEF Making, Registering, Writing
<1>8. Called(c)'
  BY <1>2 DEF Called, CalledAs, Doing, SignedIn
<1>9. Numbered(c)'
  <2>1. Numbered(c)
    BY DEF DriveInv, ClientOK
  <2>2. \A i : i \in 1 .. clock => i \in 0 .. clock /\ i # Root
    BY <1>3 DEF Root
  <2>3. Root \in 0 .. clock
    BY <1>3 DEF Root
  <2> QED
    BY <1>1, <1>2, <1>7, <2>1, <2>2, <2>3 DEF Numbered, Doing
<1>10. /\ AddsNew(c)' /\ SentAgain(c)' /\ Accepted(kv, c)' /\ Pending(kv, c)' /\ Unmade(kv, c)'
  BY <1>2, <1>7 DEF AddsNew, SentAgain, Accepted, Pending, Unmade, Doing, Writing
<1>11. ClientOK(kv, c)'
  BY <1>8, <1>9, <1>10 DEF ClientOK
<1>12. StoreOK(kv)'
  BY <1>4, <1>5, <1>6, StoreKeeps
<1>13. NoCrash'
  <2>1. \A d \in Clients : Registering(d) => Registering(d)'
    BY <1>1, <1>2 DEF Registering, Doing, Writing
  <2> QED
    BY <1>1, <2>1 DEF DriveInv, NoCrash
<1>14. Drawn'
  <2>1. CASE p # "newGet"
    BY <1>1, <1>2, <1>3, <1>4, <1>5, <1>7, <2>1, DrawnKeeps
  <2>2. CASE p = "newGet"
    <3>1. NewGets' = NewGets \cup {c} /\ c \notin NewGets
      BY <1>1, <1>2, <2>2 DEF NewGets
    <3>2. Cardinality(NewGets') = Cardinality(NewGets) + 1 /\ Cardinality(NewGets) \in Nat
      BY <3>1, Numbers, FS_AddElement
    <3>3. clock + Cardinality(NewGets) <= ops + 2
      BY DEF DriveInv, Drawn
    <3>4. clock' + Cardinality(NewGets') <= ops' + 2
      BY <1>1, <1>3, <3>2, <3>3
    <3>5. \A d \in Clients : Making(d)' => Making(d) /\ loc'[d].e.id = loc[d].e.id
      BY <1>2, <1>7 DEF Making, Doing
    <3> QED
      BY <1>1, <3>4, <3>5 DEF DriveInv, Drawn
  <2> QED
    BY <2>1, <2>2
<1> QED
  BY <1>4, <1>5, <1>6, <1>10, <1>11, <1>12, <1>13, <1>14, OthersKeep DEF DriveInv

\* What a user that begins knows, and what it stands on.
LEMMA Beginning ==
  ASSUME DriveInv, NEW c \in Clients
  PROVE  /\ path \in [Clients -> Seq(Ids)] /\ path[c] \in Seq(Ids) /\ (SignedIn(c) => Here(c) \in Ids /\ Here(c) \in Nat)
         /\ SignedIn(c) => \A e \in view[c] : e \in Item /\ e.id \in 1 .. clock /\ e.id \in Ids /\ e.id \in Nat
         /\ Visited(kv, c) /\ told \in Told /\ told.deleted \subseteq 1 .. clock /\ ops \in Nat
         /\ NoLoc \in Locals
<1>1. /\ path[c] \in Seq(Ids) /\ view[c] \subseteq Item /\ clock \in Nat /\ ops \in Nat
      /\ path \in [Clients -> Seq(Ids)] /\ told \in Told
  BY DriveAssumption DEF DriveInv, CallType
<1>2. SignedIn(c) => \A e \in view[c] : e.id \in 1 .. clock
  BY DEF DriveInv, ClientOK, Numbered
<1>3. \A i \in 1 .. clock : i \in Nat /\ i \in 0 .. clock
  BY <1>1
<1>4. \A i \in 1 .. clock : i \in Ids
  BY <1>3, Numbers
<1>5. SignedIn(c) => Here(c) \in Ids /\ Here(c) \in Nat
  <2>1. SignedIn(c) => Here(c) \in Ids
    BY Reading
  <2>2. \A i \in Ids : i \in Nat
    BY DriveAssumption DEF Ids
  <2> QED
    BY <2>1, <2>2
<1> QED
  BY <1>1, <1>2, <1>3, <1>4, <1>5, NoLocType DEF DriveInv, ClientOK, Drawn

LEMMA SignsDrive ==
  ASSUME DriveInv, NEW c \in Clients, Signup(c) \/ Signin(c)
  PROVE  DriveInv'
<1>1. path[c] = <<>> /\ UNCHANGED <<path, view, told>>
  BY DEF Signup, Signin, SignedIn
<1>2. PICK p \in {"regGet", "signGet"}, l \in Locals :
        /\ Begin(c, p, l) /\ CalledAs(p, l.op) /\ l.op \in {"register", "sign_in"}
        /\ l.e = NoEntry /\ (l.op = "sign_in" => l.new \in Clients)
  <2>1. CASE Signup(c)
    <3> DEFINE l == [NoLoc EXCEPT !.op = "register"]
    <3>1. Begin(c, "regGet", l)
      BY <2>1 DEF Signup
    <3>2. l \in Locals /\ l.op = "register" /\ l.e = NoEntry
      BY NoLocType DEF Locals, Ops, NoLoc
    <3>3. CalledAs("regGet", "register")
      BY DEF CalledAs, Writing
    <3> HIDE DEF l
    <3> QED
      BY <3>1, <3>2, <3>3
  <2>2. CASE Signin(c)
    <3>1. PICK w \in Clients : Begin(c, "signGet", [NoLoc EXCEPT !.op = "sign_in", !.new = w])
      BY <2>2 DEF Signin
    <3> DEFINE l == [NoLoc EXCEPT !.op = "sign_in", !.new = w]
    <3>2. l \in Locals /\ l.op = "sign_in" /\ l.e = NoEntry /\ l.new = w
      BY NoLocType DEF Locals, Ops, NoLoc
    <3>3. CalledAs("signGet", "sign_in")
      BY DEF CalledAs, Writing
    <3> HIDE DEF l
    <3>4. Begin(c, "signGet", l)
      BY <3>1 DEF l
    <3> QED
      BY <3>2, <3>3, <3>4
  <2> QED
    BY <2>1, <2>2
<1>3. l.e.id = Root
  BY <1>2 DEF NoEntry, Entry
<1>4. pc'[c] = p /\ loc'[c] = l /\ p \in Places
  <2>1. p \in Places
    BY DEF Places
  <2> QED
    BY <1>2, <2>1, Moved DEF Begin, DriveInv
<1>5. Asked(c)' /\ Visited(kv, c)' /\ (SignedIn(c)' <=> SignedIn(c))
  BY <1>1, <1>2, <1>3, <1>4 DEF Asked, Doing, Visited, SignedIn
<1>6. /\ path' \in [Clients -> Seq(Ids)] /\ told' \in Told /\ told'.deleted \subseteq 1 .. clock
      /\ \A d \in Clients \ {c} : path'[d] = path[d]
  BY <1>1, Beginning
<1> QED
  BY <1>1, <1>2, <1>3, <1>4, <1>5, <1>6, Begins

\* A handler of a signed in user begins, and the user stays in the folder.
LEMMA BeginsIn ==
  ASSUME DriveInv, NEW c \in Clients, NEW p \in Places, NEW l \in Locals, Begin(c, p, l), SignedIn(c),
         p \in {"newGet", "delGet", "renGet", "movGet", "open", "page"},
         CalledAs(p, l.op), l.op \in {"open", "new", "delete", "move", "rename", "files"},
         p = "open" => l.op = "open",
         l.op \in {"delete", "move", "rename"} => l.e.id \in 1 .. clock,
         l.e.id = Root \/ l.e.id \in 1 .. clock,
         UNCHANGED <<path, view>>,
         told' \in Told, told'.registered = told.registered, told'.stored = told.stored,
         told.deleted \subseteq told'.deleted, told'.deleted \subseteq 1 .. clock,
         told.movers \subseteq told'.movers, told.renames \subseteq told'.renames,
         told'.resent = told.resent,
         l.op = "delete" => l.e.id \in told'.deleted,
         l.op = "move" => \E m \in told'.movers : m[2] = l.e.id,
         l.op = "rename" => <<l.at, l.new>> \in told'.renames /\ l.new \in NewNames
  PROVE  DriveInv'
<1>1. pc'[c] = p /\ loc'[c] = l
  BY Moved DEF Begin, DriveInv
<1>2. SignedIn(c)' /\ path' \in [Clients -> Seq(Ids)] /\ \A d \in Clients \ {c} : path'[d] = path[d]
  BY Beginning DEF SignedIn
<1>3. Asked(c)'
  BY <1>1, <1>2 DEF Asked, Doing
<1>4. Visited(kv, c)'
  <2>1. Visited(kv, c) /\ kv' = kv
    BY Beginning DEF Begin
  <2> QED
    BY <2>1 DEF Visited
<1> QED
  BY <1>2, <1>3, <1>4, Begins

LEMMA NewFileDrive ==
  ASSUME DriveInv, NEW c \in Clients, NewFile(c)
  PROVE  DriveInv'
<1>1. PICK n \in NewNames, dir \in BOOLEAN :
        Begin(c, "newGet", [NoLoc EXCEPT !.op = "new", !.e = Entry(Root, n, dir), !.at = Here(c)])
  BY DEF NewFile
<1> DEFINE l == [NoLoc EXCEPT !.op = "new", !.e = Entry(Root, n, dir), !.at = Here(c)]
<1>2. SignedIn(c) /\ UNCHANGED <<path, view, told>>
  BY DEF NewFile
<1>3. l \in Locals /\ l.op = "new" /\ l.e.id = Root
  <2>1. Entry(Root, n, dir) \in Item /\ Here(c) \in Ids
    BY <1>2, Beginning DEF Entry, Item, Names, Root
  <2> QED
    BY <2>1, NoLocType DEF Locals, Ops, NoLoc, Entry
<1>4. CalledAs("newGet", "new") /\ "newGet" \in Places
  BY DEF CalledAs, Writing, Places
<1> HIDE DEF l
<1>5. Begin(c, "newGet", l)
  BY <1>1 DEF l
<1> QED
  BY <1>2, <1>3, <1>4, <1>5, Beginning, BeginsIn

LEMMA DeleteFileDrive ==
  ASSUME DriveInv, NEW c \in Clients, DeleteFile(c)
  PROVE  DriveInv'
<1>1. PICK e \in view[c] :
        /\ Begin(c, "delGet", [NoLoc EXCEPT !.op = "delete", !.e = e, !.at = Here(c)])
        /\ told' = [told EXCEPT !.deleted = @ \cup {e.id}]
  BY DEF DeleteFile
<1> DEFINE l == [NoLoc EXCEPT !.op = "delete", !.e = e, !.at = Here(c)]
<1>2. SignedIn(c) /\ UNCHANGED <<path, view>>
  BY DEF DeleteFile
<1>3. e \in Item /\ e.id \in 1 .. clock /\ e.id \in Nat /\ Here(c) \in Ids
  BY <1>2, Beginning
<1>4. l \in Locals /\ l.op = "delete" /\ l.e = e
  BY <1>3, NoLocType DEF Locals, Ops, NoLoc
<1>5. CalledAs("delGet", "delete") /\ "delGet" \in Places
  BY DEF CalledAs, Writing, Places
<1> HIDE DEF l
<1>6. Begin(c, "delGet", l)
  BY <1>1 DEF l
<1>7. /\ told' \in Told /\ told'.registered = told.registered /\ told'.stored = told.stored
      /\ told'.deleted = told.deleted \cup {e.id} /\ told'.movers = told.movers
      /\ told'.renames = told.renames /\ told'.resent = told.resent
  BY <1>1, <1>3, Beginning DEF Told
<1>8. told'.deleted \subseteq 1 .. clock
  BY <1>3, <1>7, Beginning
<1> QED
  BY <1>2, <1>3, <1>4, <1>5, <1>6, <1>7, <1>8, BeginsIn

LEMMA RenameFileDrive ==
  ASSUME DriveInv, NEW c \in Clients, RenameFile(c)
  PROVE  DriveInv'
<1>1. PICK e \in view[c], n \in NewNames :
        /\ Begin(c, "renGet", [NoLoc EXCEPT !.op = "rename", !.e = e, !.at = Here(c), !.new = n])
        /\ told' = [told EXCEPT !.renames = @ \cup {<<Here(c), n>>}]
  BY DEF RenameFile
<1> DEFINE l == [NoLoc EXCEPT !.op = "rename", !.e = e, !.at = Here(c), !.new = n]
<1>2. SignedIn(c) /\ UNCHANGED <<path, view>>
  BY DEF RenameFile
<1>3. e \in Item /\ e.id \in 1 .. clock /\ Here(c) \in Ids /\ Here(c) \in Nat
  BY <1>2, Beginning
<1>4. l \in Locals /\ l.op = "rename" /\ l.e = e /\ l.at = Here(c) /\ l.new = n
  BY <1>3, NoLocType DEF Locals, Ops, NoLoc
<1>5. CalledAs("renGet", "rename") /\ "renGet" \in Places
  BY DEF CalledAs, Writing, Places
<1> HIDE DEF l
<1>6. Begin(c, "renGet", l)
  BY <1>1 DEF l
<1>7. /\ told' \in Told /\ told'.registered = told.registered /\ told'.stored = told.stored
      /\ told'.deleted = told.deleted /\ told'.movers = told.movers
      /\ told'.renames = told.renames \cup {<<Here(c), n>>} /\ told'.resent = told.resent
  <2> DEFINE r == <<Here(c), n>>
  <2>1. r \in Nat \X NewNames /\ told' = [told EXCEPT !.renames = @ \cup {r}] /\ told \in Told
    BY <1>1, <1>3, Beginning
  <2> HIDE DEF r
  <2>2. /\ told' \in Told /\ told'.registered = told.registered /\ told'.stored = told.stored
        /\ told'.deleted = told.deleted /\ told'.movers = told.movers
        /\ told'.renames = told.renames \cup {r} /\ told'.resent = told.resent
    BY <2>1 DEF Told
  <2> QED
    BY <2>2 DEF r
<1>8. told'.deleted \subseteq 1 .. clock
  BY <1>7, Beginning
<1> QED
  BY <1>2, <1>3, <1>4, <1>5, <1>6, <1>7, <1>8, BeginsIn

LEMMA MoveFileDrive ==
  ASSUME DriveInv, NEW c \in Clients, MoveFile(c)
  PROVE  DriveInv'
<1>1. PICK e \in view[c], d \in view[c] :
        /\ Begin(c, "movGet", [NoLoc EXCEPT !.op = "move", !.e = e, !.at = Here(c), !.dest = d.id])
        /\ told' = [told EXCEPT !.movers = @ \cup {<<ops, e.id, d.id>>}]
  BY DEF MoveFile
<1> DEFINE l == [NoLoc EXCEPT !.op = "move", !.e = e, !.at = Here(c), !.dest = d.id]
<1>2. SignedIn(c) /\ UNCHANGED <<path, view>>
  BY DEF MoveFile
<1>3. /\ e \in Item /\ e.id \in 1 .. clock /\ e.id \in Nat /\ d.id \in Nat /\ d.id \in Ids
      /\ Here(c) \in Ids /\ ops \in Nat
  BY <1>2, Beginning
<1>4. l \in Locals /\ l.op = "move" /\ l.e = e
  BY <1>3, NoLocType DEF Locals, Ops, NoLoc
<1>5. CalledAs("movGet", "move") /\ "movGet" \in Places
  BY DEF CalledAs, Writing, Places
<1> HIDE DEF l
<1>6. Begin(c, "movGet", l)
  BY <1>1 DEF l
<1>7. /\ told' \in Told /\ told'.registered = told.registered /\ told'.stored = told.stored
      /\ told'.deleted = told.deleted /\ told'.movers = told.movers \cup {<<ops, e.id, d.id>>}
      /\ told'.renames = told.renames /\ told'.resent = told.resent
  <2> DEFINE r == <<ops, e.id, d.id>>
  <2>1. r \in Nat \X Nat \X Nat /\ told' = [told EXCEPT !.movers = @ \cup {r}] /\ told \in Told
    BY <1>1, <1>3, Beginning
  <2> HIDE DEF r
  <2>2. /\ told' \in Told /\ told'.registered = told.registered /\ told'.stored = told.stored
        /\ told'.deleted = told.deleted /\ told'.movers = told.movers \cup {r}
        /\ told'.renames = told.renames /\ told'.resent = told.resent
    BY <2>1 DEF Told
  <2> QED
    BY <2>2 DEF r
<1>8. told'.deleted \subseteq 1 .. clock /\ \E m \in told'.movers : m[2] = e.id
  <2>1. <<ops, e.id, d.id>>[2] = e.id /\ <<ops, e.id, d.id>> \in told'.movers
    BY <1>7
  <2> QED
    BY <1>7, <2>1, Beginning
<1> QED
  BY <1>2, <1>3, <1>4, <1>5, <1>6, <1>7, <1>8, BeginsIn

LEMMA OpenFolderDrive ==
  ASSUME DriveInv, NEW c \in Clients, OpenFolder(c)
  PROVE  DriveInv'
<1>1. PICK e \in view[c] : Begin(c, "open", [NoLoc EXCEPT !.op = "open", !.e = e])
  BY DEF OpenFolder
<1> DEFINE l == [NoLoc EXCEPT !.op = "open", !.e = e]
<1>2. SignedIn(c) /\ UNCHANGED <<path, view, told>>
  BY DEF OpenFolder
<1>3. e \in Item /\ e.id \in 1 .. clock
  BY <1>2, Beginning
<1>4. l \in Locals /\ l.op = "open" /\ l.e = e
  BY <1>3, NoLocType DEF Locals, Ops, NoLoc
<1>5. CalledAs("open", "open") /\ "open" \in Places
  BY DEF CalledAs, Writing, Places
<1> HIDE DEF l
<1>6. Begin(c, "open", l)
  BY <1>1 DEF l
<1> QED
  BY <1>2, <1>3, <1>4, <1>5, <1>6, Beginning, BeginsIn

LEMMA FilesDrive ==
  ASSUME DriveInv, NEW c \in Clients, Files(c)
  PROVE  DriveInv'
<1> DEFINE l == [NoLoc EXCEPT !.op = "files"]
<1>1. SignedIn(c) /\ UNCHANGED <<path, view, told>> /\ Begin(c, "page", l)
  BY DEF Files
<1>2. l \in Locals /\ l.op = "files" /\ l.e.id = Root
  BY NoLocType DEF Locals, Ops, NoLoc, NoEntry, Entry
<1>3. CalledAs("page", "files") /\ "page" \in Places
  BY DEF CalledAs, Writing, Places
<1> HIDE DEF l
<1> QED
  BY <1>1, <1>2, <1>3, Beginning, BeginsIn

LEMMA GoBackDrive ==
  ASSUME DriveInv, NEW c \in Clients, GoBack(c)
  PROVE  DriveInv'
<1> DEFINE l == [NoLoc EXCEPT !.op = "back"]
<1>1. SignedIn(c) /\ UNCHANGED <<view, told>> /\ Begin(c, "reload", l)
  BY DEF GoBack
<1>2. PICK i \in 1 .. Len(path[c]) - 1 : path' = [path EXCEPT ![c] = SubSeq(path[c], 1, i)]
  BY DEF GoBack
<1>3. l \in Locals /\ l.op = "back" /\ l.e.id = Root
  BY NoLocType DEF Locals, Ops, NoLoc, NoEntry, Entry
<1> HIDE DEF l
<1>4. CalledAs("reload", "back") /\ "reload" \in Places
  BY DEF CalledAs, Writing, Places
<1>5. path \in [Clients -> Seq(Ids)] /\ path[c] \in Seq(Ids) /\ Len(path[c]) \in Nat /\ i \in Nat /\ i >= 1
  BY Beginning
<1>6. /\ SubSeq(path[c], 1, i) \in Seq(Ids) /\ DOMAIN SubSeq(path[c], 1, i) = 1 .. i
      /\ \A j \in 1 .. i : SubSeq(path[c], 1, i)[j] = path[c][j] /\ j \in DOMAIN path[c]
  BY <1>5
<1>7. /\ path' \in [Clients -> Seq(Ids)] /\ path'[c] = SubSeq(path[c], 1, i)
      /\ \A d \in Clients \ {c} : path'[d] = path[d]
  BY <1>2, <1>5, <1>6
<1>8. SignedIn(c)'
  <2>1. 1 \in DOMAIN path'[c]
    BY <1>5, <1>6, <1>7
  <2>2. DOMAIN <<>> = {}
    OBVIOUS
  <2> QED
    BY <2>1, <2>2 DEF SignedIn
<1>9. Visited(kv, c)'
  <2>1. Visited(kv, c) /\ kv' = kv /\ told' = told
    BY <1>1, Beginning DEF Begin
  <2> QED
    BY <1>6, <1>7, <2>1 DEF Visited
<1>10. Asked(c)'
  <2>1. loc'[c] = l
    BY <1>1, <1>3, <1>4, Moved DEF Begin, DriveInv
  <2> QED
    BY <1>3, <1>8, <2>1 DEF Asked, Doing
<1> QED
  BY <1>1, <1>3, <1>4, <1>7, <1>8, <1>9, <1>10, Beginning, Begins

-----------------------------------------------------------------------------
(* What ends a front end *)

LEMMA EndIs ==
  ASSUME DriveInv, NEW c \in Clients, StalePage(c) \/ BrokenPipe(c)
  PROVE  /\ End(c) /\ pc'[c] = "dead" /\ loc'[c] = NoLoc /\ pc[c] # "newGet"
         /\ \A d \in Clients \ {c} : pc'[d] = pc[d] /\ loc'[d] = loc[d]
         /\ ops \in Nat /\ ops' \in 0 .. MaxEvents /\ (ops' = ops \/ ops' = ops + 1)
         /\ crashes = 0 => pc[c] = "idle"
<1>1. End(c) /\ pc[c] # "newGet"
  BY DEF StalePage, BrokenPipe, Puts, CputPlaces
<1>2. To(c, "dead", NoLoc)
  BY <1>1 DEF End
<1>3. /\ pc'[c] = "dead" /\ loc'[c] = NoLoc
      /\ \A d \in Clients \ {c} : pc'[d] = pc[d] /\ loc'[d] = loc[d]
  BY <1>2, Moved, NoLocType DEF DriveInv, Places
<1>4. ops \in Nat /\ crashes \in Nat /\ ops \in 0 .. MaxEvents /\ MaxEvents \in Nat
  BY DriveAssumption DEF DriveInv, CallType
<1>5. ops' \in 0 .. MaxEvents /\ (ops' = ops \/ ops' = ops + 1)
  <2>1. CASE StalePage(c)
    BY <1>4, <2>1 DEF StalePage
  <2>2. CASE BrokenPipe(c)
    BY <1>4, <2>2 DEF BrokenPipe
  <2> QED
    BY <2>1, <2>2
<1>6. crashes = 0 => pc[c] = "idle"
  <2>1. crashes = 0 => c \notin stale
    BY DEF DriveInv, NoCrash
  <2> QED
    BY <2>1 DEF StalePage, BrokenPipe
<1> QED
  BY <1>1, <1>3, <1>4, <1>5, <1>6

LEMMA EndDrive ==
  ASSUME DriveInv, NEW c \in Clients, StalePage(c) \/ BrokenPipe(c)
  PROVE  DriveInv'
<1>1. /\ pc'[c] = "dead" /\ loc'[c] = NoLoc /\ pc[c] # "newGet" /\ (crashes = 0 => pc[c] = "idle")
      /\ \A d \in Clients \ {c} : pc'[d] = pc[d] /\ loc'[d] = loc[d]
      /\ ops \in Nat /\ ops' \in 0 .. MaxEvents /\ ops <= ops'
      /\ UNCHANGED <<kv, clock, path, view, again, stale, crashes, told>>
  BY EndIs DEF End
<1>2. StoreAfter(c)
  BY <1>1, StoreStands
<1>3. pc' \in [Clients -> Places] /\ loc' \in [Clients -> Locals]
  BY EndIs, Moved, NoLocType DEF End, DriveInv, Places
<1>4. CallType'
  BY <1>1, <1>3 DEF DriveInv, CallType
<1>5. Frame(c)
  BY <1>1 DEF Frame, DriveInv, CallType
<1>6. ClientOK(kv, c)' /\ Unmade(kv, c)' /\ ~Making(c)' /\ ~Registering(c)'
  <2>1. Visited(kv, c)'
    <3>1. Visited(kv, c)
      BY Beginning
    <3> QED
      BY <1>1, <3>1 DEF Visited
  <2>2. SignedIn(c)' => \A e \in view'[c] : e.id \in 1 .. clock'
    BY <1>1, Beginning DEF SignedIn
  <2> QED
    BY <1>1, <1>2, <1>4, <1>5, <2>1, <2>2, CallerIdle
<1>7. StoreOK(kv)'
  BY <1>1, <1>2, <1>4, <1>5, StoreKeeps
<1>8. Drawn'
  <2>1. told'.deleted \subseteq 1 .. clock
    BY <1>1, Beginning
  <2> QED
    BY <1>1, <1>4, <1>5, <1>6, <2>1, DrawnKeeps
<1>9. NoCrash'
  <2> SUFFICES ASSUME crashes = 0
               PROVE  /\ stale' = {} /\ \A d \in Clients : again'[d] = 0
                      /\ kv'.pw # None => kv'.list[Root] # None \/ \E d \in Clients : Registering(d)'
    BY <1>1 DEF NoCrash
  <2>1. /\ stale = {} /\ \A d \in Clients : again[d] = 0
        /\ kv.pw # None => kv.list[Root] # None \/ \E d \in Clients : Registering(d)
    BY DEF DriveInv, NoCrash
  <2>2. ~Registering(c)
    BY <1>1 DEF Registering, Writing
  <2>3. \A d \in Clients \ {c} : Registering(d) => Registering(d)'
    BY <1>1 DEF Registering, Doing
  <2> QED
    BY <1>1, <2>1, <2>2, <2>3
<1> QED
  BY <1>2, <1>4, <1>5, <1>6, <1>7, <1>8, <1>9, OthersKeep DEF DriveInv

-----------------------------------------------------------------------------
(* The first states *)

LEMMA SomeFilesIs ==
  /\ SomeFiles \in Folder /\ DOMAIN SomeFiles = {1, 2}
  /\ SomeFiles[1] = Entry(1, "d", TRUE) /\ SomeFiles[2] = Entry(2, "f", FALSE)
  /\ Entry(1, "d", TRUE) \in Item /\ Entry(2, "f", FALSE) \in Item
  /\ View(SomeFiles) \subseteq {Entry(1, "d", TRUE), Entry(2, "f", FALSE)}
<1> DEFINE d == Entry(1, "d", TRUE)  f == Entry(2, "f", FALSE)
<1>1. d \in Item /\ f \in Item
  BY DEF Entry, Item, Names
<1>2. SomeFiles = <<d, f>>
  BY DEF SomeFiles
<1> HIDE DEF d, f
<1>3. SomeFiles \in Seq(Item) /\ DOMAIN SomeFiles = {1, 2} /\ SomeFiles[1] = d /\ SomeFiles[2] = f
  BY <1>1, <1>2
<1>4. View(SomeFiles) \subseteq {d, f}
  BY <1>3 DEF View
<1> QED
  BY <1>1, <1>3, <1>4 DEF Folder, d, f

\* Nobody has begun.
LEMMA InitClients ==
  ASSUME NEW c \in Clients, pc = [d \in Clients |-> "idle"], loc = [d \in Clients |-> NoLoc],
         clock \in Nat, Visited(kv, c), SignedIn(c) => \A e \in view[c] : e.id \in 1 .. clock
  PROVE  ClientOK(kv, c) /\ Unmade(kv, c)
<1>1. pc[c] = "idle" /\ loc[c] = NoLoc /\ NoLoc.op = "none" /\ NoLoc.e.id = 0
  BY DEF NoLoc, NoEntry, Entry, Root
<1>2. ~Making(c) /\ ~Registering(c) /\ pc[c] \notin Writing
  BY <1>1 DEF Making, Registering, Doing, Writing
<1>3. Called(c) /\ Asked(c) /\ AddsNew(c) /\ SentAgain(c)
  BY <1>1, <1>2 DEF Called, Asked, Doing, AddsNew, SentAgain, Writing
<1>4. Numbered(c) /\ Accepted(kv, c) /\ Pending(kv, c) /\ Unmade(kv, c)
  BY <1>1, <1>2 DEF Numbered, Accepted, Pending, Unmade, Doing
<1> QED
  BY <1>3, <1>4 DEF ClientOK

LEMMA InitDrive == Init => DriveInv
<1> SUFFICES ASSUME Init PROVE DriveInv
  OBVIOUS
<1>1. /\ pc = [c \in Clients |-> "idle"] /\ loc = [c \in Clients |-> NoLoc]
      /\ again = [c \in Clients |-> 0] /\ stale = {} /\ crashes = 0 /\ ops = 0
  BY DEF Init
<1>2. \A c \in Clients : ~Making(c) /\ ~Registering(c)
  BY <1>1 DEF Making, Registering, Writing
<1>3. NewGets = {} /\ Cardinality(NewGets) = 0
  <2>1. NewGets = {}
    BY <1>1 DEF NewGets
  <2> QED
    BY <2>1, FS_EmptySet
<1>4. 0 \in Ids /\ 1 \in Ids /\ 2 \in Ids /\ Ids \subseteq Nat
  BY DriveAssumption DEF Ids
<1>5. ASSUME clock \in Nat, path \in [Clients -> Seq(Ids)], view \in [Clients -> SUBSET Item], told \in Told
      PROVE  CallType
  <2>1. loc \in [Clients -> Locals] /\ pc \in [Clients -> Places]
    BY <1>1, NoLocType DEF Places
  <2>2. ops \in 0 .. MaxEvents
    BY <1>1, DriveAssumption
  <2> QED
    BY <1>1, <1>5, <2>1, <2>2 DEF CallType
<1>6. CASE /\ kv = EmptyStore /\ clock = 0 /\ told = NothingTold
           /\ path = [c \in Clients |-> <<>>] /\ view = [c \in Clients |-> {NoEntry}]
  <2>1. /\ told \in Told /\ told.registered = {} /\ told.stored = {} /\ told.deleted = {}
    BY <1>6 DEF NothingTold, Told
  <2>2. path \in [Clients -> Seq(Ids)] /\ view \in [Clients -> SUBSET Item]
    BY <1>6, NoLocType
  <2>3. CallType
    BY <1>5, <1>6, <2>1, <2>2
  <2>4. kv \in Store /\ kv.pw = None /\ \A d \in Ids : kv.list[d] = None
    BY <1>6 DEF EmptyStore, Store
  <2>5. StoreOK(kv)
    BY <1>4, <2>1, <2>4 DEF StoreOK, Known, Unique, Root
  <2>6. Drawn /\ NoCrash
    BY <1>1, <1>2, <1>3, <1>6, <2>1, <2>4 DEF Drawn, NoCrash
  <2>7. ASSUME NEW c \in Clients PROVE ClientOK(kv, c) /\ Unmade(kv, c)
    <3>1. path[c] = <<>> /\ DOMAIN path[c] = {}
      BY <1>6
    <3>2. Visited(kv, c) /\ ~SignedIn(c)
      BY <3>1 DEF Visited, SignedIn
    <3> QED
      BY <1>1, <1>6, <3>2, InitClients
  <2> QED
    BY <2>3, <2>5, <2>6, <2>7 DEF DriveInv
<1>7. ASSUME NEW c \in Clients, kv = Populated(c), clock = 2,
             told = [NothingTold EXCEPT !.stored = {[e |-> e, at |-> Root, by |-> c] : e \in View(SomeFiles)}],
             path = [d \in Clients |-> <<Root>>], view = [d \in Clients |-> View(SomeFiles)]
      PROVE  DriveInv
  <2>1. \A e \in View(SomeFiles) : e \in Item /\ e.id \in {1, 2}
    <3>1. Entry(1, "d", TRUE).id = 1 /\ Entry(2, "f", FALSE).id = 2
      BY DEF Entry
    <3> QED
      BY <3>1, SomeFilesIs
  <2>2. /\ told \in Told /\ told.registered = {} /\ told.deleted = {}
        /\ told.stored = {[e |-> e, at |-> Root, by |-> c] : e \in View(SomeFiles)}
    <3> DEFINE S == {[e |-> e, at |-> Root, by |-> c] : e \in View(SomeFiles)}
    <3>1. S \subseteq [e : Item, at : Ids, by : Clients]
      BY <1>4, <2>1 DEF Root
    <3>2. told = [NothingTold EXCEPT !.stored = S]
      BY <1>7
    <3> HIDE DEF S
    <3>3. told \in Told /\ told.registered = {} /\ told.deleted = {} /\ told.stored = S
      BY <3>1, <3>2 DEF NothingTold, Told
    <3> QED
      BY <3>3 DEF S
  <2>3. path \in [Clients -> Seq(Ids)] /\ view \in [Clients -> SUBSET Item]
    <3>1. <<Root>> \in Seq(Ids) /\ View(SomeFiles) \in SUBSET Item
      BY <1>4, <2>1 DEF Root
    <3> QED
      BY <1>7, <3>1
  <2>4. CallType
    BY <1>5, <1>7, <2>2, <2>3
  <2>5. /\ kv \in Store /\ kv.pw = c
        /\ kv.list[0] = SomeFiles /\ kv.list[1] = <<>> /\ kv.body[2] = c
        /\ \A d \in Ids \ {0, 1} : kv.list[d] = None
    <3>1. <<>> \in Folder /\ SomeFiles \in Folder
      BY SomeFilesIs DEF Folder
    <3>2. /\ kv.pw = c
          /\ kv.list = [EmptyStore.list EXCEPT ![0] = SomeFiles, ![1] = <<>>]
          /\ kv.body = [EmptyStore.body EXCEPT ![2] = c]
          /\ kv.name = [EmptyStore.name EXCEPT ![0] = "storage", ![1] = "d", ![2] = "f"]
          /\ kv = [pw |-> kv.pw, list |-> kv.list, body |-> kv.body, name |-> kv.name]
      BY <1>7 DEF Populated, Root
    <3>3. /\ EmptyStore.list = [i \in Ids |-> None] /\ EmptyStore.body = [i \in Ids |-> None]
          /\ EmptyStore.name = [i \in Ids |-> None]
      BY DEF EmptyStore
    <3>4. /\ kv.list \in [Ids -> Folder \cup {None}] /\ kv.list[0] = SomeFiles /\ kv.list[1] = <<>>
          /\ \A d \in Ids \ {0, 1} : kv.list[d] = None
      BY <1>4, <3>1, <3>2, <3>3
    <3>5. kv.body \in [Ids -> Clients \cup {None}] /\ kv.body[2] = c
      BY <1>4, <3>2, <3>3
    <3>6. kv.name \in [Ids -> Names \cup {None}]
      BY <1>4, <3>2, <3>3 DEF Names
    <3> QED
      BY <3>2, <3>4, <3>5, <3>6 DEF Store
  <2>6. /\ kv.list[0] # None /\ kv.list[1] # None /\ c # None /\ DOMAIN <<>> = {}
        /\ kv.list[1] = <<>> /\ DOMAIN kv.list[1] = {}
    <3>1. <<>> \in Folder /\ SomeFiles \in Folder
      BY SomeFilesIs DEF Folder
    <3>2. None \notin Folder /\ c # None
      BY DriveAssumption DEF Folder, Item
    <3>3. DOMAIN <<>> = {}
      OBVIOUS
    <3>4. kv.list[1] = <<>> /\ kv.list[0] = SomeFiles
      BY <2>5
    <3>5. kv.list[0] # None /\ kv.list[1] # None
      BY <3>1, <3>2, <3>4
    <3> QED
      BY <3>2, <3>3, <3>4, <3>5
  <2>7. /\ DOMAIN kv.list[0] = {1, 2} /\ kv.list[0][1].id = 1 /\ kv.list[0][2].id = 2
        /\ kv.list[0][1].name # kv.list[0][2].name
    BY <2>5, SomeFilesIs DEF Entry
  <2>8. ASSUME NEW d \in Ids PROVE Known(kv, d) /\ Unique(kv, d)
    <3>1. CASE d = 0
      BY <1>7, <2>7, <3>1 DEF Known, Unique
    <3>2. CASE d = 1
      BY <1>7, <2>6, <3>2 DEF Known, Unique
    <3>3. CASE d \notin {0, 1}
      BY <2>5, <3>3 DEF Known, Unique
    <3> QED
      BY <3>1, <3>2, <3>3
  <2>9. ASSUME NEW s \in told.stored
        PROVE  OnlyAt(kv, s.e.id, s.at) /\ Kept(kv, s.e.id, s.at) /\ HasContent(kv, s)
    <3>1. PICK e \in View(SomeFiles) : s = [e |-> e, at |-> Root, by |-> c]
      BY <2>2
    <3>2. s.e = e /\ s.at = 0 /\ s.by = c
      BY <3>1 DEF Root
    <3>3. (e.id = 1 /\ e.dir) \/ (e.id = 2 /\ ~e.dir)
      BY SomeFilesIs DEF Entry
    <3>4. \A d \in Ids : ListedAt(kv, e.id, d) => d = 0
      BY <2>5, <2>6 DEF ListedAt
    <3>5. ListedAt(kv, e.id, 0)
      BY <2>6, <2>7, <3>3 DEF ListedAt
    <3>6. HasContent(kv, s)
      BY <2>5, <2>6, <3>2, <3>3 DEF HasContent
    <3> QED
      BY <3>2, <3>4, <3>5, <3>6 DEF OnlyAt, Kept
  <2>10. StoreOK(kv)
    BY <2>2, <2>5, <2>6, <2>8, <2>9 DEF StoreOK
  <2>11. Drawn /\ NoCrash
    <3>1. \A s \in told.stored : s.e.id \in 1 .. clock
      BY <1>7, <2>1, <2>2
    <3> QED
      BY <1>1, <1>2, <1>3, <1>7, <2>2, <2>6, <3>1 DEF Drawn, NoCrash, Root
  <2>12. ASSUME NEW d \in Clients PROVE ClientOK(kv, d) /\ Unmade(kv, d)
    <3>1. path[d] = <<0>> /\ DOMAIN path[d] = {1} /\ path[d][1] = 0
      BY <1>7 DEF Root
    <3>2. Visited(kv, d)
      BY <2>6, <3>1 DEF Visited
    <3>3. \A e \in view[d] : e.id \in 1 .. clock
      BY <1>7, <2>1
    <3> QED
      BY <1>1, <1>7, <3>2, <3>3, InitClients
  <2> QED
    BY <2>4, <2>10, <2>11, <2>12 DEF DriveInv
<1> QED
  BY <1>6, <1>7 DEF Init

-----------------------------------------------------------------------------
(* The theorems *)

LEMMA NextDrive ==
  ASSUME DriveInv, [Next]_vars
  PROVE  DriveInv'
<1>1. CASE UNCHANGED vars
  <2>1. /\ UNCHANGED <<kv, clock, pc, loc, path, view, again, stale, crashes, ops, told>>
    BY <1>1 DEF vars
  <2>2. CallType' /\ Drawn' /\ NoCrash'
    BY <2>1 DEF DriveInv, CallType, Drawn, NoCrash, NewGets, Making, Registering, Doing
  <2>3. StoreOK(kv)'
    BY <2>1 DEF DriveInv, StoreOK, Known, Unique, OnlyAt, Kept, HasContent, Untouched, ListedAt
  <2>4. ASSUME NEW c \in Clients PROVE ClientOK(kv, c)' /\ Unmade(kv, c)'
    <3>1. Frame(c) /\ StoreAfter(c) /\ SentAgain(c)' /\ Unmade(kv, c)
      <4>1. Frame(c)
        BY <2>1 DEF Frame, DriveInv, CallType
      <4>2. StoreAfter(c)
        BY <2>1, StoreStands
      <4> QED
        BY <2>1, <4>1, <4>2 DEF DriveInv, ClientOK, SentAgain
    <3>2. ClientOK(kv, c)'
      BY <2>1, <2>2, <3>1, SameCaller
    <3> QED
      BY <2>1, <3>1, <3>2 DEF Unmade, Making, Registering, Doing
  <2> QED
    BY <2>2, <2>3, <2>4 DEF DriveInv
<1>2. CASE Crash
  BY <1>2, CrashDrive
<1>3. ASSUME NEW c \in Clients, Ask(c) PROVE DriveInv'
  BY <1>3, SignsDrive, NewFileDrive, DeleteFileDrive, RenameFileDrive, MoveFileDrive,
     OpenFolderDrive, GoBackDrive, FilesDrive DEF Ask
<1>4. ASSUME NEW c \in Clients, Step(c) PROVE DriveInv'
  <2>1. CASE SendAgain(c) \/ Reconnect(c)
    BY <2>1, SendAgainDrive, ReconnectDrive
  <2>2. CASE RegGet(c) \/ RegCput(c) \/ SignGet(c) \/ OpenGet(c)
    BY <2>2, RegGetDrive, RegCputDrive, SignGetDrive, OpenGetDrive
  <2>3. CASE NewGet(c) \/ PutName(c) \/ PutBody(c) \/ Add(c) \/ AddGet(c)
    BY <2>3, NewGetDrive, PutNameDrive, PutBodyDrive, AddDrive, AddGetDrive
  <2>4. CASE RemoveGet(c) \/ RemoveCput(c) \/ DelName(c) \/ DelBody(c)
    BY <2>4, RemoveGetDrive, RemoveCputDrive, DelNameDrive, DelBodyDrive
  <2>5. CASE MoveDest(c) \/ RecoverGet(c) \/ RenameGet(c) \/ RenameCput(c) \/ RenameName(c)
    BY <2>5, MoveDestDrive, RecoverGetDrive, RenameGetDrive, RenameGoes
  <2>6. CASE Reload(c) \/ Page(c)
    BY <2>6, PageDrive
  <2> QED
    BY <1>4, <2>1, <2>2, <2>3, <2>4, <2>5, <2>6 DEF Step
<1>5. ASSUME NEW c \in Clients, StalePage(c) \/ BrokenPipe(c) PROVE DriveInv'
  BY <1>5, EndDrive
<1> QED
  BY <1>1, <1>2, <1>3, <1>4, <1>5 DEF Next

\* The invariant of the file storage: what the folders list, what each handler
\* knows of what the user asked for, and what the store owes to the clients
\* whose requests are not over, whatever order the requests come in and
\* whenever the primary dies.
THEOREM DriveInvariance == Spec => []DriveInv
<1>1. DriveInv /\ [Next]_vars => DriveInv'
  BY NextDrive
<1> QED
  BY InitDrive, <1>1, PTL DEF Spec

\* Two entries of a folder have one name only if somebody renamed an entry of the
\* folder to it, for any number of front ends that upload, create folders and
\* move at the same time (the CPUT loop of Storage::send_cput_command_add).
THEOREM DriveNamesUnique == Spec => []NamesUnique
<1>1. DriveInv => NamesUnique
  BY DEF DriveInv, StoreOK, Unique, NamesUnique
<1> QED
  BY DriveInvariance, <1>1, PTL

\* A file whose upload returned true is listed in its folder and has its content,
\* as long as nobody has tried to delete or to move it or to delete its folder
\* and the folder's list was not sent twice: the CPUTs of the other clients keep
\* it, however many there are and however often the primary dies.
THEOREM DriveStoredKept == Spec => []StoredKept
<1>1. ASSUME DriveInv PROVE StoredKept
  <2> SUFFICES ASSUME NEW s \in told.stored, s.e.id \notin told.deleted, Movers(s.e.id) = {},
                      s.at \notin told.deleted \cup told.resent
               PROVE  /\ Listings(s.e.id) # {} /\ \A p \in Listings(s.e.id) : p[1] = s.at
                      /\ IF s.e.dir THEN kv.list[s.e.id] # None ELSE kv.body[s.e.id] = s.by
    BY DEF StoredKept
  <2>1. OnlyAt(kv, s.e.id, s.at) /\ Kept(kv, s.e.id, s.at) /\ HasContent(kv, s)
    BY <1>1 DEF DriveInv, StoreOK
  <2>2. Untouched(s.e.id)
    BY DEF Untouched, Movers
  <2>3. s.at \in Ids
    BY <1>1 DEF DriveInv, CallType, Told
  <2>4. /\ kv.list[s.at] # None /\ \E i \in DOMAIN kv.list[s.at] : kv.list[s.at][i].id = s.e.id
        /\ \A d \in Ids : ListedAt(kv, s.e.id, d) => d = s.at
    BY <2>1, <2>2 DEF OnlyAt, Kept, ListedAt
  <2>5. PICK i \in DOMAIN kv.list[s.at] : kv.list[s.at][i].id = s.e.id
    BY <2>4
  <2>6. <<s.at, i>> \in Listings(s.e.id)
    BY <2>3, <2>4, <2>5 DEF Listings
  <2>7. ASSUME NEW p \in Listings(s.e.id) PROVE p[1] = s.at
    <3>1. PICK d \in Ids : /\ kv.list[d] # None
                           /\ p \in {d} \X {j \in DOMAIN kv.list[d] : kv.list[d][j].id = s.e.id}
      BY DEF Listings
    <3>2. p[1] = d /\ p[2] \in DOMAIN kv.list[d] /\ kv.list[d][p[2]].id = s.e.id
      BY <3>1
    <3>3. ListedAt(kv, s.e.id, d)
      BY <3>1, <3>2 DEF ListedAt
    <3> QED
      BY <2>4, <3>2, <3>3
  <2> QED
    BY <2>1, <2>6, <2>7 DEF HasContent
<1> QED
  BY DriveInvariance, <1>1, PTL

\* Of any number of clients that sign up with one name, one is told that it
\* succeeded, and its password is the one stored (the CPUT of register_user);
\* as long as the primary lives the account has its folder from then on.
THEOREM DriveRegisteredOnce == Spec => []RegisteredOnce
<1>1. ASSUME DriveInv PROVE RegisteredOnce
  <2>1. \A c \in told.registered : kv.pw = c
    BY <1>1 DEF DriveInv, StoreOK
  <2>2. \A c \in Clients : Registering(c) => loc[c].op = "register"
    BY DEF Registering, Doing
  <2> QED
    BY <1>1, <2>1, <2>2 DEF DriveInv, NoCrash, RegisteredOnce
<1> QED
  BY DriveInvariance, <1>1, PTL

\* The steps that end a front end.
LEMMA EndsBy ==
  ASSUME DriveInv, Next, NEW c \in Clients, pc'[c] = "dead", pc[c] # "dead"
  PROVE  OpenGet(c) \/ Page(c) \/ StalePage(c) \/ BrokenPipe(c)
<1> SUFFICES ASSUME ~OpenGet(c), ~Page(c), ~StalePage(c), ~BrokenPipe(c)
             PROVE  pc' = pc \/ \E d \in Clients, p \in Places \ {"dead"} :
                                                  pc' = [pc EXCEPT ![d] = p] \/ (d # c /\ pc' = [pc EXCEPT ![d] = "dead"])
  BY DEF DriveInv, CallType
<1>1. CASE Crash
  BY <1>1 DEF Crash
<1>2. ASSUME NEW d \in Clients, Ask(d)
      PROVE  \E p \in Places \ {"dead"} : pc' = [pc EXCEPT ![d] = p]
  BY <1>2 DEF Ask, Signup, Signin, NewFile, DeleteFile, RenameFile, MoveFile, OpenFolder, GoBack, Files,
              Begin, To, Places
<1>3. ASSUME NEW d \in Clients, Step(d)
      PROVE  \/ pc' = pc \/ \E p \in Places \ {"dead"} : pc' = [pc EXCEPT ![d] = p]
             \/ d # c /\ pc' = [pc EXCEPT ![d] = "dead"]
  <2>1. CASE SendAgain(d) \/ Reconnect(d)
    BY <2>1 DEF SendAgain, Reconnect
  <2>2. CASE OpenGet(d) \/ Page(d)
    BY <2>2 DEF OpenGet, Page, Done, To, Places
  <2>3. CASE RegGet(d) \/ RegCput(d) \/ SignGet(d)
    BY <2>3 DEF RegGet, RegCput, SignGet, Done, To, Places
  <2>4. CASE NewGet(d) \/ PutName(d) \/ PutBody(d) \/ Add(d)
    BY <2>4 DEF NewGet, PutName, PutBody, Add, Done, To, Places
  <2>5. CASE AddGet(d) \/ MoveDest(d) \/ RecoverGet(d)
    BY <2>5 DEF AddGet, MoveDest, RecoverGet, AddTo, Recover, Done, To, Places
  <2>6. CASE RemoveGet(d) \/ RemoveCput(d) \/ DelName(d) \/ DelBody(d)
    BY <2>6 DEF RemoveGet, RemoveCput, DelName, DelBody, Done, To, Places
  <2>7. CASE RenameGet(d) \/ RenameCput(d) \/ RenameName(d) \/ Reload(d)
    BY <2>7 DEF RenameGet, RenameCput, RenameName, Reload, Done, To, Places
  <2> QED
    BY <1>3, <2>1, <2>2, <2>3, <2>4, <2>5, <2>6, <2>7 DEF Step
<1>4. ASSUME NEW d \in Clients, StalePage(d) \/ BrokenPipe(d)
      PROVE  d # c /\ pc' = [pc EXCEPT ![d] = "dead"]
  BY <1>4 DEF StalePage, BrokenPipe, End, To
<1>5. "idle" \in Places \ {"dead"}
  BY DEF Places
<1> QED
  BY <1>1, <1>2, <1>3, <1>4, <1>5 DEF Next

\* What ends a front end: in a request, a PUT or CPUT to a dead primary, the
\* deletion of the folder its user looks at (the result of refresh_upload is
\* dereferenced), or a sign-in to an account that has a password and no folder
\* (path.at of an empty path); between two requests, only a name that the page
\* does not show (files_in_path[name] is dereferenced).
THEOREM DriveEndsOnlyIf == Spec => EndsOnlyIf
<1> DEFINE Cause(c) ==
             CASE pc[c] = "idle" -> SignedIn(c) /\ \E n \in Names : \A e \in view[c] : e.name # n
               [] pc[c] \in Puts -> c \in stale
               [] OTHER -> IF SignedIn(c) THEN Here(c) \in told.deleted
                           ELSE crashes > 0 \/ \E b \in Clients \ {c} : loc[b].op = "register"
<1>1. ASSUME DriveInv, Next, NEW c \in Clients, pc'[c] = "dead", pc[c] # "dead" PROVE Cause(c)
  <2>1. ClientOK(kv, c) /\ pc \in [Clients -> Places] /\ path[c] \in Seq(Ids) /\ crashes \in Nat
    BY <1>1 DEF DriveInv, CallType
  <2>2. CASE Page(c)
    <3>1. SignedIn(c) /\ pc[c] = "page"
      BY <2>1, <2>2 DEF ClientOK, Called, Page, Answered
    <3>2. kv.list[Here(c)] = None
      BY <1>1, <2>1, <2>2 DEF Page, Done, To
    <3>3. Here(c) = path[c][Len(path[c])] /\ Len(path[c]) \in DOMAIN path[c]
      BY <2>1, <3>1 DEF Here, Last, SignedIn
    <3> QED
      BY <2>1, <3>1, <3>2, <3>3 DEF ClientOK, Visited, Puts, CputPlaces
  <2>3. CASE OpenGet(c)
    <3>1. pc[c] = "open" /\ ~SignedIn(c) /\ kv.list[loc[c].e.id] = None
      BY <1>1, <2>1, <2>3 DEF OpenGet, Answered, Done, To
    <3>2. Doing(c, {"register", "sign_in"}) /\ loc[c].e.id = Root
      BY <2>1, <3>1, RootEntry DEF ClientOK, Called, Asked, Doing
    <3>3. Doing(c, {"sign_in"}) /\ kv.pw # None
      BY <2>1, <3>1, <3>2 DEF ClientOK, Accepted, Doing
    <3>4. crashes = 0 => \E b \in Clients : Registering(b)
      BY <1>1, <3>1, <3>2, <3>3 DEF DriveInv, NoCrash
    <3>5. crashes > 0 \/ \E b \in Clients \ {c} : loc[b].op = "register"
      BY <2>1, <3>1, <3>3, <3>4 DEF Registering, Doing
    <3> QED
      BY <3>1, <3>5 DEF Puts, CputPlaces
  <2>4. CASE StalePage(c)
    BY <2>4 DEF StalePage, Puts, CputPlaces
  <2>5. CASE BrokenPipe(c)
    BY <2>5 DEF BrokenPipe, Puts, CputPlaces
  <2> QED
    BY <1>1, <2>2, <2>3, <2>4, <2>5, EndsBy
<1>2. DriveInv /\ [Next]_vars => [\A c \in Clients : pc'[c] = "dead" /\ pc[c] # "dead" => Cause(c)]_vars
  BY <1>1
<1>3. DriveInv /\ [Next]_vars => [\A c \in Clients : pc'[c] = "dead" /\ pc[c] # "dead" =>
        CASE pc[c] = "idle" -> SignedIn(c) /\ \E n \in Names : \A e \in view[c] : e.name # n
          [] pc[c] \in Puts -> c \in stale
          [] OTHER -> IF SignedIn(c) THEN Here(c) \in told.deleted
                      ELSE crashes > 0 \/ \E b \in Clients \ {c} : loc[b].op = "register"]_vars
  BY <1>2
<1> QED
  BY DriveInvariance, <1>3, PTL DEF Spec, EndsOnlyIf

-----------------------------------------------------------------------------
(* An entry is listed once: the invariant *)

(* Clients that move an entry; those that have taken it out and not yet    *)
(* put it in; those that are about to list a new one; and those that store *)
(* the content of one they have listed.                                    *)
Active(c) == Doing(c, {"move", "recover"})
Carries(c) == Active(c) /\ pc[c] \in {"movDest", "add", "addGet", "recGet"}
Draws(c) == Making(c) /\ pc[c] \in {"add", "addGet"}
Stores(c) == Making(c) /\ pc[c] \in Writing

(* At most one client has moved the entry with the id.                     *)
Single(id) == \A m, n \in told.movers : m[2] = id /\ n[2] = id => m = n

(* The places where an entry is listed.                                    *)
At(k, id, d, i) == k.list[d] # None /\ i \in DOMAIN k.list[d] /\ k.list[d][i].id = id
Nowhere(k, id) == \A d \in Ids : ~ListedAt(k, id, d)
Once(k, id) ==
  \A d, f \in Ids : \A i \in DOMAIN k.list[d], j \in DOMAIN k.list[f] :
    At(k, id, d, i) /\ At(k, id, f, j) => d = f /\ i = j

(* Requests are numbered.                                                  *)
Timed ==
  /\ IsFiniteSet(told.movers)
  /\ \A m \in told.movers : m[1] < ops /\ m[2] \in 1 .. clock

(* Of two clients that move an entry, each was told to.                    *)
Alone ==
  \A c, d \in Clients :
    Active(c) /\ Active(d) /\ loc[c].e.id = loc[d].e.id /\ Single(loc[c].e.id) => c = d

(* Nobody knows of an entry that is still to be listed.                    *)
Fresh(c) ==
  Draws(c) =>
    /\ \A m \in told.movers : m[2] # loc[c].e.id
    /\ \A d \in Clients : SignedIn(d) => \A e \in view[d] : e.id # loc[c].e.id
    /\ Nowhere(kv, loc[c].e.id)

(* An entry that the only client moving it has taken out is listed nowhere, *)
(* and one that it has found is listed where it found it, or nowhere.       *)
Taken(c) ==
  /\ pc[c] = "movGet" => ~loc[c].found
  /\ Active(c) /\ Single(loc[c].e.id) =>
       /\ Carries(c) => Nowhere(kv, loc[c].e.id)
       /\ pc[c] \in {"remGet", "remove"} /\ loc[c].found =>
            \A d \in Ids : ListedAt(kv, loc[c].e.id, d) => d = loc[c].at

OnceOK ==
  /\ Alone
  /\ \A id \in Ids : Single(id) => Once(kv, id)
  /\ \A c \in Clients : Fresh(c) /\ Taken(c)

(* What a client that moves an entry remembers of it.                      *)
MoverOK(c) ==
  Active(c) =>
    /\ \E m \in told.movers : m[2] = loc[c].e.id /\ m[3] = loc[c].dest
    /\ pc[c] \in {"movGet", "remGet", "remove", "movDest"} \/ Doing(c, {"recover"}) =>
         loc[c].at = Here(c)
    /\ Doing(c, {"move"}) /\ pc[c] \in {"add", "addGet"} => loc[c].at = loc[c].dest
    /\ Carries(c) => loc[c].found
    /\ pc[c] = "remove" /\ Lists(loc[c].old, loc[c].e.id) => loc[c].found

(* The entry is where it was stored first or in a folder that somebody     *)
(* moved it to, and it is found only there.                                *)
Home(id, at, d) == d = at \/ \E m \in told.movers : m[2] = id /\ m[3] = d
Placed(id, at) ==
  Single(id) =>
    /\ \A d \in Ids : ListedAt(kv, id, d) => Home(id, at, d)
    /\ \A c \in Clients : Active(c) /\ loc[c].e.id = id /\ loc[c].found => Home(id, at, Here(c))

(* It is listed, or being moved, or a name stood in its way.               *)
Present(id, at) ==
  Single(id) /\ id \notin told.deleted /\ (\A d \in told.deleted : ~Home(id, at, d)) =>
    \/ \E d \in Ids : ListedAt(kv, id, d)
    \/ \E c \in Clients : Carries(c) /\ loc[c].e.id = id
    \/ id \in told.dropped

PresentOK ==
  /\ told.resent = {}
  /\ \A s \in told.stored : Placed(s.e.id, s.at) /\ Present(s.e.id, s.at)
  /\ \A c \in Clients :
       Stores(c) => Placed(loc[c].e.id, loc[c].at) /\ Present(loc[c].e.id, loc[c].at)

(* An entry that is listed, shown or moved has its content, or that is     *)
(* being stored, or somebody has deleted it.                               *)
Born(id) ==
  \/ id \in told.deleted \/ kv.list[id] # None \/ kv.body[id] # None
  \/ \E c \in Clients : Stores(c) /\ loc[c].e.id = id
BornOK ==
  /\ \A id, d \in Ids : ListedAt(kv, id, d) => Born(id)
  /\ \A c \in Clients : /\ SignedIn(c) => \A e \in view[c] : Born(e.id)
                        /\ Active(c) => Born(loc[c].e.id)

OnceInv ==
  /\ DriveInv
  /\ crashes = 0 => Timed /\ (\A c \in Clients : MoverOK(c)) /\ OnceOK /\ PresentOK /\ BornOK

-----------------------------------------------------------------------------
(* Where entries are listed after a request *)

(* Client c adds its entry to a folder, or takes it out of one.            *)
Adds(c) == pc[c] = "add" /\ Matches(c)
TakesOut(c) == pc[c] = "remove" /\ Matches(c) /\ loc[c].found /\ Active(c)

LEMMA ListedIs ==
  \A k, id, d : ListedAt(k, id, d) <=> \E i \in DOMAIN k.list[d] : At(k, id, d, i)
BY DEF ListedAt, At

\* The positions in a list that a request has changed come from those before.
LEMMA EffectAt ==
  ASSUME DriveInv, NEW c \in Clients, c \notin stale, NEW k, k = Effect(c), NEW d \in Ids, NEW id,
         ~(Adds(c) /\ id = loc[c].e.id)
  PROVE  /\ \A i \in DOMAIN k.list[d] : At(k, id, d, i) => \E a \in DOMAIN kv.list[d] : At(kv, id, d, a)
         /\ \A i, j \in DOMAIN k.list[d] :
              At(k, id, d, i) /\ At(k, id, d, j) /\ i # j =>
                \E a, b \in DOMAIN kv.list[d] : At(kv, id, d, a) /\ At(kv, id, d, b) /\ a # b
<1> DEFINE l == loc[c]  old == kv.list[d]  new == k.list[d]
<1>1. CASE new = old
  BY <1>1 DEF At, old, new
<1>2. CASE pc[c] \in CputPlaces /\ Matches(c) /\ d = l.at
  <2>1. /\ new = NewList(c) /\ old = l.old /\ l.old \in Folder /\ new \in Folder /\ l.e \in Item
        /\ old # None
    <3>1. new = NewList(c) /\ old = l.old
      BY <1>2, EffectIs DEF Matches
    <3>2. l.old \in Folder /\ NewList(c) \in Folder /\ l.e \in Item
      BY <1>2, NewListIs
    <3>3. None \notin Folder
      BY DriveAssumption DEF Folder, Item
    <3> QED
      BY <3>1, <3>2, <3>3
  <2>2. DOMAIN old = 1 .. Len(old) /\ Len(old) \in Nat /\ DOMAIN new = 1 .. Len(new) /\ Len(new) \in Nat
    BY <2>1 DEF Folder
  <2>3. CASE pc[c] = "add"
    <3> DEFINE n == Len(old)
    <3>1. new = Append(old, l.e) /\ id # l.e.id
      BY <1>2, <2>1, <2>3, NewListIs DEF CputPlaces, Adds
    <3>2. DOMAIN new = 1 .. n + 1 /\ new[n + 1] = l.e /\ \A i \in 1 .. n : new[i] = old[i]
      BY <2>1, <3>1 DEF Folder
    <3>3. \A i \in 1 .. n + 1 : i \in 1 .. n \/ i = n + 1
      BY <2>2
    <3> HIDE DEF old, new, n
    <3>4. ASSUME NEW i \in DOMAIN new, new[i].id = id PROVE i \in DOMAIN old /\ old[i].id = id
      BY <2>2, <3>1, <3>2, <3>3, <3>4 DEF n
    <3> QED
      BY <2>1, <3>4 DEF At, old, new
  <2>4. CASE pc[c] = "remove"
    <3>1. Keeps(new, old, Len(old), l.e.id)
      BY <2>1, <2>4, NewListIs DEF CputPlaces
    <3> HIDE DEF old, new
    <3>2. \A i \in DOMAIN new : \E a \in DOMAIN old : new[i] = old[a]
      BY <2>2, <3>1 DEF Keeps
    <3>3. ASSUME NEW i \in DOMAIN new, NEW j \in DOMAIN new, i # j
          PROVE  \E a, b \in DOMAIN old : a # b /\ new[i] = old[a] /\ new[j] = old[b]
      <4>1. ASSUME NEW p \in DOMAIN new, NEW q \in DOMAIN new, p < q
            PROVE  \E a, b \in DOMAIN old : a # b /\ new[p] = old[a] /\ new[q] = old[b]
        <5>1. PICK a, b \in 1 .. Len(old) : a < b /\ new[p] = old[a] /\ new[q] = old[b]
          BY <3>1, <4>1 DEF Keeps
        <5>2. a # b
          BY <2>2, <5>1
        <5> QED
          BY <2>2, <5>1, <5>2
      <4>2. i < j \/ j < i
        BY <2>2, <3>3
      <4> QED
        BY <4>1, <4>2
    <3> QED
      BY <2>1, <3>2, <3>3 DEF At, old, new
  <2>5. CASE pc[c] = "renCput"
    <3>1. DOMAIN new = DOMAIN old /\ \A i \in DOMAIN old : new[i].id = old[i].id
      BY <2>1, <2>5, NewListIs, RenamedEntries DEF CputPlaces
    <3> QED
      BY <2>1, <3>1 DEF At, old, new
  <2> QED
    BY <1>2, <2>3, <2>4, <2>5 DEF CputPlaces
<1>3. CASE new = <<>> \/ new = None
  <2>1. \A i \in DOMAIN new : ~At(k, id, d, i)
    BY <1>3 DEF At
  <2> QED
    BY <2>1
<1> QED
  BY <1>1, <1>2, <1>3, EffectIs DEF old, new

\* What a request of a client whose connection stands lists, and where.
LEMMA EffectOnce ==
  ASSUME DriveInv, NEW c \in Clients, c \notin stale, NEW k, k = Effect(c), NEW id
  PROVE  /\ \A d \in Ids : ListedAt(k, id, d) =>
              ListedAt(kv, id, d) \/ (Adds(c) /\ d = loc[c].at /\ id = loc[c].e.id)
         /\ Once(kv, id) /\ (Adds(c) /\ id = loc[c].e.id => Nowhere(kv, id)) => Once(k, id)
<1>1. ASSUME NEW d \in Ids, ListedAt(k, id, d)
      PROVE  ListedAt(kv, id, d) \/ (Adds(c) /\ d = loc[c].at /\ id = loc[c].e.id)
  <2>1. CASE ~(Adds(c) /\ id = loc[c].e.id)
    BY <1>1, <2>1, EffectAt, ListedIs
  <2>2. CASE Adds(c) /\ id = loc[c].e.id
    <3>1. \A x : ListedAt(k, x, d) => ListedAt(kv, x, d) \/ d = loc[c].at
      BY EffectLists
    <3> QED
      BY <1>1, <2>2, <3>1
  <2> QED
    BY <2>1, <2>2
<1>2. ASSUME Once(kv, id), Adds(c) /\ id = loc[c].e.id => Nowhere(kv, id)
      PROVE  Once(k, id)
  <2>1. CASE ~(Adds(c) /\ id = loc[c].e.id)
    <3> SUFFICES ASSUME NEW d \in Ids, NEW f \in Ids, NEW i \in DOMAIN k.list[d], NEW j \in DOMAIN k.list[f],
                        At(k, id, d, i), At(k, id, f, j)
                 PROVE  d = f /\ i = j
      BY DEF Once
    <3>1. PICK a \in DOMAIN kv.list[d], b \in DOMAIN kv.list[f] : At(kv, id, d, a) /\ At(kv, id, f, b)
      BY <2>1, EffectAt
    <3>2. d = f
      BY <1>2, <3>1 DEF Once
    <3>3. i # j => \E x, y \in DOMAIN kv.list[d] : At(kv, id, d, x) /\ At(kv, id, d, y) /\ x # y
      BY <2>1, <3>2, EffectAt
    <3> QED
      BY <1>2, <3>2, <3>3 DEF Once
  <2>2. CASE Adds(c) /\ id = loc[c].e.id
    <3> DEFINE l == loc[c]  n == Len(l.old)
    <3>1. /\ l.at \in Ids /\ k.list[l.at] = Append(l.old, l.e) /\ l.old = kv.list[l.at]
          /\ l.old \in Folder /\ kv.list[l.at] # None
      <4>1. l.at \in Ids /\ l.old \in Folder /\ NewList(c) = Append(l.old, l.e)
        BY <2>2, NewListIs DEF Adds, CputPlaces
      <4>2. k.list[l.at] = NewList(c) /\ l.old = kv.list[l.at]
        BY <2>2, <4>1, EffectIs DEF Adds, Matches, CputPlaces
      <4>3. None \notin Folder
        BY DriveAssumption DEF Folder, Item
      <4> QED
        BY <4>1, <4>2, <4>3
    <3>2. \A i \in DOMAIN l.old : l.old[i].id # id
      BY <1>2, <2>2, <3>1 DEF Nowhere, ListedAt
    <3>3. n \in Nat /\ DOMAIN l.old = 1 .. n
      BY <3>1 DEF Folder
    <3>4. ASSUME NEW i \in DOMAIN k.list[l.at], k.list[l.at][i].id = id PROVE i = n + 1
      <4>1. i \in 1 .. n + 1 /\ \A j \in 1 .. n : k.list[l.at][j] = l.old[j]
        BY <3>1 DEF Folder
      <4>2. i \in 1 .. n \/ i = n + 1
        BY <3>3, <4>1
      <4> QED
        BY <3>2, <3>3, <3>4, <4>1, <4>2
    <3>5. \A d \in Ids : ListedAt(k, id, d) => d = l.at
      BY <1>1, <1>2, <2>2 DEF Nowhere
    <3> HIDE DEF n, l
    <3> QED
      BY <3>4, <3>5, ListedIs DEF Once, At
  <2> QED
    BY <2>1, <2>2
<1> QED
  BY <1>1, <1>2

\* An entry leaves a folder when a client takes it out or deletes the folder.
LEMMA EffectTakes ==
  ASSUME DriveInv, NEW c \in Clients, c \notin stale, NEW k, k = Effect(c), NEW id, NEW d \in Ids
  PROVE  /\ ListedAt(kv, id, d) /\ ~ListedAt(k, id, d) =>
              \/ d \in told.deleted \cup told.resent
              \/ /\ pc[c] = "remove" /\ Matches(c) /\ d = loc[c].at /\ id = loc[c].e.id
                 /\ Lists(loc[c].old, id)
         /\ TakesOut(c) => ~ListedAt(k, loc[c].e.id, loc[c].at)
<1> DEFINE l == loc[c]  old == kv.list[d]  new == k.list[d]
<1>1. ASSUME ListedAt(kv, id, d), ~ListedAt(k, id, d), d \notin told.deleted \cup told.resent
      PROVE  /\ pc[c] = "remove" /\ Matches(c) /\ d = loc[c].at /\ id = loc[c].e.id
             /\ Lists(loc[c].old, id)
  <2>1. old # None /\ \E i \in DOMAIN old : old[i].id = id
    BY <1>1 DEF ListedAt
  <2>2. new # None /\ new # old
    <3>1. new = None => d \in told.deleted
      BY <2>1, EffectLists
    <3> QED
      BY <1>1, <2>1, <3>1 DEF ListedAt
  <2>3. ~(pc[c] = "putBody" /\ l.e.dir /\ d = l.e.id)
    <3> SUFFICES ASSUME pc[c] = "putBody", d = l.e.id PROVE FALSE
      OBVIOUS
    <3>1. Called(c) /\ Unmade(kv, c)
      BY DEF DriveInv, ClientOK
    <3>2. d \in told.resent
      BY <2>1, <3>1 DEF Unmade, Called, Making, Registering, Doing, Writing
    <3> QED
      BY <1>1, <3>2
  <2>4. new = None \/ (pc[c] \in CputPlaces /\ Matches(c) /\ d = l.at /\ new = NewList(c))
    BY <2>2, <2>3, EffectIs DEF old, new
  <2>5. pc[c] \in CputPlaces /\ Matches(c) /\ d = l.at /\ new = NewList(c) /\ old = l.old /\ l.old \in Folder
    BY <2>2, <2>4, NewListIs DEF Matches
  <2>6. pc[c] # "add"
    <3> SUFFICES ASSUME pc[c] = "add" PROVE FALSE
      OBVIOUS
    <3>1. new = Append(old, l.e) /\ old \in Seq(Item)
      BY <2>5, NewListIs DEF Folder
    <3>2. \A i \in DOMAIN old : i \in DOMAIN new /\ new[i] = old[i]
      BY <3>1
    <3> QED
      BY <1>1, <2>1, <2>2, <3>2 DEF ListedAt, new
  <2>7. pc[c] # "renCput"
    <3> SUFFICES ASSUME pc[c] = "renCput" PROVE FALSE
      OBVIOUS
    <3>1. DOMAIN new = DOMAIN old /\ \A i \in DOMAIN old : new[i].id = old[i].id
      BY <2>5, NewListIs, RenamedEntries
    <3> QED
      BY <1>1, <2>1, <2>2, <3>1 DEF ListedAt, new
  <2>8. pc[c] = "remove" /\ Keeps(new, old, Len(old), l.e.id) /\ DOMAIN old = 1 .. Len(old)
    BY <2>5, <2>6, <2>7, NewListIs DEF CputPlaces, Folder
  <2>9. id = l.e.id
    <3> HIDE DEF new, old
    <3>1. \A a \in DOMAIN old : old[a].id # l.e.id => \E i \in DOMAIN new : new[i] = old[a]
      BY <2>8 DEF Keeps
    <3> QED
      BY <1>1, <2>1, <2>2, <3>1 DEF ListedAt, new
  <2>10. Lists(l.old, id)
    BY <2>1, <2>5 DEF Lists
  <2> QED
    BY <2>5, <2>8, <2>9, <2>10
<1>2. ASSUME TakesOut(c) PROVE ~ListedAt(k, l.e.id, l.at)
  <2>1. pc[c] = "remove" /\ Matches(c) /\ pc[c] \in CputPlaces
    BY <1>2 DEF TakesOut, CputPlaces
  <2>2. k.list[l.at] = NewList(c)
    BY <2>1, NewListIs, EffectIs
  <2>3. \A i \in DOMAIN NewList(c) : NewList(c)[i].id # l.e.id
    BY <2>1, NewListIs DEF Keeps
  <2> QED
    BY <2>2, <2>3 DEF ListedAt
<1> QED
  BY <1>1, <1>2

-----------------------------------------------------------------------------
(* What a step does to the entry that its client is about *)

Beside(c) ==
  \A d \in Clients \ {c} :
    pc'[d] = pc[d] /\ loc'[d] = loc[d] /\ path'[d] = path[d] /\ view'[d] = view[d]

(* What is stored now was being stored.                                    *)
HistoryGoes(c) ==
  /\ told'.movers = told.movers /\ told.deleted \subseteq told'.deleted
  /\ told'.resent = told.resent /\ told.dropped \subseteq told'.dropped
  /\ \A s \in told'.stored :
       s \in told.stored \/ (Stores(c) /\ s.e.id = loc[c].e.id /\ s.at = loc[c].at)

(* An entry that is still to be listed is drawn from the clock, then it is *)
(* listed, and then its content is stored.                                 *)
DrawGoes(c) ==
  /\ Draws(c)' => ~Adds(c) /\ ((Draws(c) /\ loc'[c].e.id = loc[c].e.id) \/ loc'[c].e.id = clock + 1)
  /\ Stores(c)' => /\ Stores(c) \/ (Adds(c) /\ Draws(c))
                   /\ loc'[c].e.id = loc[c].e.id /\ loc'[c].at = loc[c].at
  /\ Stores(c) \/ (Adds(c) /\ Draws(c)) => Stores(c)' \/ pc[c] = "putBody"
  /\ Adds(c) => ListedAt(kv', loc[c].e.id, loc[c].at)

(* A client finds the entry, takes it out and puts it in, or drops it.     *)
MoverGoes(c) ==
  /\ pc'[c] # "movGet" /\ MoverOK(c)'
  /\ Active(c)' =>
       /\ Active(c) /\ loc'[c].e.id = loc[c].e.id /\ path'[c] = path[c]
       /\ Carries(c)' => TakesOut(c) \/ (Carries(c) /\ ~Adds(c))
       /\ loc'[c].found => \/ loc[c].found
                           \/ pc[c] \in {"movGet", "remGet"} /\ ListedAt(kv, loc[c].e.id, loc[c].at)
       /\ pc'[c] \in {"remGet", "remove"} =>
            loc'[c].at = loc[c].at /\ pc[c] \in {"movGet", "remGet", "remove"}
  /\ Carries(c) => Carries(c)' \/ Adds(c) \/ loc[c].e.id \in told'.dropped
  /\ TakesOut(c) => Carries(c)'

(* A page shows what is listed.                                            *)
ViewGoes(c) ==
  SignedIn(c)' =>
    \A e \in view'[c] : (SignedIn(c) /\ e \in view[c]) \/ \E d \in Ids : ListedAt(kv, e.id, d)

Goes(c) ==
  /\ kv' = Effect(c) /\ c \notin stale /\ Beside(c) /\ clock <= clock'
  /\ HistoryGoes(c) /\ DrawGoes(c) /\ MoverGoes(c) /\ ViewGoes(c)

\* A step after which its client neither moves nor makes an entry.
LEMMA Leaves ==
  ASSUME NEW c \in Clients, kv' = Effect(c), c \notin stale, Beside(c), clock <= clock',
         HistoryGoes(c), ViewGoes(c), ~Active(c)', ~Making(c)', pc'[c] # "movGet",
         Adds(c) => ListedAt(kv', loc[c].e.id, loc[c].at) /\ ~Draws(c),
         Stores(c) => pc[c] = "putBody",
         Carries(c) => Adds(c) \/ loc[c].e.id \in told'.dropped, ~TakesOut(c)
  PROVE  Goes(c)
<1>1. DrawGoes(c)
  BY DEF DrawGoes, Draws, Stores
<1>2. MoverGoes(c)
  BY DEF MoverGoes, MoverOK, Carries
<1> QED
  BY <1>1, <1>2 DEF Goes

\* Where client c is after its step.
LEMMA Stepped ==
  ASSUME DriveInv, NEW c \in Clients, NEW place, Answered(c, place), NEW p, NEW l, To(c, p, l)
  PROVE  /\ pc'[c] = p /\ loc'[c] = l /\ kv' = Effect(c) /\ c \notin stale /\ pc[c] = place
         /\ loc[c] \in Locals /\ clock \in Nat
         /\ (\A d \in Clients \ {c} : path'[d] = path[d] /\ view'[d] = view[d]) => Beside(c)
         /\ UNCHANGED told => HistoryGoes(c)
         /\ Drop(c) => HistoryGoes(c) /\ loc[c].e.id \in told'.dropped
         /\ UNCHANGED <<path, view>> => ViewGoes(c) /\ Beside(c)
         /\ pc[c] # "add" => ~Adds(c)
         /\ pc[c] # "remove" => ~TakesOut(c)
         /\ pc[c] \notin Writing => ~Stores(c)
         /\ CalledAs(pc[c], loc[c].op)
<1>1. pc'[c] = p /\ loc'[c] = l /\ \A d \in Clients \ {c} : pc'[d] = pc[d] /\ loc'[d] = loc[d]
  BY DEF To, DriveInv, CallType
<1>2. Drop(c) => HistoryGoes(c) /\ loc[c].e.id \in told'.dropped
  <2>1. told \in Told
    BY DEF DriveInv, CallType
  <2>2. Drop(c) => SameTold
    BY Reading
  <2>3. Drop(c) => told'.dropped = told.dropped \cup {loc[c].e.id}
    BY <2>1 DEF Drop, Told
  <2> QED
    BY <2>2, <2>3 DEF HistoryGoes, SameTold
<1>3. UNCHANGED <<path, view>> => ViewGoes(c)
  BY DEF ViewGoes, SignedIn
<1>4. kv' = Effect(c) /\ c \notin stale /\ pc[c] = place
  BY DEF Answered
<1>5. loc[c] \in Locals /\ clock \in Nat /\ CalledAs(pc[c], loc[c].op)
  BY Reading DEF DriveInv, CallType
<1> QED
  BY <1>1, <1>2, <1>3, <1>4, <1>5 DEF Beside, HistoryGoes, Adds, TakesOut, Stores

\* A client that neither moves nor makes an entry any more.
LEMMA AsideGoes ==
  ASSUME DriveInv, NEW c \in Clients, NEW place, Answered(c, place), NEW p, NEW l, To(c, p, l),
         UNCHANGED <<clock, path, view>>, told' = told \/ Drop(c),
         l.op \notin {"move", "recover"}, l.op # "new" \/ p = "page", p # "movGet",
         ~Adds(c), ~TakesOut(c), ~Stores(c), Carries(c) => Drop(c)
  PROVE  Goes(c)
<1>1. /\ pc'[c] = p /\ loc'[c] = l /\ kv' = Effect(c) /\ c \notin stale /\ clock \in Nat
      /\ Beside(c) /\ HistoryGoes(c) /\ ViewGoes(c)
      /\ Drop(c) => loc[c].e.id \in told'.dropped
  BY Stepped
<1>2. ~Active(c)' /\ ~Making(c)' /\ clock <= clock'
  BY <1>1 DEF Active, Making, Doing, Writing
<1> QED
  BY <1>1, <1>2, Leaves

\* The handlers that have to do with no entry, or that delete or rename one.
LEMMA OtherHandlers ==
  ASSUME DriveInv, NEW c \in Clients,
         \/ RegGet(c) \/ RegCput(c) \/ SignGet(c) \/ DelName(c)
         \/ RenameGet(c) \/ RenameCput(c) \/ RenameName(c)
  PROVE  Goes(c)
<1>1. PICK place \in {"regGet", "regCput", "signGet", "delName", "renGet", "renCput", "renName"} :
        Answered(c, place) /\ UNCHANGED <<clock, path, view, told>>
  BY DEF RegGet, RegCput, SignGet, DelName, RenameGet, RenameCput, RenameName
<1>2. pc[c] = place /\ loc[c] \in Locals /\ CalledAs(place, loc[c].op)
  BY <1>1, Reading DEF Answered
<1>3. loc[c].op \in {"register", "sign_in", "delete", "rename"}
  BY <1>1, <1>2 DEF CalledAs
<1>4. PICK p \in Places \ {"movGet"}, l \in Locals : To(c, p, l) /\ l.op \in {loc[c].op, "none"}
  <2>1. CASE To(c, "renCput", [loc[c] EXCEPT !.old = kv.list[loc[c].at]]) /\ kv.list[loc[c].at] # None
    <3>1. kv.list[loc[c].at] \in Folder
      BY <1>2, <2>1, Reading
    <3>2. [loc[c] EXCEPT !.old = kv.list[loc[c].at]] \in Locals
          /\ [loc[c] EXCEPT !.old = kv.list[loc[c].at]].op = loc[c].op
      BY <1>2, <3>1 DEF Locals
    <3>3. "renCput" \in Places \ {"movGet"}
      BY DEF Places
    <3> QED
      BY <2>1, <3>2, <3>3
  <2>2. CASE Done(c)
    BY <2>2, NoLocType DEF Done, NoLoc, Places
  <2>3. CASE \E p \in Places \ {"movGet"} : To(c, p, loc[c])
    BY <1>2, <2>3
  <2> QED
    BY <2>1, <2>2, <2>3 DEF RegGet, RegCput, SignGet, DelName, RenameGet, RenameCput, RenameName, Places
<1>5. ~Adds(c) /\ ~TakesOut(c) /\ ~Stores(c) /\ ~Carries(c)
  BY <1>1, <1>2, <1>3 DEF Adds, TakesOut, Stores, Carries, Active, Doing, Writing
<1> QED
  BY <1>1, <1>3, <1>4, <1>5, AsideGoes

\* The pages that show a folder, and a file that is taken off one.
LEMMA ViewLists ==
  ASSUME DriveInv, NEW d \in Ids, kv.list[d] # None
  PROVE  \A e \in View(kv.list[d]) : ListedAt(kv, e.id, d)
BY DEF View, ListedAt

LEMMA PagesGo ==
  ASSUME DriveInv, NEW c \in Clients, Reload(c) \/ Page(c) \/ DelBody(c) \/ OpenGet(c)
  PROVE  Goes(c)
<1>1. PICK place \in {"reload", "page", "delBody", "open"} : Answered(c, place) /\ UNCHANGED <<clock, told>>
  BY DEF Reload, Page, DelBody, OpenGet
<1>2. pc[c] = place /\ CalledAs(place, loc[c].op) /\ (place \in {"page", "reload"} => SignedIn(c))
      /\ loc[c].e.id \in Ids /\ (SignedIn(c) => Here(c) \in Ids)
  BY <1>1, Reading DEF Answered
<1>3. PICK p \in {"idle", "dead"} : To(c, p, NoLoc)
  BY DEF Reload, Page, DelBody, OpenGet, Done
<1>4. /\ \A d \in Clients \ {c} : path'[d] = path[d] /\ view'[d] = view[d]
      /\ \/ view'[c] \subseteq view[c] /\ path'[c] = path[c]
         \/ \E d \in Ids : kv.list[d] # None /\ view'[c] = View(kv.list[d])
  <2>1. view \in [Clients -> SUBSET Item] /\ path \in [Clients -> Seq(Ids)]
    BY DEF DriveInv, CallType
  <2>2. CASE Reload(c) \/ Page(c)
    <3>1. UNCHANGED path /\ place \in {"page", "reload"}
      BY <1>1, <2>2 DEF Reload, Page, Answered
    <3> QED
      BY <1>2, <2>1, <2>2, <3>1 DEF Reload, Page
  <2>3. CASE DelBody(c)
    BY <2>1, <2>3 DEF DelBody
  <2>4. CASE OpenGet(c)
    BY <1>2, <2>1, <2>4 DEF OpenGet
  <2> QED
    BY <2>2, <2>3, <2>4
<1>5. /\ pc'[c] = p /\ loc'[c] = NoLoc /\ kv' = Effect(c) /\ c \notin stale /\ clock \in Nat
      /\ Beside(c) /\ HistoryGoes(c) /\ ~Adds(c) /\ ~TakesOut(c) /\ ~Stores(c) /\ ~Carries(c)
  BY <1>1, <1>2, <1>3, <1>4, Stepped DEF Carries, Writing
<1>6. ~Active(c)' /\ ~Making(c)' /\ pc'[c] # "movGet" /\ clock <= clock'
  BY <1>1, <1>5 DEF Active, Making, Doing, NoLoc
<1>7. ViewGoes(c)
  BY <1>4, ViewLists DEF ViewGoes, SignedIn
<1> QED
  BY <1>5, <1>6, <1>7, Leaves

\* Uploads and new folders.
LEMMA MakersGo ==
  ASSUME DriveInv, NEW c \in Clients, NewGet(c) \/ PutName(c) \/ PutBody(c)
  PROVE  Goes(c)
<1>1. CASE NewGet(c)
  <2>1. Answered(c, "newGet") /\ UNCHANGED <<path, view, told>>
    BY <1>1 DEF NewGet
  <2>2. PICK p, l : /\ To(c, p, l)
                    /\ \/ p = "page" /\ l = loc[c] /\ UNCHANGED clock
                       \/ p = "add" /\ l.op = "new" /\ l.e.id = clock + 1 /\ clock' = clock + 1
    <3>1. loc[c] \in Locals /\ loc[c].op = "new"
      BY <2>1, Reading DEF Answered, CalledAs
    <3>2. [loc[c] EXCEPT !.e.id = clock + 1, !.old = kv.list[loc[c].at]].op = "new"
          /\ [loc[c] EXCEPT !.e.id = clock + 1, !.old = kv.list[loc[c].at]].e.id = clock + 1
      BY <3>1 DEF Locals, Item
    <3> QED
      BY <1>1, <3>2 DEF NewGet
  <2>3. /\ pc'[c] = p /\ loc'[c] = l /\ kv' = Effect(c) /\ c \notin stale /\ clock \in Nat /\ pc[c] = "newGet"
        /\ Beside(c) /\ HistoryGoes(c) /\ ViewGoes(c) /\ ~Adds(c) /\ ~TakesOut(c) /\ ~Stores(c) /\ ~Carries(c)
        /\ loc[c].op = "new"
    BY <2>1, <2>2, Stepped DEF Carries, Writing, CalledAs
  <2>4. ~Active(c)' /\ pc'[c] # "movGet" /\ clock <= clock' /\ ~Stores(c)'
    BY <2>2, <2>3 DEF Active, Doing, Stores, Writing
  <2>5. DrawGoes(c)
    BY <2>2, <2>3, <2>4 DEF DrawGoes, Draws, Making
  <2>6. MoverGoes(c)
    BY <2>3, <2>4 DEF MoverGoes, MoverOK
  <2> QED
    BY <2>3, <2>4, <2>5, <2>6 DEF Goes
<1>2. CASE PutName(c)
  <2>1. Answered(c, "putName") /\ To(c, "putBody", loc[c]) /\ UNCHANGED <<clock, path, view, told>>
    BY <1>2 DEF PutName
  <2>2. /\ pc'[c] = "putBody" /\ loc'[c] = loc[c] /\ kv' = Effect(c) /\ c \notin stale /\ clock \in Nat
        /\ pc[c] = "putName" /\ Beside(c) /\ HistoryGoes(c) /\ ViewGoes(c) /\ ~Adds(c) /\ ~TakesOut(c)
        /\ ~Carries(c) /\ loc[c].op \in {"register", "new"}
    BY <2>1, Stepped DEF Carries, Writing, CalledAs
  <2>3. ~Active(c)' /\ ~Draws(c)' /\ clock <= clock' /\ (Stores(c)' <=> Stores(c))
    BY <2>1, <2>2 DEF Active, Doing, Draws, Stores, Making, Writing
  <2>4. DrawGoes(c)
    BY <2>2, <2>3 DEF DrawGoes
  <2>5. MoverGoes(c)
    BY <2>2, <2>3 DEF MoverGoes, MoverOK
  <2> QED
    BY <2>2, <2>3, <2>4, <2>5 DEF Goes
<1>3. CASE PutBody(c)
  <2>1. Answered(c, "putBody") /\ UNCHANGED <<clock, path, view>> /\ told \in Told
    BY <1>3 DEF PutBody, DriveInv, CallType
  <2>2. PICK p \in {"open", "page"} : To(c, p, loc[c])
    BY <1>3 DEF PutBody
  <2>3. /\ pc'[c] = p /\ loc'[c] = loc[c] /\ kv' = Effect(c) /\ c \notin stale /\ clock \in Nat
        /\ pc[c] = "putBody" /\ Beside(c) /\ ViewGoes(c) /\ ~Adds(c) /\ ~TakesOut(c)
        /\ ~Carries(c) /\ loc[c].op \in {"register", "new"}
    BY <2>1, <2>2, Stepped DEF Carries, Writing, CalledAs
  <2>4. HistoryGoes(c)
    <3>1. CASE loc[c].op = "register"
      <4>1. told' = [told EXCEPT !.registered = @ \cup {c}]
        BY <1>3, <3>1 DEF PutBody
      <4> QED
        BY <2>1, <4>1 DEF HistoryGoes, Told
    <3>2. CASE loc[c].op = "new"
      <4>1. told' = [told EXCEPT !.stored = @ \cup {[e |-> loc[c].e, at |-> loc[c].at, by |-> c]}]
        BY <1>3, <3>2 DEF PutBody
      <4>2. Stores(c)
        BY <2>3, <3>2 DEF Stores, Making, Doing, Writing
      <4> QED
        BY <2>1, <4>1, <4>2 DEF HistoryGoes, Told
    <3> QED
      BY <2>3, <3>1, <3>2
  <2>5. ~Active(c)' /\ ~Making(c)' /\ pc'[c] # "movGet" /\ clock <= clock'
    BY <2>1, <2>3 DEF Active, Doing, Making, Writing
  <2> QED
    BY <2>3, <2>4, <2>5, Leaves
<1> QED
  BY <1>1, <1>2, <1>3

\* A client that moves an entry goes on.
LEMMA MoverGoesOn ==
  ASSUME DriveInv, NEW c \in Clients, MoverOK(c), Active(c), NEW place, Answered(c, place),
         NEW p, NEW l, To(c, p, l), UNCHANGED <<clock, path, view>>, told' = told \/ Drop(c),
         l.op \in {"move", "recover"}, l.e = loc[c].e, l.dest = loc[c].dest, p # "movGet",
         p \in {"remGet", "remove", "movDest"} \/ l.op = "recover" => l.at = Here(c),
         l.op = "move" /\ p \in {"add", "addGet"} => l.at = l.dest,
         p \in {"movDest", "add", "addGet", "recGet"} =>
           l.found /\ (TakesOut(c) \/ (Carries(c) /\ ~Adds(c))),
         p = "remove" /\ Lists(l.old, l.e.id) => l.found,
         l.found => \/ loc[c].found
                    \/ pc[c] \in {"movGet", "remGet"} /\ ListedAt(kv, loc[c].e.id, loc[c].at),
         p \in {"remGet", "remove"} => l.at = loc[c].at /\ pc[c] \in {"movGet", "remGet", "remove"},
         Carries(c) => p \in {"movDest", "add", "addGet", "recGet"} \/ Adds(c) \/ Drop(c),
         TakesOut(c) => p \in {"movDest", "add", "addGet", "recGet"},
         Adds(c) => ListedAt(kv', loc[c].e.id, loc[c].at)
  PROVE  Goes(c)
<1>1. /\ pc'[c] = p /\ loc'[c] = l /\ kv' = Effect(c) /\ c \notin stale /\ clock \in Nat
      /\ Beside(c) /\ HistoryGoes(c) /\ ViewGoes(c)
      /\ Drop(c) => loc[c].e.id \in told'.dropped
  BY Stepped
<1>2. /\ Active(c)' /\ ~Making(c)' /\ ~Making(c) /\ clock <= clock' /\ told'.movers = told.movers
      /\ Carries(c)' <=> p \in {"movDest", "add", "addGet", "recGet"}
      /\ Doing(c, {"recover"})' <=> l.op = "recover"
      /\ Doing(c, {"move"})' <=> l.op = "move"
  BY <1>1 DEF Active, Making, Carries, Doing, HistoryGoes
<1>3. Here(c)' = Here(c)
  BY DEF Here
<1>4. MoverOK(c)'
  <2>1. \E m \in told.movers : m[2] = l.e.id /\ m[3] = l.dest
    BY DEF MoverOK
  <2>2. \E m \in told'.movers : m[2] = loc'[c].e.id /\ m[3] = loc'[c].dest
    BY <1>1, <1>2, <2>1
  <2> QED
    BY <1>1, <1>2, <1>3, <2>2 DEF MoverOK
<1>5. MoverGoes(c)
  BY <1>1, <1>2, <1>4 DEF MoverGoes
<1>6. DrawGoes(c)
  BY <1>2 DEF DrawGoes, Draws, Stores
<1> QED
  BY <1>1, <1>2, <1>5, <1>6 DEF Goes

LEMMA RemoveGetGoes ==
  ASSUME DriveInv, NEW c \in Clients, MoverOK(c), RemoveGet(c)
  PROVE  Goes(c)
<1>1. PICK place \in {"delGet", "movGet", "remGet"} :
        Answered(c, place) /\ UNCHANGED <<clock, path, view, told>>
  BY DEF RemoveGet
<1>2. /\ pc[c] = place /\ loc[c] \in Locals /\ loc[c].at \in Ids /\ loc[c].op \in {"delete", "move"}
      /\ ~Adds(c) /\ ~TakesOut(c) /\ ~Stores(c) /\ ~Carries(c)
  BY <1>1, Reading DEF Answered, CalledAs, Adds, TakesOut, Stores, Carries, Writing
<1>3. CASE Done(c)
  BY <1>1, <1>2, <1>3, AsideGoes DEF Done, NoLoc
<1> DEFINE list == kv.list[loc[c].at]
           l == [loc[c] EXCEPT !.old = list, !.found = @ \/ Lists(list, loc[c].e.id)]
<1>4. CASE list # None /\ To(c, "remove", l)
  <2>1. /\ l.op = loc[c].op /\ l.e = loc[c].e /\ l.dest = loc[c].dest /\ l.at = loc[c].at
        /\ l.old = list /\ l.found = (loc[c].found \/ Lists(list, loc[c].e.id))
    BY <1>2 DEF Locals
  <2>2. Lists(list, loc[c].e.id) => ListedAt(kv, loc[c].e.id, loc[c].at)
    BY <1>4 DEF Lists, ListedAt
  <2> HIDE DEF l
  <2>3. CASE loc[c].op = "delete"
    BY <1>1, <1>2, <1>4, <2>1, <2>3, AsideGoes
  <2>4. CASE loc[c].op = "move"
    <3>1. Active(c) /\ place \in {"movGet", "remGet"}
      BY <1>1, <1>2, <2>4, Reading DEF Active, Doing, CalledAs
    <3>2. loc[c].at = Here(c)
      BY <1>2, <3>1 DEF MoverOK
    <3> HIDE DEF list
    <3> QED
      BY <1>1, <1>2, <1>4, <2>1, <2>2, <2>4, <3>1, <3>2, MoverGoesOn
  <2> QED
    BY <1>2, <2>3, <2>4
<1> QED
  BY <1>3, <1>4 DEF RemoveGet

LEMMA RemoveCputGoes ==
  ASSUME DriveInv, NEW c \in Clients, MoverOK(c), RemoveCput(c)
  PROVE  Goes(c)
<1>1. Answered(c, "remove") /\ UNCHANGED <<clock, path, view, told>>
  BY DEF RemoveCput
<1>2. /\ pc[c] = "remove" /\ loc[c] \in Locals /\ loc[c].op \in {"delete", "move"}
      /\ ~Adds(c) /\ ~Stores(c) /\ ~Carries(c) /\ (Active(c) <=> loc[c].op = "move")
  BY <1>1, Reading DEF Answered, CalledAs, Adds, Active, Doing, Stores, Carries, Writing
<1>3. CASE Done(c) /\ ~loc[c].found
  BY <1>1, <1>2, <1>3, AsideGoes DEF Done, NoLoc, TakesOut
<1>4. CASE loc[c].op = "delete" /\ \E p \in {"remGet", "delName"} : To(c, p, loc[c])
  BY <1>1, <1>2, <1>4, AsideGoes DEF TakesOut
<1>5. CASE loc[c].op = "move" /\ \/ ~Matches(c) /\ To(c, "remGet", loc[c])
                                 \/ Matches(c) /\ loc[c].found /\ To(c, "movDest", loc[c])
  <2>1. loc[c].at = Here(c)
    BY <1>2, <1>5 DEF MoverOK
  <2>2. TakesOut(c) <=> Matches(c) /\ loc[c].found
    BY <1>2, <1>5 DEF TakesOut
  <2>3. PICK p \in {"remGet", "movDest"} : To(c, p, loc[c]) /\ (TakesOut(c) <=> p = "movDest")
    BY <1>5, <2>2
  <2>4. p = "movDest" => loc[c].found
    BY <2>2, <2>3
  <2> QED
    BY <1>1, <1>2, <1>5, <2>1, <2>3, <2>4, MoverGoesOn
<1> QED
  BY <1>2, <1>3, <1>4, <1>5 DEF RemoveCput

\* A client that carries an entry reads a folder to put it in, or goes back.
LEMMA CarrierGoesOn ==
  ASSUME DriveInv, NEW c \in Clients, MoverOK(c), Carries(c), NEW place, Answered(c, place),
         UNCHANGED <<clock, path, view, told>>, pc[c] # "add",
         \/ \E at \in Ids : /\ kv.list[at] # None /\ AddTo(c, at, kv.list[at])
                            /\ at = IF loc[c].op = "move" THEN loc[c].dest ELSE Here(c)
         \/ Recover(c)
  PROVE  Goes(c)
<1>1. /\ Active(c) /\ loc[c] \in Locals /\ loc[c].op \in {"move", "recover"} /\ loc[c].found
      /\ ~Adds(c) /\ ~TakesOut(c)
  BY Reading DEF Carries, Active, Doing, MoverOK, Adds, TakesOut
<1>2. CASE Recover(c)
  <2> DEFINE l == [loc[c] EXCEPT !.op = "recover", !.at = Here(c)]
  <2>1. To(c, "recGet", l)
    BY <1>2 DEF Recover
  <2>2. l.op = "recover" /\ l.e = loc[c].e /\ l.dest = loc[c].dest /\ l.at = Here(c) /\ l.found
    BY <1>1 DEF Locals
  <2> HIDE DEF l
  <2> QED
    BY <1>1, <2>1, <2>2, MoverGoesOn
<1>3. ASSUME NEW at \in Ids, kv.list[at] # None, AddTo(c, at, kv.list[at]),
             at = IF loc[c].op = "move" THEN loc[c].dest ELSE Here(c)
      PROVE  Goes(c)
  <2> DEFINE l == [loc[c] EXCEPT !.at = at, !.old = kv.list[at]]
  <2>1. To(c, "add", l)
    BY <1>3 DEF AddTo
  <2>2. l.op = loc[c].op /\ l.e = loc[c].e /\ l.dest = loc[c].dest /\ l.at = at /\ l.found
    BY <1>1 DEF Locals
  <2> HIDE DEF l
  <2>3. (l.op = "recover" => l.at = Here(c)) /\ (l.op = "move" => l.at = l.dest)
    BY <1>1, <1>3, <2>2
  <2> QED
    BY <1>1, <2>1, <2>2, <2>3, MoverGoesOn
<1> QED
  BY <1>2, <1>3

LEMMA DestsGo ==
  ASSUME DriveInv, NEW c \in Clients, MoverOK(c), MoveDest(c) \/ RecoverGet(c)
  PROVE  Goes(c)
<1>1. PICK place \in {"movDest", "recGet"} : Answered(c, place) /\ UNCHANGED <<clock, path, view>>
  BY DEF MoveDest, RecoverGet
<1>2. /\ pc[c] = place /\ CalledAs(place, loc[c].op) /\ loc[c].at \in Ids /\ loc[c].dest \in Ids
      /\ ~Adds(c) /\ ~TakesOut(c) /\ ~Stores(c)
  BY <1>1, Reading DEF Answered, Adds, TakesOut, Stores, Writing
<1>3. Carries(c)
  BY <1>1, <1>2 DEF CalledAs, Carries, Active, Doing
<1>4. CASE MoveDest(c)
  <2>1. pc[c] = "movDest" /\ loc[c].op = "move" /\ UNCHANGED told
    BY <1>2, <1>4 DEF MoveDest, Answered, CalledAs
  <2>2. Recover(c) \/ (kv.list[loc[c].dest] # None /\ AddTo(c, loc[c].dest, kv.list[loc[c].dest]))
    BY <1>4 DEF MoveDest
  <2> QED
    BY <1>1, <1>2, <1>3, <2>1, <2>2, CarrierGoesOn
<1>5. CASE RecoverGet(c)
  <2>1. pc[c] = "recGet" /\ loc[c].op = "recover" /\ Doing(c, {"recover"})
    BY <1>2, <1>5 DEF RecoverGet, Answered, CalledAs, Doing
  <2>2. loc[c].at = Here(c)
    BY <1>3, <2>1 DEF MoverOK, Carries
  <2>3. CASE Done(c) /\ Drop(c)
    BY <1>1, <1>2, <2>3, AsideGoes DEF Done, NoLoc
  <2>4. CASE /\ kv.list[loc[c].at] # None /\ UNCHANGED told
             /\ AddTo(c, loc[c].at, kv.list[loc[c].at])
    BY <1>1, <1>2, <1>3, <2>1, <2>2, <2>4, CarrierGoesOn
  <2> QED
    BY <1>5, <2>3, <2>4 DEF RecoverGet
<1> QED
  BY <1>4, <1>5

\* A client that is about to list a new entry.
LEMMA DrawerGoesOn ==
  ASSUME DriveInv, NEW c \in Clients, Draws(c), NEW place, Answered(c, place),
         UNCHANGED <<clock, path, view, told>>, NEW p, NEW l, To(c, p, l),
         l.op = "new", l.e = loc[c].e, l.at = loc[c].at,
         (p \in {"add", "addGet"} /\ ~Adds(c)) \/ (p = "putName" /\ Adds(c)),
         Adds(c) => ListedAt(kv', loc[c].e.id, loc[c].at)
  PROVE  Goes(c)
<1>1. /\ pc'[c] = p /\ loc'[c] = l /\ kv' = Effect(c) /\ c \notin stale /\ clock \in Nat /\ pc[c] = place
      /\ Beside(c) /\ HistoryGoes(c) /\ ViewGoes(c)
  BY Stepped
<1>2. place \in {"add", "addGet"} /\ ~TakesOut(c) /\ ~Stores(c) /\ ~Carries(c) /\ clock <= clock'
  BY <1>1 DEF Draws, TakesOut, Stores, Carries, Active, Making, Doing, Writing
<1>3. ~Active(c)' /\ pc'[c] # "movGet"
  BY <1>1 DEF Active, Doing
<1>4. (Stores(c)' <=> p = "putName") /\ (Draws(c)' <=> p # "putName")
  BY <1>1 DEF Stores, Draws, Making, Doing, Writing
<1>5. DrawGoes(c)
  BY <1>1, <1>2, <1>4 DEF DrawGoes
<1>6. MoverGoes(c)
  BY <1>2, <1>3 DEF MoverGoes, MoverOK
<1> QED
  BY <1>1, <1>2, <1>5, <1>6 DEF Goes

LEMMA AddGoes ==
  ASSUME DriveInv, NEW c \in Clients, MoverOK(c), Add(c)
  PROVE  Goes(c)
<1>1. Answered(c, "add") /\ UNCHANGED <<clock, path, view, told>>
  BY DEF Add
<1>2. /\ pc[c] = "add" /\ loc[c] \in Locals /\ loc[c].op \in {"new", "move", "recover"}
      /\ (Adds(c) <=> Matches(c)) /\ ~TakesOut(c) /\ ~Stores(c)
  BY <1>1, Reading DEF Answered, CalledAs, Adds, TakesOut, Stores, Writing
<1>3. Adds(c) => ListedAt(kv', loc[c].e.id, loc[c].at)
  BY <1>1, <1>2, AddedIsListed
<1>4. CASE loc[c].op = "new"
  <2>1. Draws(c)
    BY <1>2, <1>4 DEF Draws, Making, Doing
  <2>2. \E p : To(c, p, loc[c]) /\ ((p = "addGet" /\ ~Adds(c)) \/ (p = "putName" /\ Adds(c)))
    BY <1>2, <1>4 DEF Add
  <2> QED
    BY <1>1, <1>3, <1>4, <2>1, <2>2, DrawerGoesOn
<1>5. CASE loc[c].op \in {"move", "recover"}
  <2>1. Active(c) /\ Carries(c) /\ ~Draws(c) /\ ~Making(c)
    BY <1>2, <1>5 DEF Carries, Active, Doing, Draws, Making
  <2>2. /\ loc[c].found
        /\ loc[c].op = "recover" => loc[c].at = Here(c)
        /\ loc[c].op = "move" => loc[c].at = loc[c].dest
    BY <1>2, <2>1 DEF MoverOK, Doing
  <2>3. CASE ~Adds(c) /\ To(c, "addGet", loc[c])
    BY <1>1, <1>2, <1>3, <1>5, <2>1, <2>2, <2>3, MoverGoesOn
  <2>4. CASE Adds(c) /\ loc[c].op = "move" /\ To(c, "reload", loc[c])
    BY <1>1, <1>2, <1>3, <1>5, <2>1, <2>2, <2>4, MoverGoesOn
  <2>5. CASE Adds(c) /\ To(c, "idle", NoLoc)
    <3>1. /\ pc'[c] = "idle" /\ loc'[c] = NoLoc /\ kv' = Effect(c) /\ c \notin stale /\ clock \in Nat
          /\ Beside(c) /\ HistoryGoes(c) /\ ViewGoes(c)
      BY <1>1, <2>5, Stepped
    <3>2. ~Active(c)' /\ ~Making(c)' /\ clock <= clock'
      BY <1>1, <3>1 DEF Active, Making, Doing, NoLoc
    <3> QED
      BY <1>2, <1>3, <2>1, <2>5, <3>1, <3>2, Leaves
  <2> QED
    BY <1>2, <1>5, <2>3, <2>4, <2>5 DEF Add, Done
<1> QED
  BY <1>2, <1>4, <1>5

LEMMA AddGetGoes ==
  ASSUME DriveInv, NEW c \in Clients, MoverOK(c), AddGet(c)
  PROVE  Goes(c)
<1>1. Answered(c, "addGet") /\ UNCHANGED <<clock, path, view>>
  BY DEF AddGet
<1>2. /\ pc[c] = "addGet" /\ loc[c] \in Locals /\ loc[c].op \in {"new", "move", "recover"}
      /\ ~Adds(c) /\ ~TakesOut(c) /\ ~Stores(c) /\ loc[c].at \in Ids
  BY <1>1, Reading DEF Answered, CalledAs, Adds, TakesOut, Stores, Writing
<1> DEFINE list == kv.list[loc[c].at]
<1>3. CASE loc[c].op = "new"
  <2>1. Draws(c) /\ ~Carries(c)
    BY <1>2, <1>3 DEF Draws, Making, Carries, Active, Doing
  <2>2. CASE AddTo(c, loc[c].at, list) /\ UNCHANGED told
    <3> DEFINE l == [loc[c] EXCEPT !.at = loc[c].at, !.old = list]
    <3>1. To(c, "add", l)
      BY <2>2 DEF AddTo
    <3>2. l.op = "new" /\ l.e = loc[c].e /\ l.at = loc[c].at
      BY <1>2, <1>3 DEF Locals
    <3> HIDE DEF l
    <3> QED
      BY <1>1, <1>2, <2>1, <2>2, <3>1, <3>2, DrawerGoesOn
  <2>3. CASE To(c, "page", loc[c]) /\ UNCHANGED told
    BY <1>1, <1>2, <1>3, <2>1, <2>3, AsideGoes
  <2> QED
    BY <1>3, <2>2, <2>3 DEF AddGet
<1>4. CASE loc[c].op \in {"move", "recover"}
  <2>1. Active(c) /\ Carries(c)
    BY <1>2, <1>4 DEF Carries, Active, Doing
  <2>2. /\ loc[c].found
        /\ loc[c].op = "recover" => loc[c].at = Here(c)
        /\ loc[c].op = "move" => loc[c].at = loc[c].dest
    BY <1>2, <2>1 DEF MoverOK, Doing
  <2>3. CASE list # None /\ AddTo(c, loc[c].at, list) /\ UNCHANGED told
    BY <1>1, <1>2, <1>4, <2>1, <2>2, <2>3, CarrierGoesOn
  <2>4. CASE Recover(c) /\ UNCHANGED told
    BY <1>1, <1>2, <2>1, <2>4, CarrierGoesOn
  <2>5. CASE loc[c].op = "move" /\ To(c, "reload", loc[c]) /\ Drop(c)
    BY <1>1, <1>2, <2>1, <2>2, <2>5, MoverGoesOn
  <2>6. CASE Done(c) /\ Drop(c)
    BY <1>1, <1>2, <2>6, AsideGoes DEF Done, NoLoc
  <2> QED
    BY <1>4, <2>3, <2>4, <2>5, <2>6 DEF AddGet
<1> QED
  BY <1>2, <1>3, <1>4

\* The requests of the user, but for the one that moves a file.
LEMMA AsksGo ==
  ASSUME DriveInv, crashes = 0, NEW c \in Clients, Ask(c), ~MoveFile(c)
  PROVE  Goes(c) /\ told'.stored = told.stored /\ UNCHANGED clock
<1>1. /\ stale = {} /\ told \in Told /\ clock \in Nat
      /\ path \in [Clients -> Seq(Ids)] /\ SignedIn(c) <=> path[c] # <<>>
  BY DEF DriveInv, NoCrash, CallType, SignedIn
<1>2. PICK p, l : /\ Begin(c, p, l) /\ p # "movGet" /\ l.op \notin {"move", "recover"}
                  /\ p \notin {"add", "addGet", "putName", "putBody"}
  <2>1. CASE Signup(c)
    <3>1. Begin(c, "regGet", [NoLoc EXCEPT !.op = "register"])
      BY <2>1 DEF Signup
    <3> DEFINE l == [NoLoc EXCEPT !.op = "register"]
    <3>2. l.op = "register"
      BY DEF NoLoc
    <3> HIDE DEF l
    <3>3. Begin(c, "regGet", l)
      BY <3>1 DEF l
    <3> QED
      BY <3>2, <3>3
  <2>2. CASE Signin(c)
    <3>1. PICK w \in Clients : Begin(c, "signGet", [NoLoc EXCEPT !.op = "sign_in", !.new = w])
      BY <2>2 DEF Signin
    <3> DEFINE l == [NoLoc EXCEPT !.op = "sign_in", !.new = w]
    <3>2. l.op = "sign_in"
      BY DEF NoLoc
    <3> HIDE DEF l
    <3>3. Begin(c, "signGet", l)
      BY <3>1 DEF l
    <3> QED
      BY <3>2, <3>3
  <2>3. CASE NewFile(c)
    <3>1. PICK n \in NewNames, dir \in BOOLEAN :
            Begin(c, "newGet", [NoLoc EXCEPT !.op = "new", !.e = Entry(Root, n, dir), !.at = Here(c)])
      BY <2>3 DEF NewFile
    <3> DEFINE l == [NoLoc EXCEPT !.op = "new", !.e = Entry(Root, n, dir), !.at = Here(c)]
    <3>2. l.op = "new"
      BY DEF NoLoc
    <3> HIDE DEF l
    <3>3. Begin(c, "newGet", l)
      BY <3>1 DEF l
    <3> QED
      BY <3>2, <3>3
  <2>4. CASE DeleteFile(c)
    <3>1. PICK e \in view[c] :
            Begin(c, "delGet", [NoLoc EXCEPT !.op = "delete", !.e = e, !.at = Here(c)])
      BY <2>4 DEF DeleteFile
    <3> DEFINE l == [NoLoc EXCEPT !.op = "delete", !.e = e, !.at = Here(c)]
    <3>2. l.op = "delete"
      BY DEF NoLoc
    <3> HIDE DEF l
    <3>3. Begin(c, "delGet", l)
      BY <3>1 DEF l
    <3> QED
      BY <3>2, <3>3
  <2>5. CASE RenameFile(c)
    <3>1. PICK e \in view[c], n \in NewNames :
            Begin(c, "renGet", [NoLoc EXCEPT !.op = "rename", !.e = e, !.at = Here(c), !.new = n])
      BY <2>5 DEF RenameFile
    <3> DEFINE l == [NoLoc EXCEPT !.op = "rename", !.e = e, !.at = Here(c), !.new = n]
    <3>2. l.op = "rename"
      BY DEF NoLoc
    <3> HIDE DEF l
    <3>3. Begin(c, "renGet", l)
      BY <3>1 DEF l
    <3> QED
      BY <3>2, <3>3
  <2>6. CASE OpenFolder(c)
    <3>1. PICK e \in view[c] : Begin(c, "open", [NoLoc EXCEPT !.op = "open", !.e = e])
      BY <2>6 DEF OpenFolder
    <3> DEFINE l == [NoLoc EXCEPT !.op = "open", !.e = e]
    <3>2. l.op = "open"
      BY DEF NoLoc
    <3> HIDE DEF l
    <3>3. Begin(c, "open", l)
      BY <3>1 DEF l
    <3> QED
      BY <3>2, <3>3
  <2>7. CASE GoBack(c)
    <3>1. Begin(c, "reload", [NoLoc EXCEPT !.op = "back"])
      BY <2>7 DEF GoBack
    <3> DEFINE l == [NoLoc EXCEPT !.op = "back"]
    <3>2. l.op = "back"
      BY DEF NoLoc
    <3> HIDE DEF l
    <3>3. Begin(c, "reload", l)
      BY <3>1 DEF l
    <3> QED
      BY <3>2, <3>3
  <2>8. CASE Files(c)
    <3>1. Begin(c, "page", [NoLoc EXCEPT !.op = "files"])
      BY <2>8 DEF Files
    <3> DEFINE l == [NoLoc EXCEPT !.op = "files"]
    <3>2. l.op = "files"
      BY DEF NoLoc
    <3> HIDE DEF l
    <3>3. Begin(c, "page", l)
      BY <3>1 DEF l
    <3> QED
      BY <3>2, <3>3
  <2> QED
    BY <2>1, <2>2, <2>3, <2>4, <2>5, <2>6, <2>7, <2>8 DEF Ask
<1>3. UNCHANGED view /\ \A d \in Clients \ {c} : path'[d] = path[d]
  <2>1. CASE GoBack(c)
    BY <1>1, <2>1 DEF GoBack
  <2>2. CASE ~GoBack(c)
    BY <2>2 DEF Ask, Signup, Signin, NewFile, DeleteFile, RenameFile, OpenFolder, Files
  <2> QED
    BY <2>1, <2>2
<1>4. SignedIn(c)' => SignedIn(c)
  <2>1. CASE GoBack(c)
    BY <2>1 DEF GoBack
  <2>2. CASE ~GoBack(c)
    BY <2>2 DEF Ask, Signup, Signin, NewFile, DeleteFile, RenameFile, OpenFolder, Files, SignedIn
  <2> QED
    BY <2>1, <2>2
<1>5. /\ pc[c] = "idle" /\ pc'[c] = p /\ loc'[c] = l /\ UNCHANGED <<kv, clock>>
      /\ \A d \in Clients \ {c} : pc'[d] = pc[d] /\ loc'[d] = loc[d]
  BY <1>2 DEF Begin, To, DriveInv, CallType
<1>6. Effect(c) = kv
  BY <1>5 DEF Effect, CputPlaces
<1>7. HistoryGoes(c) /\ told'.stored = told.stored
  <2>1. CASE UNCHANGED told
    BY <2>1 DEF HistoryGoes
  <2>2. CASE DeleteFile(c) \/ RenameFile(c)
    BY <1>1, <2>2 DEF HistoryGoes, DeleteFile, RenameFile, Told
  <2> QED
    BY <2>1, <2>2 DEF Ask, Signup, Signin, NewFile, OpenFolder, GoBack, Files
<1>8. ViewGoes(c)
  BY <1>3, <1>4 DEF ViewGoes
<1>9. ~Active(c)' /\ ~Making(c)' /\ clock <= clock'
  BY <1>1, <1>2, <1>5 DEF Active, Making, Doing, Writing
<1>10. ~Adds(c) /\ ~TakesOut(c) /\ ~Stores(c) /\ ~Carries(c)
  BY <1>5 DEF Adds, TakesOut, Stores, Carries, Writing
<1>11. Beside(c)
  BY <1>3, <1>5 DEF Beside
<1> QED
  BY <1>1, <1>2, <1>5, <1>6, <1>7, <1>8, <1>9, <1>10, <1>11, Leaves

LEMMA StepGoes ==
  ASSUME DriveInv, crashes = 0, NEW c \in Clients, MoverOK(c), Step(c)
  PROVE  Goes(c)
<1>1. stale = {} /\ again[c] = 0
  BY DEF DriveInv, NoCrash
<1>2. ~SendAgain(c) /\ ~Reconnect(c)
  BY <1>1 DEF SendAgain, Reconnect
<1>3. CASE RegGet(c) \/ RegCput(c) \/ SignGet(c) \/ DelName(c)
           \/ RenameGet(c) \/ RenameCput(c) \/ RenameName(c)
  BY <1>3, OtherHandlers
<1>4. CASE Reload(c) \/ Page(c) \/ DelBody(c) \/ OpenGet(c)
  BY <1>4, PagesGo
<1>5. CASE NewGet(c) \/ PutName(c) \/ PutBody(c)
  BY <1>5, MakersGo
<1>6. CASE Add(c) \/ AddGet(c) \/ RemoveGet(c) \/ RemoveCput(c) \/ MoveDest(c) \/ RecoverGet(c)
  BY <1>6, AddGoes, AddGetGoes, RemoveGetGoes, RemoveCputGoes, DestsGo
<1> QED
  BY <1>2, <1>3, <1>4, <1>5, <1>6 DEF Step

LEMMA EndGoes ==
  ASSUME DriveInv, crashes = 0, NEW c \in Clients, StalePage(c) \/ BrokenPipe(c)
  PROVE  Goes(c)
<1>1. /\ pc[c] = "idle" /\ pc'[c] = "dead" /\ loc'[c] = NoLoc
      /\ \A d \in Clients \ {c} : pc'[d] = pc[d] /\ loc'[d] = loc[d]
      /\ UNCHANGED <<kv, clock, path, view, told>>
  BY EndIs DEF End
<1>2. stale = {} /\ clock \in Nat
  BY DEF DriveInv, NoCrash, CallType
<1>3. Effect(c) = kv
  BY <1>1 DEF Effect, CputPlaces
<1>4. HistoryGoes(c) /\ ViewGoes(c) /\ Beside(c)
  BY <1>1 DEF HistoryGoes, ViewGoes, Beside, SignedIn
<1>5. ~Active(c)' /\ ~Making(c)' /\ clock <= clock'
  BY <1>1, <1>2 DEF Active, Making, Doing, NoLoc
<1>6. ~Adds(c) /\ ~TakesOut(c) /\ ~Stores(c) /\ ~Carries(c)
  BY <1>1 DEF Adds, TakesOut, Stores, Carries, Writing
<1> QED
  BY <1>1, <1>2, <1>3, <1>4, <1>5, <1>6, Leaves

-----------------------------------------------------------------------------
(* The steps keep an entry in one place *)

\* Who knows of an entry, and the ids that are in use.
LEMMA Knows ==
  ASSUME DriveInv
  PROVE  /\ \A id, d \in Ids : ListedAt(kv, id, d) => id \in 1 .. clock
         /\ clock \in Nat /\ \A i \in 1 .. clock : i \in Ids
         /\ \A c \in Clients :
              /\ Active(c) \/ Draws(c) => loc[c].e.id \in 1 .. clock
              /\ Active(c) => \E m \in told.movers : m[2] = loc[c].e.id
              /\ SignedIn(c) => \A e \in view[c] : e.id \in 1 .. clock
              /\ Adds(c) => (Draws(c) \/ Carries(c)) /\ ~(Draws(c) /\ Active(c))
              /\ pc[c] = "movGet" => Active(c)
         /\ \A c, d \in Clients : Draws(c) /\ (Draws(d) \/ Stores(d)) /\ loc[c].e.id = loc[d].e.id => c = d
         /\ \A c \in Clients : Draws(c) \/ Stores(c) => \A s \in told.stored : s.e.id # loc[c].e.id
         /\ \A s \in told.stored : s.e.id \in 1 .. clock /\ s.e.id \in Ids /\ s.at \in Ids
<1>1. clock \in Nat /\ \A i \in 1 .. clock : i \in Ids
  <2>1. clock \in Nat /\ 0 .. clock \subseteq Ids
    BY Numbers DEF DriveInv, CallType
  <2>2. \A i \in 1 .. clock : i \in 0 .. clock
    BY <2>1
  <2> QED
    BY <2>1, <2>2
<1>2. \A id, d \in Ids : ListedAt(kv, id, d) => id \in 1 .. clock
  BY DEF DriveInv, StoreOK, Known, ListedAt
<1>3. ASSUME NEW c \in Clients
      PROVE  /\ Active(c) \/ Draws(c) => loc[c].e.id \in 1 .. clock
             /\ Active(c) => \E m \in told.movers : m[2] = loc[c].e.id
             /\ SignedIn(c) => \A e \in view[c] : e.id \in 1 .. clock
             /\ Adds(c) => (Draws(c) \/ Carries(c)) /\ ~(Draws(c) /\ Active(c))
             /\ pc[c] = "movGet" => Active(c)
  <2>1. Numbered(c) /\ Asked(c) /\ Called(c)
    BY DEF DriveInv, ClientOK
  <2>2. Active(c) \/ Draws(c) => loc[c].e.id \in 0 .. clock /\ loc[c].e.id # 0
    BY <2>1 DEF Numbered, Active, Draws, Doing, Root
  <2>3. \A i \in 0 .. clock : i # 0 => i \in 1 .. clock
    BY <1>1
  <2>4. Active(c) => \E m \in told.movers : m[2] = loc[c].e.id
    BY <2>1 DEF Asked, Active
  <2>5. SignedIn(c) => \A e \in view[c] : e.id \in 1 .. clock
    BY <2>1 DEF Numbered
  <2>6. Adds(c) => (Draws(c) \/ Carries(c)) /\ ~(Draws(c) /\ Active(c))
    BY <2>1 DEF Called, Adds, Draws, Carries, Active, Making, Doing
  <2>7. pc[c] = "movGet" => Active(c)
    BY <2>1 DEF Called, Active, Doing
  <2> QED
    BY <2>2, <2>3, <2>4, <2>5, <2>6, <2>7
<1>4. /\ \A c, d \in Clients : Draws(c) /\ (Draws(d) \/ Stores(d)) /\ loc[c].e.id = loc[d].e.id => c = d
      /\ \A c \in Clients : Draws(c) \/ Stores(c) => \A s \in told.stored : s.e.id # loc[c].e.id
  BY DEF DriveInv, Drawn, Draws, Stores
<1>5. \A s \in told.stored : s.e.id \in 1 .. clock /\ s.at \in Ids
  BY DEF DriveInv, Drawn, CallType, Told
<1> QED
  BY <1>1, <1>2, <1>3, <1>4, <1>5

\* Nobody but the client that adds an entry has to do with it, and it is listed nowhere.
LEMMA AddsAlone ==
  ASSUME DriveInv, OnceOK, NEW c \in Clients, Adds(c)
  PROVE  /\ Single(loc[c].e.id) => Nowhere(kv, loc[c].e.id)
         /\ \A d \in Clients \ {c} : Active(d) /\ loc[d].e.id = loc[c].e.id => ~Single(loc[c].e.id)
         /\ \A d \in Clients \ {c} : Draws(d) => loc[d].e.id # loc[c].e.id
<1>1. Fresh(c) /\ Taken(c) /\ Alone /\ \A d \in Clients : Fresh(d)
  BY DEF OnceOK
<1>2. CASE Draws(c)
  BY <1>1, <1>2, Knows DEF Fresh
<1>3. CASE Carries(c)
  <2>1. Active(c)
    BY <1>3 DEF Carries
  <2> QED
    BY <1>1, <1>3, <2>1, Knows DEF Fresh, Taken, Alone
<1> QED
  BY <1>2, <1>3, Knows

LEMMA GoesOnce ==
  ASSUME DriveInv, Timed, OnceOK, NEW c \in Clients, Goes(c)
  PROVE  OnceOK'
<1>1. /\ kv' = Effect(c) /\ c \notin stale /\ Beside(c) /\ told'.movers = told.movers
      /\ DrawGoes(c) /\ MoverGoes(c) /\ ViewGoes(c)
  BY DEF Goes, HistoryGoes
<1>2. \A id : Single(id)' <=> Single(id)
  BY <1>1 DEF Single
<1>3. \A id, d \in Ids : ListedAt(kv', id, d) =>
        ListedAt(kv, id, d) \/ (Adds(c) /\ d = loc[c].at /\ id = loc[c].e.id)
  BY <1>1, EffectOnce
<1>4. \A a \in Clients : Active(a)' => Active(a) /\ loc'[a].e.id = loc[a].e.id
  BY <1>1 DEF Beside, MoverGoes, Active, Doing
<1>5. Alone'
  BY <1>2, <1>4 DEF OnceOK, Alone
<1>6. ASSUME NEW id \in Ids, Single(id)' PROVE Once(kv, id)'
  <2>1. Once(kv, id) /\ (Adds(c) /\ id = loc[c].e.id => Nowhere(kv, id))
    BY <1>2, <1>6, AddsAlone DEF OnceOK
  <2>2. Once(kv', id)
    BY <1>1, <2>1, EffectOnce
  <2> QED
    BY <2>2 DEF Once, At
<1>7. ASSUME NEW a \in Clients, Draws(a)' PROVE Fresh(a)'
  <2> DEFINE x == loc'[a].e.id
  <2>1. CASE Draws(a) /\ x = loc[a].e.id /\ (a = c => ~Adds(c))
    <3>1. /\ \A m \in told.movers : m[2] # x
          /\ \A d \in Clients : SignedIn(d) => \A e \in view[d] : e.id # x
          /\ Nowhere(kv, x) /\ x \in Ids
      BY <2>1, Knows DEF OnceOK, Fresh
    <3> HIDE DEF x
    <3>2. \A d \in Clients : SignedIn(d)' => \A e \in view'[d] : e.id # x
      BY <1>1, <3>1 DEF ViewGoes, Beside, SignedIn, Nowhere
    <3>3. ~(Adds(c) /\ x = loc[c].e.id)
      BY <2>1, AddsAlone
    <3>4. Nowhere(kv', x)
      BY <1>3, <3>1, <3>3 DEF Nowhere
    <3> QED
      BY <1>1, <3>1, <3>2, <3>4 DEF Fresh, Nowhere, x
  <2>2. CASE a = c /\ x = clock + 1 /\ ~Adds(c)
    <3>1. x \notin 1 .. clock
      BY <2>2, Knows
    <3> HIDE DEF x
    <3>2. \A m \in told.movers : m[2] # x
      BY <3>1 DEF Timed
    <3>3. \A d \in Clients : SignedIn(d) => \A e \in view[d] : e.id # x
      BY <3>1, Knows
    <3>4. Nowhere(kv, x)
      BY <3>1 DEF Nowhere, ListedAt, DriveInv, StoreOK, Known
    <3>5. \A d \in Clients : SignedIn(d)' => \A e \in view'[d] : e.id # x
      BY <1>1, <3>3, <3>4 DEF ViewGoes, Beside, SignedIn, Nowhere
    <3>6. Nowhere(kv', x)
      BY <1>1, <2>2, <3>4, EffectOnce DEF Nowhere
    <3> QED
      BY <1>1, <3>2, <3>5, <3>6 DEF Fresh, Nowhere, x
  <2>3. a # c => Draws(a) /\ x = loc[a].e.id
    BY <1>1, <1>7 DEF Beside, Draws, Making, Doing
  <2>4. a = c => ~Adds(c) /\ ((Draws(c) /\ x = loc[c].e.id) \/ x = clock + 1)
    BY <1>1, <1>7 DEF DrawGoes
  <2> QED
    BY <2>1, <2>2, <2>3, <2>4
<1>8. ASSUME NEW a \in Clients PROVE Taken(a)'
  <2>1. pc'[a] = "movGet" => ~loc'[a].found
    BY <1>1 DEF Beside, MoverGoes, OnceOK, Taken
  <2> SUFFICES ASSUME Active(a)', Single(loc[a].e.id)'
               PROVE  /\ Carries(a)' => Nowhere(kv', loc'[a].e.id)
                      /\ pc'[a] \in {"remGet", "remove"} /\ loc'[a].found =>
                           \A d \in Ids : ListedAt(kv', loc'[a].e.id, d) => d = loc'[a].at
    BY <2>1 DEF Taken, Nowhere
  <2> DEFINE x == loc[a].e.id
  <2>2. Active(a) /\ loc'[a].e.id = x
    BY <1>4
  <2>3. Single(x)
    <3>1. PICK y : y = loc'[a].e.id
      OBVIOUS
    <3>2. Single(y)'
      BY <3>1
    <3> QED
      BY <1>2, <2>2, <3>1, <3>2
  <2>4. x \in Ids /\ Taken(a)
    BY <2>2, Knows DEF OnceOK
  <2>5. a # c => ~(Adds(c) /\ x = loc[c].e.id)
    BY <2>2, <2>3, AddsAlone
  <2>6. CASE a # c
    <3>1. pc'[a] = pc[a] /\ loc'[a] = loc[a] /\ (Carries(a)' => Carries(a))
      BY <1>1, <2>6 DEF Beside, Carries, Active, Doing
    <3>2. \A d \in Ids : ListedAt(kv', x, d) => ListedAt(kv, x, d)
      BY <1>3, <2>4, <2>5, <2>6
    <3> QED
      BY <2>2, <2>3, <2>4, <3>1, <3>2 DEF Taken, Nowhere
  <2>7. CASE a = c
    <3>1. ASSUME Carries(c)' PROVE Nowhere(kv', x)
      <4>1. CASE Carries(c) /\ ~Adds(c)
        BY <1>3, <2>2, <2>3, <2>4, <2>7, <4>1 DEF Taken, Nowhere
      <4>2. CASE TakesOut(c)
        <5>1. pc[c] = "remove" /\ loc[c].found /\ ~Adds(c)
          BY <4>2 DEF TakesOut, Adds
        <5>2. \A d \in Ids : ListedAt(kv', x, d) => d = loc[c].at
          BY <1>3, <2>2, <2>3, <2>4, <2>7, <5>1 DEF Taken
        <5>3. loc[c].at \in Ids
          BY Reading
        <5>4. ~ListedAt(kv', x, loc[c].at)
          BY <1>1, <2>7, <4>2, <5>3, EffectTakes
        <5> QED
          BY <5>2, <5>4 DEF Nowhere
      <4> QED
        BY <1>1, <2>2, <2>7, <3>1, <4>1, <4>2 DEF MoverGoes
    <3>2. ASSUME pc'[c] \in {"remGet", "remove"}, loc'[c].found, NEW d \in Ids, ListedAt(kv', x, d)
          PROVE  d = loc'[c].at
      <4>1. /\ loc'[c].at = loc[c].at /\ pc[c] \in {"movGet", "remGet", "remove"}
            /\ loc[c].found \/ ListedAt(kv, x, loc[c].at)
        BY <1>1, <2>7, <3>2 DEF MoverGoes
      <4>2. ~Adds(c)
        BY <4>1 DEF Adds
      <4>3. ListedAt(kv, x, d)
        BY <1>3, <2>4, <3>2, <4>2
      <4>4. CASE loc[c].found
        BY <2>2, <2>3, <2>4, <2>7, <4>1, <4>3, <4>4 DEF Taken
      <4>5. CASE ListedAt(kv, x, loc[c].at)
        <5>1. loc[c].at \in Ids /\ Once(kv, x)
          BY <2>3, <2>4, Reading DEF OnceOK
        <5> QED
          BY <4>1, <4>3, <4>5, <5>1, ListedIs DEF Once
      <4> QED
        BY <4>1, <4>4, <4>5
    <3> QED
      BY <2>2, <2>7, <3>1, <3>2
  <2> QED
    BY <2>6, <2>7
<1>9. \A a \in Clients : Fresh(a)'
  BY <1>7 DEF Fresh
<1> QED
  BY <1>5, <1>6, <1>8, <1>9 DEF OnceOK

LEMMA AskBegins ==
  ASSUME NEW c \in Clients, Ask(c)
  PROVE  \E p, l : Begin(c, p, l)
<1>1. CASE Signup(c) \/ Signin(c) \/ Files(c) \/ GoBack(c)
  BY <1>1 DEF Signup, Signin, Files, GoBack
<1>2. CASE NewFile(c) \/ OpenFolder(c)
  BY <1>2 DEF NewFile, OpenFolder
<1>3. CASE DeleteFile(c)
  BY <1>3 DEF DeleteFile
<1>4. CASE RenameFile(c)
  BY <1>4 DEF RenameFile
<1>5. CASE MoveFile(c)
  BY <1>5 DEF MoveFile
<1> QED
  BY <1>1, <1>2, <1>3, <1>4, <1>5 DEF Ask

\* The requests are numbered.
LEMMA TimeGoes ==
  ASSUME DriveInv, Timed, NEW c \in Clients, Goes(c), Ask(c) \/ StalePage(c) \/ BrokenPipe(c) \/ Step(c)
  PROVE  Timed'
<1>1. ops \in Nat /\ (ops' = ops \/ ops' = ops + 1)
  <2>1. CASE Ask(c)
    <3>1. \E p, l : Begin(c, p, l)
      BY <2>1, AskBegins
    <3> QED
      BY <3>1 DEF Begin, DriveInv, CallType
  <2>2. CASE \E place : Answered(c, place)
    BY <2>2 DEF Answered, DriveInv, CallType
  <2>3. CASE SendAgain(c) \/ Reconnect(c)
    BY <2>3 DEF SendAgain, Reconnect, DriveInv, CallType
  <2>4. CASE Step(c) /\ ~SendAgain(c) /\ ~Reconnect(c)
    <3>1. \E place : Answered(c, place)
      BY <2>4 DEF Step, RegGet, RegCput, SignGet, OpenGet, NewGet, PutName, PutBody, Add, AddGet,
                  RemoveGet, RemoveCput, DelName, DelBody, MoveDest, RecoverGet,
                  RenameGet, RenameCput, RenameName, Reload, Page
    <3> QED
      BY <2>2, <3>1
  <2>5. CASE StalePage(c) \/ BrokenPipe(c)
    BY <2>5, EndIs
  <2> QED
    BY <2>1, <2>3, <2>4, <2>5
<1>2. clock \in Nat /\ clock <= clock' /\ told'.movers = told.movers /\ clock' \in Nat
  BY NextDrive DEF Goes, HistoryGoes, Next, DriveInv, CallType
<1>3. \A m \in told.movers : m[1] \in Nat /\ m[1] < ops /\ m[2] \in 1 .. clock
  BY DEF Timed, DriveInv, CallType, Told
<1>4. \A m \in told.movers : m[1] < ops' /\ m[2] \in 1 .. clock'
  BY <1>1, <1>2, <1>3
<1> QED
  BY <1>2, <1>4 DEF Timed

\* Where an entry may be does not change, but for the one that is still to be listed.
LEMMA GoesPlaced ==
  ASSUME DriveInv, OnceOK, NEW c \in Clients, MoverOK(c), Goes(c), NEW id \in Ids, NEW at \in Ids, Placed(id, at),
         Draws(c) => loc[c].e.id # id
  PROVE  Placed(id, at)'
<1>1. /\ kv' = Effect(c) /\ c \notin stale /\ Beside(c) /\ told'.movers = told.movers /\ MoverGoes(c)
  BY DEF Goes, HistoryGoes
<1>2. SUFFICES ASSUME Single(id)' PROVE /\ \A d \in Ids : ListedAt(kv', id, d) => Home(id, at, d)
                                       /\ \A a \in Clients : Active(a)' /\ loc'[a].e.id = id /\ loc'[a].found =>
                                            Home(id, at, Here(a)')
  BY <1>1 DEF Placed, Home
<1>3. /\ \A d \in Ids : ListedAt(kv, id, d) => Home(id, at, d)
      /\ \A a \in Clients : Active(a) /\ loc[a].e.id = id /\ loc[a].found => Home(id, at, Here(a))
  BY <1>1, <1>2 DEF Placed, Single
<1>4. ASSUME NEW d \in Ids, ListedAt(kv', id, d) PROVE Home(id, at, d)
  <2>1. CASE ListedAt(kv, id, d)
    BY <1>3, <2>1
  <2>2. CASE Adds(c) /\ d = loc[c].at /\ id = loc[c].e.id
    <3>1. Carries(c) /\ Active(c) /\ pc[c] = "add" /\ loc[c].found
      BY <2>2, Knows DEF Adds, Carries, MoverOK
    <3>2. CASE Doing(c, {"move"})
      BY <2>2, <3>1, <3>2 DEF MoverOK, Home
    <3>3. CASE Doing(c, {"recover"})
      <4>1. loc[c].at = Here(c)
        BY <3>1, <3>3 DEF MoverOK
      <4> QED
        BY <1>3, <2>2, <3>1, <4>1
    <3> QED
      BY <3>1, <3>2, <3>3 DEF Active, Doing
  <2> QED
    BY <1>1, <1>4, <2>1, <2>2, EffectOnce
<1>5. ASSUME NEW a \in Clients, Active(a)', loc'[a].e.id = id, loc'[a].found PROVE Home(id, at, Here(a)')
  <2>1. CASE a # c
    <3>1. Active(a) /\ loc[a].e.id = id /\ loc[a].found /\ Here(a)' = Here(a)
      BY <1>1, <1>5, <2>1 DEF Beside, Active, Doing, Here
    <3> QED
      BY <1>3, <3>1
  <2>2. CASE a = c
    <3>1. /\ Active(c) /\ loc[c].e.id = id /\ Here(c)' = Here(c)
          /\ loc[c].found \/ (pc[c] \in {"movGet", "remGet"} /\ ListedAt(kv, id, loc[c].at))
      BY <1>1, <1>5, <2>2 DEF MoverGoes, Here
    <3>2. CASE loc[c].found
      BY <1>3, <2>2, <3>1, <3>2
    <3>3. CASE pc[c] \in {"movGet", "remGet"} /\ ListedAt(kv, id, loc[c].at)
      <4>1. loc[c].at = Here(c) /\ loc[c].at \in Ids
        BY <3>1, <3>3, Reading DEF MoverOK
      <4> QED
        BY <1>3, <2>2, <3>1, <3>3, <4>1
    <3> QED
      BY <3>1, <3>2, <3>3
  <2> QED
    BY <2>1, <2>2
<1> QED
  BY <1>4, <1>5

\* The entry is not lost.
LEMMA GoesPresent ==
  ASSUME DriveInv, OnceOK, told.resent = {}, NEW c \in Clients, MoverOK(c), Goes(c), NEW id \in Ids, NEW at \in Ids,
         Placed(id, at), Present(id, at)
  PROVE  Present(id, at)'
<1>1. /\ kv' = Effect(c) /\ c \notin stale /\ Beside(c) /\ told'.movers = told.movers
      /\ told.deleted \subseteq told'.deleted /\ told.dropped \subseteq told'.dropped
      /\ MoverGoes(c) /\ DrawGoes(c)
  BY DEF Goes, HistoryGoes
<1>2. SUFFICES ASSUME Single(id), id \notin told.deleted, \A d \in told.deleted : ~Home(id, at, d)
               PROVE  \/ \E d \in Ids : ListedAt(kv', id, d)
                      \/ \E a \in Clients : Carries(a)' /\ loc'[a].e.id = id
                      \/ id \in told'.dropped
  BY <1>1 DEF Present, Home, Single
<1>3. CASE \E d \in Ids : ListedAt(kv, id, d)
  <2>1. PICK d \in Ids : ListedAt(kv, id, d)
    BY <1>3
  <2>2. d \notin told.deleted \cup told.resent
    BY <1>2, <2>1 DEF Placed
  <2>3. CASE ListedAt(kv', id, d)
    BY <2>3
  <2>4. CASE pc[c] = "remove" /\ Matches(c) /\ id = loc[c].e.id /\ Lists(loc[c].old, id)
    <3>1. Doing(c, {"delete", "move"}) /\ (Doing(c, {"delete"}) => id \in told.deleted)
      BY <2>4 DEF DriveInv, ClientOK, Called, Asked
    <3>2. Active(c)
      BY <1>2, <3>1 DEF Active, Doing
    <3>3. TakesOut(c)
      BY <2>4, <3>2 DEF MoverOK, TakesOut
    <3>4. Carries(c)' /\ Active(c)'
      BY <1>1, <3>3 DEF MoverGoes, Carries
    <3>5. loc'[c].e.id = id
      BY <1>1, <2>4, <3>4 DEF MoverGoes
    <3> QED
      BY <3>4, <3>5
  <2> QED
    BY <1>1, <2>1, <2>2, <2>3, <2>4, EffectTakes
<1>4. CASE \E a \in Clients : Carries(a) /\ loc[a].e.id = id
  <2>1. PICK a \in Clients : Carries(a) /\ loc[a].e.id = id
    BY <1>4
  <2>2. CASE a # c
    <3>1. Carries(a)' /\ loc'[a].e.id = id
      BY <1>1, <2>1, <2>2 DEF Beside, Carries, Active, Doing
    <3> QED
      BY <3>1
  <2>3. CASE a = c
    <3>1. CASE Carries(c)'
      <4>1. Active(c)'
        BY <3>1 DEF Carries
      <4>2. loc'[c].e.id = id
        BY <1>1, <2>1, <2>3, <4>1 DEF MoverGoes
      <4> QED
        BY <3>1, <4>2
    <3>2. CASE Adds(c)
      <4>1. ListedAt(kv', id, loc[c].at) /\ loc[c].at \in Ids
        BY <1>1, <2>1, <2>3, <3>2, Reading DEF DrawGoes
      <4> QED
        BY <4>1
    <3>3. CASE id \in told'.dropped
      BY <3>3
    <3> QED
      BY <1>1, <2>1, <2>3, <3>1, <3>2, <3>3 DEF MoverGoes
  <2> QED
    BY <2>2, <2>3
<1>5. CASE id \in told.dropped
  BY <1>1, <1>5
<1> QED
  BY <1>2, <1>3, <1>4, <1>5 DEF Present

LEMMA GoesPresentOK ==
  ASSUME DriveInv, OnceOK, PresentOK, NEW c \in Clients, MoverOK(c), Goes(c)
  PROVE  PresentOK'
<1>1. /\ kv' = Effect(c) /\ c \notin stale /\ Beside(c) /\ told'.movers = told.movers /\ told'.resent = {}
      /\ MoverGoes(c) /\ DrawGoes(c) /\ told.resent = {}
      /\ \A s \in told'.stored :
           s \in told.stored \/ (Stores(c) /\ s.e.id = loc[c].e.id /\ s.at = loc[c].at)
  BY DEF Goes, HistoryGoes, PresentOK
<1>2. ASSUME NEW id \in Ids, NEW at \in Ids, Placed(id, at), Present(id, at), Draws(c) => loc[c].e.id # id
      PROVE  Placed(id, at)' /\ Present(id, at)'
  BY <1>1, <1>2, GoesPlaced, GoesPresent
<1>3. ASSUME NEW s \in told.stored
      PROVE  Placed(s.e.id, s.at) /\ Present(s.e.id, s.at) /\ s.e.id \in Ids /\ s.at \in Ids
             /\ (Draws(c) => loc[c].e.id # s.e.id)
  BY Knows DEF PresentOK
<1>4. ASSUME NEW a \in Clients, Stores(a)
      PROVE  /\ Placed(loc[a].e.id, loc[a].at) /\ Present(loc[a].e.id, loc[a].at)
             /\ loc[a].e.id \in Ids /\ loc[a].at \in Ids
             /\ (Draws(c) => loc[c].e.id # loc[a].e.id)
  <2>1. ~Draws(a)
    BY <1>4 DEF Stores, Draws, Writing
  <2>2. Draws(c) => loc[c].e.id # loc[a].e.id
    BY <1>4, <2>1, Knows
  <2> QED
    BY <1>4, <2>2, Reading DEF PresentOK
<1>5. ASSUME NEW s \in told'.stored PROVE Placed(s.e.id, s.at)' /\ Present(s.e.id, s.at)'
  <2>1. PICK id, at : id = s.e.id /\ at = s.at
    OBVIOUS
  <2>2. /\ id \in Ids /\ at \in Ids /\ Placed(id, at) /\ Present(id, at)
        /\ Draws(c) => loc[c].e.id # id
    <3>1. CASE s \in told.stored
      BY <1>3, <2>1, <3>1
    <3>2. CASE Stores(c) /\ s.e.id = loc[c].e.id /\ s.at = loc[c].at
      BY <1>4, <2>1, <3>2
    <3> QED
      BY <1>1, <3>1, <3>2
  <2>3. Placed(id, at)' /\ Present(id, at)'
    BY <1>2, <2>2
  <2> QED
    BY <2>1, <2>3
<1>6. ASSUME NEW a \in Clients, Stores(a)'
      PROVE  Placed(loc[a].e.id, loc[a].at)' /\ Present(loc[a].e.id, loc[a].at)'
  <2>1. PICK id, at : id = loc'[a].e.id /\ at = loc'[a].at
    OBVIOUS
  <2>2. id = loc[a].e.id /\ at = loc[a].at /\ (Stores(a) \/ (a = c /\ Adds(c) /\ Draws(c)))
    BY <1>1, <1>6, <2>1 DEF Beside, DrawGoes, Stores, Making, Doing
  <2>3. CASE Stores(a)
    <3>1. Placed(id, at)' /\ Present(id, at)'
      BY <1>2, <1>4, <2>2, <2>3
    <3> QED
      BY <2>1, <3>1
  <2>4. CASE a = c /\ Adds(c) /\ Draws(c)
    <3>1. ListedAt(kv', id, at) /\ at \in Ids /\ id \in Ids
      BY <1>1, <2>2, <2>4, Reading DEF DrawGoes
    <3>2. Nowhere(kv, id) /\ \A m \in told.movers : m[2] # id
      BY <2>2, <2>4 DEF OnceOK, Fresh
    <3>3. \A d \in Ids : ListedAt(kv', id, d) => d = at
      BY <1>1, <2>2, <3>1, <3>2, EffectOnce DEF Nowhere
    <3>4. \A b \in Clients : ~(Active(b)' /\ loc'[b].e.id = id)
      <4> SUFFICES ASSUME NEW b \in Clients, Active(b)', loc'[b].e.id = id PROVE FALSE
        OBVIOUS
      <4>1. Active(b) /\ loc[b].e.id = id
        BY <1>1 DEF Beside, MoverGoes, Active, Doing
      <4> QED
        BY <3>2, <4>1, Knows
    <3>5. Placed(id, at)'
      BY <3>3, <3>4 DEF Placed, Home
    <3>6. Present(id, at)'
      BY <3>1 DEF Present
    <3> QED
      BY <2>1, <3>5, <3>6
  <2> QED
    BY <2>2, <2>3, <2>4
<1> QED
  BY <1>1, <1>5, <1>6 DEF PresentOK

\* What is listed, shown or moved has its content.
LEMMA GoesBorn ==
  ASSUME DriveInv, BornOK, NEW c \in Clients, Goes(c)
  PROVE  BornOK'
<1>1. /\ kv' = Effect(c) /\ c \notin stale /\ Beside(c) /\ told.deleted \subseteq told'.deleted
      /\ MoverGoes(c) /\ DrawGoes(c) /\ ViewGoes(c)
  BY DEF Goes, HistoryGoes
<1>2. None \notin Folder /\ None \notin Clients /\ <<>> \in Folder
  BY DriveAssumption DEF Folder, Item
<1>3. pc[c] = "delBody" => loc[c].e.id \in told.deleted
  BY DEF DriveInv, ClientOK, Called, Asked, Doing
<1>4. ASSUME NEW id \in Ids, Born(id) PROVE Born(id)'
  <2>1. CASE id \in told.deleted
    BY <1>1, <2>1 DEF Born
  <2>2. CASE kv.list[id] # None
    <3>1. kv'.list[id] # None \/ id \in told.deleted
      BY <1>1, <2>2, EffectLists
    <3> QED
      BY <1>1, <3>1 DEF Born
  <2>3. CASE kv.body[id] # None
    <3>1. kv'.body[id] # None \/ id \in told.deleted
      BY <1>1, <1>2, <1>3, <2>3, EffectIs
    <3> QED
      BY <1>1, <3>1 DEF Born
  <2>4. CASE \E a \in Clients : Stores(a) /\ loc[a].e.id = id
    <3>1. PICK a \in Clients : Stores(a) /\ loc[a].e.id = id
      BY <2>4
    <3>2. CASE a # c
      <4>1. Stores(a)' /\ loc'[a].e.id = id
        BY <1>1, <3>1, <3>2 DEF Beside, Stores, Making, Doing
      <4> QED
        BY <4>1 DEF Born
    <3>3. CASE a = c /\ pc[c] = "putBody"
      <4>1. kv'.list[id] = <<>> \/ kv'.body[id] = c
        BY <1>1, <3>1, <3>3, EffectIs DEF CputPlaces
      <4> QED
        BY <1>2, <4>1 DEF Born
    <3>4. CASE a = c /\ Stores(c)'
      <4>1. loc'[c].e.id = id
        BY <1>1, <3>1, <3>4 DEF DrawGoes
      <4> QED
        BY <3>4, <4>1 DEF Born
    <3> QED
      BY <1>1, <3>1, <3>2, <3>3, <3>4 DEF DrawGoes
  <2> QED
    BY <1>4, <2>1, <2>2, <2>3, <2>4 DEF Born
<1>5. ASSUME NEW id \in Ids, NEW d \in Ids, ListedAt(kv', id, d) PROVE Born(id)'
  <2>1. CASE ListedAt(kv, id, d)
    BY <1>4, <2>1 DEF BornOK
  <2>2. CASE Adds(c) /\ id = loc[c].e.id
    <3>1. CASE Draws(c)
      <4>1. Stores(c)' /\ loc'[c].e.id = id
        BY <1>1, <2>2, <3>1 DEF DrawGoes, Adds
      <4> QED
        BY <4>1 DEF Born
    <3>2. CASE Carries(c)
      BY <1>4, <2>2, <3>2 DEF BornOK, Carries
    <3> QED
      BY <2>2, <3>1, <3>2, Knows
  <2> QED
    BY <1>1, <1>5, <2>1, <2>2, EffectOnce
<1>6. ASSUME NEW a \in Clients, SignedIn(a)', NEW e \in view'[a] PROVE Born(e.id)'
  <2>1. PICK id : id = e.id
    OBVIOUS
  <2>2. (SignedIn(a) /\ e \in view[a]) \/ \E d \in Ids : ListedAt(kv, id, d)
    <3>1. CASE a = c
      BY <1>1, <1>6, <2>1, <3>1 DEF ViewGoes
    <3>2. CASE a # c
      BY <1>1, <1>6, <3>2 DEF Beside, SignedIn
    <3> QED
      BY <3>1, <3>2
  <2>3. id \in Ids
    <3>1. id \in 1 .. clock
      <4>1. CASE SignedIn(a) /\ e \in view[a]
        BY <2>1, <4>1, Knows
      <4>2. CASE \E d \in Ids : ListedAt(kv, id, d)
        BY <4>2 DEF ListedAt, DriveInv, StoreOK, Known
      <4> QED
        BY <2>2, <4>1, <4>2
    <3> QED
      BY <3>1, Knows
  <2>4. Born(id)
    BY <2>1, <2>2, <2>3 DEF BornOK
  <2>5. Born(id)'
    BY <1>4, <2>3, <2>4
  <2> QED
    BY <2>1, <2>5
<1>7. ASSUME NEW a \in Clients, Active(a)' PROVE Born(loc[a].e.id)'
  <2>1. PICK id : id = loc'[a].e.id
    OBVIOUS
  <2>2. Active(a) /\ id = loc[a].e.id
    BY <1>1, <1>7, <2>1 DEF Beside, MoverGoes, Active, Doing
  <2>3. Born(id) /\ id \in Ids
    BY <2>2, Knows DEF BornOK
  <2>4. Born(id)'
    BY <1>4, <2>3
  <2> QED
    BY <2>1, <2>4
<1>8. \A id, d \in Ids : ListedAt(kv, id, d)' => Born(id)'
  BY <1>5 DEF ListedAt
<1> QED
  BY <1>6, <1>7, <1>8 DEF BornOK

\* A client that is told to move an entry that its page shows.
MovesNow(c, e, d) ==
  /\ SignedIn(c) /\ e \in view[c] /\ e.id \in 1 .. clock /\ e.id \in Ids
  /\ pc[c] = "idle" /\ pc'[c] = "movGet"
  /\ loc'[c].op = "move" /\ loc'[c].e = e /\ loc'[c].at = Here(c) /\ ~loc'[c].found /\ loc'[c].dest = d
  /\ Beside(c) /\ UNCHANGED <<kv, clock, path, view, crashes>> /\ ops' = ops + 1
  /\ told'.movers = told.movers \cup {<<ops, e.id, d>>}
  /\ told'.stored = told.stored /\ told'.deleted = told.deleted /\ told'.resent = told.resent
  /\ told'.dropped = told.dropped

LEMMA MoveIs ==
  ASSUME DriveInv, NEW c \in Clients, MoveFile(c)
  PROVE  \E e, d : MovesNow(c, e, d)
<1>1. PICK e \in view[c], f \in view[c] :
        /\ Begin(c, "movGet", [NoLoc EXCEPT !.op = "move", !.e = e, !.at = Here(c), !.dest = f.id])
        /\ told' = [told EXCEPT !.movers = @ \cup {<<ops, e.id, f.id>>}]
  BY DEF MoveFile
<1> DEFINE l == [NoLoc EXCEPT !.op = "move", !.e = e, !.at = Here(c), !.dest = f.id]
           r == <<ops, e.id, f.id>>
<1>2. SignedIn(c) /\ UNCHANGED <<path, view>>
  BY DEF MoveFile
<1>3. e.id \in 1 .. clock /\ e.id \in Ids /\ told \in Told
  BY <1>2, Beginning
<1>4. l.op = "move" /\ l.e = e /\ l.at = Here(c) /\ ~l.found /\ l.dest = f.id
  BY DEF NoLoc
<1> HIDE DEF l, r
<1>5. Begin(c, "movGet", l) /\ told' = [told EXCEPT !.movers = @ \cup {r}]
  BY <1>1 DEF l, r
<1>6. /\ pc[c] = "idle" /\ pc'[c] = "movGet" /\ loc'[c] = l /\ ops' = ops + 1
      /\ \A a \in Clients \ {c} : pc'[a] = pc[a] /\ loc'[a] = loc[a]
      /\ UNCHANGED <<kv, clock, crashes>>
  BY <1>5 DEF Begin, To, DriveInv, CallType
<1>7. /\ told'.movers = told.movers \cup {r} /\ told'.stored = told.stored
      /\ told'.deleted = told.deleted /\ told'.resent = told.resent /\ told'.dropped = told.dropped
  BY <1>3, <1>5 DEF Told
<1>8. Beside(c)
  BY <1>2, <1>6 DEF Beside
<1>9. MovesNow(c, e, f.id)
  BY <1>2, <1>3, <1>4, <1>6, <1>7, <1>8 DEF MovesNow, r
<1> QED
  BY <1>9

\* The others stand where they stood, and an entry that was moved before is now
\* one that two clients have moved.
LEMMA MovesFacts ==
  ASSUME DriveInv, Timed, NEW c \in Clients, NEW e, NEW d, MovesNow(c, e, d)
  PROVE  /\ \A id : Single(id)' => Single(id)
         /\ \A m \in told.movers : m[2] = e.id => ~Single(e.id)'
         /\ \A a \in Clients \ {c} :
              /\ Active(a)' <=> Active(a)
              /\ Carries(a)' <=> Carries(a)
              /\ Draws(a)' <=> Draws(a)
              /\ Stores(a)' <=> Stores(a)
         /\ Active(c)' /\ ~Carries(c)' /\ ~Carries(c) /\ ~Draws(c)' /\ ~Stores(c)' /\ ~Stores(c) /\ Here(c)' = Here(c)
         /\ \A id, at, f : Home(id, at, f) => Home(id, at, f)'
<1> DEFINE r == <<ops, e.id, d>>
<1>1. told'.movers = told.movers \cup {r} /\ r[1] = ops /\ r[2] = e.id
  BY DEF MovesNow
<1>2. ops \in Nat /\ \A m \in told.movers : m[1] \in Nat /\ m[1] < ops
  BY DEF DriveInv, CallType, Told, Timed
<1>3. \A m \in told.movers : m # r
  BY <1>1, <1>2
<1> HIDE DEF r
<1>4. \A id : Single(id)' => Single(id)
  BY <1>1 DEF Single
<1>5. \A m \in told.movers : m[2] = e.id => ~Single(e.id)'
  <2> SUFFICES ASSUME NEW m \in told.movers, m[2] = e.id, Single(e.id)' PROVE FALSE
    OBVIOUS
  <2>1. PICK id : id = e.id
    OBVIOUS
  <2>2. \A n \in told'.movers : n[2] = id /\ m[2] = id => n = m
    BY <1>1, <2>1 DEF Single
  <2> QED
    BY <1>1, <1>3, <2>1, <2>2
<1>6. \A a \in Clients \ {c} :
        /\ Active(a)' <=> Active(a)
        /\ Carries(a)' <=> Carries(a)
        /\ Draws(a)' <=> Draws(a)
        /\ Stores(a)' <=> Stores(a)
  BY DEF MovesNow, Beside, Active, Carries, Draws, Stores, Making, Doing
<1>7. /\ Active(c)' /\ ~Carries(c)' /\ ~Carries(c) /\ ~Draws(c)' /\ ~Stores(c)' /\ ~Stores(c)
      /\ Here(c)' = Here(c)
  BY DEF MovesNow, Active, Carries, Draws, Stores, Doing, Writing, Here
<1>8. \A id, at, f : Home(id, at, f) => Home(id, at, f)'
  BY <1>1 DEF Home
<1> QED
  BY <1>4, <1>5, <1>6, <1>7, <1>8

LEMMA MovesTime ==
  ASSUME DriveInv, Timed, NEW c \in Clients, NEW e, NEW d, MovesNow(c, e, d)
  PROVE  Timed' /\ MoverOK(c)'
<1> DEFINE r == <<ops, e.id, d>>
<1>1. /\ told'.movers = told.movers \cup {r} /\ r[1] = ops /\ r[2] = e.id /\ r[3] = d
      /\ ops' = ops + 1 /\ clock' = clock /\ e.id \in 1 .. clock
  BY DEF MovesNow
<1>2. ops \in Nat /\ \A m \in told.movers : m[1] \in Nat /\ m[1] < ops /\ m[2] \in 1 .. clock
  BY DEF DriveInv, CallType, Told, Timed
<1> HIDE DEF r
<1>3. IsFiniteSet(told'.movers)
  BY <1>1, FS_AddElement DEF Timed
<1>4. \A m \in told'.movers : m[1] < ops' /\ m[2] \in 1 .. clock'
  BY <1>1, <1>2
<1>5. Timed'
  BY <1>3, <1>4 DEF Timed
<1>6. r \in told'.movers /\ r[2] = loc'[c].e.id /\ r[3] = loc'[c].dest
  BY <1>1 DEF MovesNow
<1>7. pc'[c] = "movGet" /\ loc'[c].at = Here(c)' /\ ~Carries(c)'
  BY MovesFacts DEF MovesNow
<1>8. MoverOK(c)'
  BY <1>6, <1>7 DEF MoverOK
<1> QED
  BY <1>5, <1>8

LEMMA MovesOnce ==
  ASSUME DriveInv, Timed, OnceOK, NEW c \in Clients, NEW e, NEW d, MovesNow(c, e, d)
  PROVE  OnceOK'
<1>1. Alone'
  <2> SUFFICES ASSUME NEW a \in Clients, NEW b \in Clients, Active(a)', Active(b)',
                      loc'[a].e.id = loc'[b].e.id, Single(loc[a].e.id)'
               PROVE  a = b
    BY DEF Alone
  <2>1. PICK id : id = loc'[a].e.id
    OBVIOUS
  <2>2. Single(id)' /\ id = loc'[b].e.id
    BY <2>1
  <2>3. Single(id)
    BY <2>2, MovesFacts
  <2>4. \A f \in Clients \ {c} : Active(f)' => Active(f) /\ loc'[f].e.id = loc[f].e.id
    BY MovesFacts DEF MovesNow, Beside
  <2>5. CASE a # c /\ b # c
    BY <2>1, <2>2, <2>3, <2>4, <2>5 DEF OnceOK, Alone
  <2>6. ASSUME NEW f \in Clients \ {c}, Active(f)', loc'[f].e.id = id PROVE id # e.id
    <3> SUFFICES ASSUME id = e.id PROVE FALSE
      OBVIOUS
    <3>1. Active(f) /\ loc[f].e.id = id
      BY <2>4, <2>6
    <3>2. \E m \in told.movers : m[2] = id
      BY <3>1, Knows
    <3>3. ~Single(e.id)'
      BY <3>2, MovesFacts
    <3>4. PICK i : i = e.id
      OBVIOUS
    <3>5. ~Single(i)' /\ i = id
      BY <3>3, <3>4
    <3> QED
      BY <2>2, <3>5
  <2>7. loc'[c].e.id = e.id
    BY DEF MovesNow
  <2> QED
    BY <2>1, <2>2, <2>5, <2>6, <2>7
<1>2. ASSUME NEW id \in Ids, Single(id)' PROVE Once(kv, id)'
  <2>1. Once(kv, id) /\ kv' = kv
    BY <1>2, MovesFacts DEF OnceOK, MovesNow
  <2> QED
    BY <2>1 DEF Once, At
<1>3. ASSUME NEW a \in Clients PROVE Fresh(a)'
  <2> SUFFICES ASSUME Draws(a)' PROVE Fresh(a)'
    BY DEF Fresh
  <2>1. Draws(a) /\ loc'[a] = loc[a]
    BY MovesFacts DEF MovesNow, Beside
  <2>2. Fresh(a)
    BY DEF OnceOK
  <2>3. e.id # loc[a].e.id
    BY <2>1, <2>2 DEF Fresh, MovesNow
  <2>4. \A m \in told'.movers : m \in told.movers \/ m[2] = e.id
    BY DEF MovesNow
  <2>5. Nowhere(kv, loc[a].e.id)'
    BY <2>1, <2>2 DEF Fresh, MovesNow, Nowhere, ListedAt
  <2>6. \A f \in Clients : SignedIn(f)' => \A x \in view'[f] : x.id # loc'[a].e.id
    BY <2>1, <2>2 DEF Fresh, MovesNow, SignedIn
  <2>7. \A m \in told'.movers : m[2] # loc'[a].e.id
    BY <2>1, <2>2, <2>3, <2>4 DEF Fresh
  <2> QED
    BY <2>5, <2>6, <2>7 DEF Fresh
<1>4. ASSUME NEW a \in Clients PROVE Taken(a)'
  <2>1. CASE a = c
    BY <2>1, MovesFacts DEF Taken, MovesNow
  <2>2. CASE a # c
    <3>1. /\ loc'[a] = loc[a] /\ pc'[a] = pc[a] /\ kv' = kv /\ Taken(a)
          /\ (Active(a)' => Active(a)) /\ (Carries(a)' => Carries(a))
      BY <2>2, MovesFacts DEF MovesNow, Beside, OnceOK
    <3>2. Single(loc[a].e.id)' => Single(loc[a].e.id)
      <4>1. PICK x, y : x = loc[a].e.id /\ y = loc'[a].e.id
        OBVIOUS
      <4>2. x = y /\ (Single(x)' => Single(x))
        BY <3>1, <4>1, MovesFacts
      <4>3. Single(loc[a].e.id)' => Single(y)'
        BY <4>1
      <4>4. Single(x) => Single(loc[a].e.id)
        BY <4>1
      <4> QED
        BY <4>2, <4>3, <4>4
    <3> QED
      BY <3>1, <3>2 DEF Taken, Nowhere, ListedAt
  <2> QED
    BY <2>1, <2>2
<1> QED
  BY <1>1, <1>2, <1>3, <1>4 DEF OnceOK

LEMMA MovesPresent ==
  ASSUME DriveInv, Timed, PresentOK, NEW c \in Clients, NEW e, NEW d, MovesNow(c, e, d)
  PROVE  PresentOK'
<1>1. ASSUME NEW id, NEW at, Placed(id, at) PROVE Placed(id, at)'
  <2> SUFFICES ASSUME Single(id)'
               PROVE  /\ \A f \in Ids : ListedAt(kv', id, f) => Home(id, at, f)'
                      /\ \A a \in Clients : Active(a)' /\ loc'[a].e.id = id /\ loc'[a].found =>
                           Home(id, at, Here(a))'
    BY DEF Placed
  <2>1. /\ \A f \in Ids : ListedAt(kv, id, f) => Home(id, at, f)
        /\ \A a \in Clients : Active(a) /\ loc[a].e.id = id /\ loc[a].found => Home(id, at, Here(a))
    BY <1>1, MovesFacts DEF Placed
  <2>2. \A f \in Ids : ListedAt(kv', id, f) => Home(id, at, f)'
    BY <2>1, MovesFacts DEF MovesNow
  <2>3. ASSUME NEW a \in Clients, Active(a)', loc'[a].e.id = id, loc'[a].found
        PROVE  Home(id, at, Here(a))'
    <3>1. a # c
      BY <2>3 DEF MovesNow
    <3>2. Active(a) /\ loc[a].e.id = id /\ loc[a].found /\ Here(a)' = Here(a)
      BY <2>3, <3>1, MovesFacts DEF MovesNow, Beside, Here
    <3>3. PICK f : f = Here(a)
      OBVIOUS
    <3>4. Home(id, at, f) /\ f = Here(a)'
      BY <2>1, <3>2, <3>3
    <3>5. Home(id, at, f)'
      BY <3>4, MovesFacts
    <3> QED
      BY <3>4, <3>5 DEF Home
  <2> QED
    BY <2>2, <2>3
<1>2. ASSUME NEW id, NEW at, Present(id, at) PROVE Present(id, at)'
  <2> SUFFICES ASSUME Single(id)', id \notin told'.deleted, \A f \in told'.deleted : ~Home(id, at, f)'
               PROVE  \/ \E f \in Ids : ListedAt(kv', id, f)
                      \/ \E a \in Clients : Carries(a)' /\ loc'[a].e.id = id
                      \/ id \in told'.dropped
    BY DEF Present, ListedAt
  <2>1. Single(id) /\ id \notin told.deleted /\ \A f \in told.deleted : ~Home(id, at, f)
    BY MovesFacts DEF MovesNow
  <2>2. \/ \E f \in Ids : ListedAt(kv, id, f)
        \/ \E a \in Clients : Carries(a) /\ loc[a].e.id = id
        \/ id \in told.dropped
    BY <1>2, <2>1 DEF Present
  <2>3. \A a \in Clients : Carries(a) => Carries(a)' /\ loc'[a] = loc[a]
    BY MovesFacts DEF MovesNow, Beside
  <2> QED
    BY <2>2, <2>3 DEF MovesNow
<1>3. ASSUME NEW s \in told'.stored PROVE Placed(s.e.id, s.at)' /\ Present(s.e.id, s.at)'
  <2>1. Placed(s.e.id, s.at) /\ Present(s.e.id, s.at)
    BY <1>3 DEF PresentOK, MovesNow
  <2>2. PICK id, at : id = s.e.id /\ at = s.at
    OBVIOUS
  <2>3. Placed(id, at)' /\ Present(id, at)'
    BY <1>1, <1>2, <2>1, <2>2
  <2> QED
    BY <2>2, <2>3
<1>4. ASSUME NEW a \in Clients, Stores(a)'
      PROVE  Placed(loc[a].e.id, loc[a].at)' /\ Present(loc[a].e.id, loc[a].at)'
  <2>1. Stores(a) /\ loc'[a] = loc[a]
    BY <1>4, MovesFacts DEF MovesNow, Beside
  <2>2. PICK id, at : id = loc[a].e.id /\ at = loc[a].at
    OBVIOUS
  <2>3. Placed(id, at) /\ Present(id, at)
    BY <2>1, <2>2 DEF PresentOK
  <2>4. Placed(id, at)' /\ Present(id, at)'
    BY <1>1, <1>2, <2>3
  <2>5. id = loc'[a].e.id /\ at = loc'[a].at
    BY <2>1, <2>2
  <2> QED
    BY <2>4, <2>5
<1>5. told'.resent = {}
  BY DEF PresentOK, MovesNow
<1> QED
  BY <1>3, <1>4, <1>5 DEF PresentOK

LEMMA MovesBorn ==
  ASSUME DriveInv, Timed, BornOK, NEW c \in Clients, NEW e, NEW d, MovesNow(c, e, d)
  PROVE  BornOK'
<1>1. ASSUME NEW id, Born(id) PROVE Born(id)'
  <2>1. \A a \in Clients : Stores(a) => Stores(a)' /\ loc'[a] = loc[a]
    BY MovesFacts DEF MovesNow, Beside
  <2>2. kv' = kv /\ told'.deleted = told.deleted
    BY DEF MovesNow
  <2> QED
    BY <1>1, <2>1, <2>2 DEF Born
<1>2. ASSUME NEW id \in Ids, NEW f \in Ids, ListedAt(kv, id, f)' PROVE Born(id)'
  BY <1>1, <1>2 DEF BornOK, ListedAt, MovesNow
<1>3. ASSUME NEW a \in Clients, SignedIn(a)', NEW x \in view'[a] PROVE Born(x.id)'
  <2>1. PICK id : id = x.id
    OBVIOUS
  <2>2. Born(id)
    BY <1>3, <2>1 DEF BornOK, MovesNow, SignedIn
  <2>3. Born(id)'
    BY <1>1, <2>2
  <2> QED
    BY <2>1, <2>3
<1>4. ASSUME NEW a \in Clients, Active(a)' PROVE Born(loc[a].e.id)'
  <2>1. PICK id : id = loc'[a].e.id
    OBVIOUS
  <2>2. Born(id)
    <3>1. CASE a = c
      BY <2>1, <3>1 DEF BornOK, MovesNow
    <3>2. CASE a # c
      BY <1>4, <2>1, <3>2, MovesFacts DEF BornOK, MovesNow, Beside
    <3> QED
      BY <3>1, <3>2
  <2>3. Born(id)'
    BY <1>1, <2>2
  <2> QED
    BY <2>1, <2>3
<1> QED
  BY <1>2, <1>3, <1>4 DEF BornOK

-----------------------------------------------------------------------------
(* What the steps of a client leave to the others *)

LEMMA OthersMove ==
  ASSUME NEW c \in Clients, Beside(c), told.movers \subseteq told'.movers,
         NEW a \in Clients \ {c}, MoverOK(a)
  PROVE  MoverOK(a)'
<1>1. pc'[a] = pc[a] /\ loc'[a] = loc[a] /\ Here(a)' = Here(a)
  BY DEF Beside, Here
<1>2. (Active(a)' <=> Active(a)) /\ (Carries(a)' <=> Carries(a))
  BY <1>1 DEF Active, Carries, Doing
<1> QED
  BY <1>1, <1>2 DEF MoverOK, Doing, Lists

-----------------------------------------------------------------------------
(* The first states, and every step *)

\* The store of a user with a folder and a file.
LEMMA PopulatedIs ==
  ASSUME NEW c \in Clients, kv = Populated(c)
  PROVE  /\ kv.list[0] = SomeFiles /\ kv.list[1] = <<>> /\ kv.body[2] = c
         /\ \A d \in Ids \ {0, 1} : kv.list[d] = None
<1>1. 0 \in Ids /\ 1 \in Ids /\ 2 \in Ids
  BY DriveAssumption DEF Ids
<1>2. /\ kv.list = [EmptyStore.list EXCEPT ![0] = SomeFiles, ![1] = <<>>]
      /\ kv.body = [EmptyStore.body EXCEPT ![2] = c]
  BY DEF Populated, Root
<1>3. EmptyStore.list = [i \in Ids |-> None] /\ EmptyStore.body = [i \in Ids |-> None]
  BY DEF EmptyStore
<1> QED
  BY <1>1, <1>2, <1>3

LEMMA InitOnce == Init => OnceInv
<1> SUFFICES ASSUME Init PROVE OnceInv
  OBVIOUS
<1>1. DriveInv
  BY InitDrive
<1>2. ASSUME NEW c \in Clients
      PROVE  ~Active(c) /\ ~Carries(c) /\ ~Draws(c) /\ ~Stores(c) /\ MoverOK(c) /\ Fresh(c) /\ Taken(c)
  <2>1. pc[c] = "idle" /\ loc[c].op = "none"
    BY DEF Init, NoLoc
  <2>2. ~Active(c) /\ ~Draws(c) /\ ~Stores(c)
    BY <2>1 DEF Active, Draws, Stores, Writing, Doing
  <2> QED
    BY <2>1, <2>2 DEF Carries, MoverOK, Fresh, Taken
<1>3. told.movers = {} /\ told.deleted = {} /\ told.resent = {}
  <2> DEFINE S(c) == {[e |-> e, at |-> Root, by |-> c] : e \in View(SomeFiles)}
  <2>1. \A c \in Clients : told = [NothingTold EXCEPT !.stored = S(c)] =>
          told.movers = {} /\ told.deleted = {} /\ told.resent = {}
    <3> HIDE DEF S
    <3> QED
      BY DEF NothingTold
  <2>2. told = NothingTold => told.movers = {} /\ told.deleted = {} /\ told.resent = {}
    BY DEF NothingTold
  <2> QED
    BY <2>1, <2>2 DEF Init
<1>4. Timed
  BY <1>3, FS_EmptySet DEF Timed
<1>5. /\ \A id, d \in Ids : \A i \in DOMAIN kv.list[d] : At(kv, id, d, i) => d = 0 /\ i = id /\ id \in {1, 2}
      /\ \A id \in {1, 2} : (\E d \in Ids : ListedAt(kv, id, d)) => Born(id)
      /\ \A c \in Clients : SignedIn(c) => \A e \in view[c] : e.id \in {1, 2} /\ Born(e.id)
  <2>1. CASE kv = EmptyStore /\ path = [c \in Clients |-> <<>>]
    <3>1. \A d \in Ids : kv.list[d] = None
      BY <2>1 DEF EmptyStore
    <3> QED
      BY <2>1, <3>1 DEF At, ListedAt, SignedIn
  <2>2. ASSUME NEW c \in Clients, kv = Populated(c), view = [d \in Clients |-> View(SomeFiles)]
        PROVE  <1>5!1 /\ <1>5!2 /\ <1>5!3
    <3>1. /\ kv.list[0] = SomeFiles /\ kv.list[1] = <<>> /\ kv.body[2] = c
          /\ \A d \in Ids \ {0, 1} : kv.list[d] = None
      BY <2>2, PopulatedIs
    <3>2. Born(1) /\ Born(2)
      <4>1. <<>> # None /\ c # None
        <5>1. <<>> \in Folder /\ None \notin Folder
          BY DriveAssumption DEF Folder, Item
        <5> QED
          BY <5>1, DriveAssumption
      <4> QED
        BY <3>1, <4>1 DEF Born
    <3>3. DOMAIN kv.list[0] = {1, 2} /\ kv.list[0][1].id = 1 /\ kv.list[0][2].id = 2 /\ DOMAIN kv.list[1] = {}
      <4>1. DOMAIN <<>> = {}
        OBVIOUS
      <4> QED
        BY <3>1, <4>1, SomeFilesIs DEF Entry
    <3>4. \A e \in View(SomeFiles) : e.id \in {1, 2}
      BY SomeFilesIs DEF Entry
    <3>5. \A id, d \in Ids : \A i \in DOMAIN kv.list[d] : At(kv, id, d, i) => d = 0 /\ i = id /\ id \in {1, 2}
      BY <3>1, <3>3 DEF At
    <3> QED
      BY <2>2, <3>2, <3>4, <3>5
  <2> QED
    BY <2>1, <2>2 DEF Init
<1>6. OnceOK
  BY <1>2, <1>5 DEF OnceOK, Alone, Once
<1>7. PresentOK
  <2>1. ASSUME NEW s \in told.stored PROVE Placed(s.e.id, s.at) /\ Present(s.e.id, s.at)
    <3>1. /\ OnlyAt(kv, s.e.id, s.at) /\ Kept(kv, s.e.id, s.at) /\ s.at \in Ids
          /\ Untouched(s.e.id)
      BY <1>1, <1>3 DEF DriveInv, StoreOK, CallType, Told, Untouched
    <3> QED
      BY <1>2, <1>3, <3>1 DEF OnlyAt, Kept, Placed, Present, Home
  <2> QED
    BY <1>2, <1>3, <2>1 DEF PresentOK
<1>8. BornOK
  BY <1>2, <1>5, ListedIs DEF BornOK
<1> QED
  BY <1>1, <1>2, <1>4, <1>6, <1>7, <1>8 DEF OnceInv

LEMMA NextOnce ==
  ASSUME OnceInv, [Next]_vars
  PROVE  OnceInv'
<1>1. DriveInv /\ DriveInv'
  BY NextDrive DEF OnceInv
<1>2. SUFFICES ASSUME crashes' = 0
               PROVE  Timed' /\ (\A c \in Clients : MoverOK(c)') /\ OnceOK' /\ PresentOK' /\ BornOK'
  BY <1>1 DEF OnceInv
<1>3. CASE UNCHANGED vars
  <2>1. UNCHANGED <<kv, clock, pc, loc, path, view, again, stale, crashes, ops, told>>
    BY <1>3 DEF vars
  <2>2. Timed /\ (\A c \in Clients : MoverOK(c)) /\ OnceOK /\ PresentOK /\ BornOK
    BY <1>2, <2>1 DEF OnceInv
  <2>3. Timed' /\ \A c \in Clients : MoverOK(c)'
    BY <2>1, <2>2 DEF Timed, MoverOK, Active, Carries, Doing, Here, Lists
  <2>4. OnceOK'
    BY <2>1, <2>2 DEF OnceOK, Alone, Fresh, Taken, Once, At, Nowhere, ListedAt, Single, Active, Carries,
                      Draws, Making, Doing, SignedIn
  <2>5. PresentOK'
    BY <2>1, <2>2 DEF PresentOK, Placed, Present, Home, ListedAt, Single, Active, Carries,
                      Stores, Making, Doing, Here
  <2>6. BornOK'
    BY <2>1, <2>2 DEF BornOK, Born, ListedAt, SignedIn, Active, Stores, Making, Doing
  <2> QED
    BY <2>3, <2>4, <2>5, <2>6
<1>4. ~Crash
  BY <1>1, <1>2 DEF Crash, DriveInv, CallType
<1>5. ASSUME NEW c \in Clients, Ask(c) \/ StalePage(c) \/ BrokenPipe(c) \/ Step(c)
      PROVE  Timed' /\ (\A a \in Clients : MoverOK(a)') /\ OnceOK' /\ PresentOK' /\ BornOK'
  <2>1. crashes = 0
    <3>1. CASE Step(c)
      <4>1. (\E place : Answered(c, place)) \/ SendAgain(c) \/ Reconnect(c)
        BY <3>1 DEF Step, RegGet, RegCput, SignGet, OpenGet, NewGet, PutName, PutBody, Add, AddGet,
                    RemoveGet, RemoveCput, DelName, DelBody, MoveDest, RecoverGet,
                    RenameGet, RenameCput, RenameName, Reload, Page
      <4> QED
        BY <1>2, <4>1 DEF Answered, SendAgain, Reconnect
    <3>2. CASE Ask(c)
      BY <1>2, <3>2, AskBegins DEF Begin
    <3>3. CASE StalePage(c) \/ BrokenPipe(c)
      BY <1>2, <3>3 DEF StalePage, BrokenPipe, End
    <3> QED
      BY <1>5, <3>1, <3>2, <3>3
  <2>2. Timed /\ (\A a \in Clients : MoverOK(a)) /\ OnceOK /\ PresentOK /\ BornOK
    BY <2>1 DEF OnceInv
  <2>3. CASE Goes(c)
    <3>1. /\ Timed' /\ OnceOK' /\ PresentOK' /\ BornOK'
      BY <1>1, <1>5, <2>2, <2>3, TimeGoes, GoesOnce, GoesPresentOK, GoesBorn
    <3>2. Beside(c) /\ MoverOK(c)' /\ told'.movers = told.movers
      BY <2>3 DEF Goes, MoverGoes, HistoryGoes
    <3>3. \A a \in Clients \ {c} : MoverOK(a)'
      BY <2>2, <3>2, OthersMove
    <3> QED
      BY <3>1, <3>2, <3>3
  <2>4. CASE MoveFile(c)
    <3>1. PICK e, d : MovesNow(c, e, d)
      BY <1>1, <2>4, MoveIs
    <3>2. Timed' /\ MoverOK(c)' /\ OnceOK' /\ PresentOK' /\ BornOK'
      BY <1>1, <2>2, <3>1, MovesTime, MovesOnce, MovesPresent, MovesBorn
    <3>3. Beside(c) /\ told.movers \subseteq told'.movers
      BY <3>1 DEF MovesNow
    <3>4. \A a \in Clients \ {c} : MoverOK(a)'
      BY <2>2, <3>3, OthersMove
    <3> QED
      BY <3>2, <3>4
  <2> QED
    BY <1>1, <1>5, <2>1, <2>2, <2>3, <2>4, AsksGo, StepGoes, EndGoes
<1> QED
  BY <1>3, <1>4, <1>5 DEF Next

LEMMA OneMover ==
  ASSUME OnceInv, crashes = 0, NEW id, Cardinality(Movers(id)) <= 1
  PROVE  Single(id)
<1> SUFFICES ASSUME NEW m \in told.movers, NEW n \in told.movers, m[2] = id, n[2] = id, m # n
             PROVE  FALSE
  BY DEF Single
<1>1. IsFiniteSet(told.movers)
  BY DEF OnceInv, Timed
<1>2. Movers(id) \subseteq told.movers /\ {m, n} \subseteq Movers(id)
  BY DEF Movers
<1>3. IsFiniteSet(Movers(id)) /\ Cardinality(Movers(id)) \in Nat
  BY <1>1, <1>2, FS_Subset, FS_CardinalityType
<1>4. Cardinality({m, n}) <= Cardinality(Movers(id))
  BY <1>2, <1>3, FS_Subset
<1>5. Cardinality({m, n}) = 2
  <2>1. IsFiniteSet({m}) /\ Cardinality({m}) = 1
    BY FS_Singleton
  <2>2. {m, n} = {m} \cup {n} /\ n \notin {m}
    OBVIOUS
  <2> QED
    BY <2>1, <2>2, FS_AddElement
<1> QED
  BY <1>3, <1>4, <1>5

LEMMA ListingsAre ==
  ASSUME NEW id
  PROVE  /\ \A p \in Listings(id) : /\ p = <<p[1], p[2]>> /\ p[1] \in Ids /\ p[2] \in DOMAIN kv.list[p[1]]
                                    /\ At(kv, id, p[1], p[2])
         /\ Listings(id) # {} <=> \E d \in Ids : ListedAt(kv, id, d)
<1>1. ASSUME NEW p \in Listings(id)
      PROVE  /\ p = <<p[1], p[2]>> /\ p[1] \in Ids /\ p[2] \in DOMAIN kv.list[p[1]]
             /\ At(kv, id, p[1], p[2])
  <2>1. PICK d \in Ids : /\ kv.list[d] # None
                         /\ p \in {d} \X {i \in DOMAIN kv.list[d] : kv.list[d][i].id = id}
    BY DEF Listings
  <2>2. p = <<p[1], p[2]>> /\ p[1] = d /\ p[2] \in DOMAIN kv.list[d] /\ kv.list[d][p[2]].id = id
    BY <2>1
  <2> QED
    BY <2>1, <2>2 DEF At
<1>2. ASSUME NEW d \in Ids, ListedAt(kv, id, d) PROVE Listings(id) # {}
  <2>1. PICK i \in DOMAIN kv.list[d] : kv.list[d][i].id = id
    BY <1>2 DEF ListedAt
  <2>2. <<d, i>> \in Listings(id)
    BY <1>2, <2>1 DEF ListedAt, Listings
  <2> QED
    BY <2>2
<1> QED
  BY <1>1, <1>2, ListedIs

-----------------------------------------------------------------------------
(* The theorems about entries that clients move *)

\* The invariant of the entries that clients move: who holds an entry, where it
\* may be listed, and who is still to store its content.
THEOREM DriveOnceInvariance == Spec => []OnceInv
<1>1. OnceInv /\ [Next]_vars => OnceInv'
  BY NextOnce
<1> QED
  BY InitOnce, <1>1, PTL DEF Spec

\* As long as the primary lives, an entry that at most one client moves is listed
\* at most once; it is not lost unless its folder was deleted or a name stood in
\* its way (move_file and recover_old_path); and what is listed has its content,
\* unless somebody has deleted it.  This holds for any number of front ends that
\* upload, delete, rename and move in the loops of GET and CPUT of Storage.cc.
THEOREM DriveListedOnce == Spec => []ListedOnce
<1>1. ASSUME OnceInv PROVE ListedOnce
  <2> SUFFICES ASSUME crashes = 0
               PROVE  /\ \A id \in Ids : Cardinality(Movers(id)) <= 1 => Cardinality(Listings(id)) <= 1
                      /\ \A s \in told.stored :
                           s.e.id \notin told.deleted /\ Cardinality(Movers(s.e.id)) <= 1 =>
                             \/ Listings(s.e.id) # {} \/ Busy(s.e.id) \/ s.e.id \in told.dropped
                             \/ s.at \in told.deleted \/ \E m \in Movers(s.e.id) : m[3] \in told.deleted
                      /\ \A id \in 1 .. clock :
                           Listings(id) # {} /\ kv.list[id] = None /\ kv.body[id] = None =>
                             Busy(id) \/ id \in told.deleted
    BY DEF ListedOnce
  <2>1. DriveInv /\ OnceOK /\ PresentOK /\ BornOK
    BY <1>1 DEF OnceInv
  <2>2. ASSUME NEW id \in Ids, Cardinality(Movers(id)) <= 1 PROVE Cardinality(Listings(id)) <= 1
    <3>1. Once(kv, id)
      BY <1>1, <2>1, <2>2, OneMover DEF OnceOK
    <3>2. \A p, q \in Listings(id) : p = q
      BY <3>1, ListingsAre DEF Once
    <3>3. CASE Listings(id) = {}
      BY <3>3, FS_EmptySet
    <3>4. CASE Listings(id) # {}
      <4>1. PICK p : Listings(id) = {p}
        BY <3>2, <3>4
      <4> QED
        BY <4>1, FS_Singleton
    <3> QED
      BY <3>3, <3>4
  <2>3. \A c \in Clients : Carries(c) \/ Stores(c) => Waiting(c)
    BY DEF Carries, Stores, Writing, Waiting
  <2>4. ASSUME NEW s \in told.stored, s.e.id \notin told.deleted, Cardinality(Movers(s.e.id)) <= 1
        PROVE  \/ Listings(s.e.id) # {} \/ Busy(s.e.id) \/ s.e.id \in told.dropped
               \/ s.at \in told.deleted \/ \E m \in Movers(s.e.id) : m[3] \in told.deleted
    <3>1. Single(s.e.id) /\ Present(s.e.id, s.at)
      BY <1>1, <2>1, <2>4, OneMover DEF PresentOK
    <3>2. CASE \E d \in told.deleted : Home(s.e.id, s.at, d)
      BY <3>2 DEF Home, Movers
    <3>3. CASE \/ \E d \in Ids : ListedAt(kv, s.e.id, d)
               \/ \E c \in Clients : Carries(c) /\ loc[c].e.id = s.e.id
               \/ s.e.id \in told.dropped
      BY <2>3, <3>3, ListingsAre DEF Busy
    <3> QED
      BY <2>4, <3>1, <3>2, <3>3 DEF Present
  <2>5. ASSUME NEW id \in 1 .. clock, Listings(id) # {}, kv.list[id] = None, kv.body[id] = None
        PROVE  Busy(id) \/ id \in told.deleted
    <3>1. id \in Ids
      BY <2>1, Knows
    <3>2. Born(id)
      BY <2>1, <2>5, <3>1, ListingsAre DEF BornOK
    <3> QED
      BY <2>3, <2>5, <3>2 DEF Born, Busy
  <2> QED
    BY <2>2, <2>4, <2>5
<1> QED
  BY DriveOnceInvariance, <1>1, PTL
=============================================================================
