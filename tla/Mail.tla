-------------------------------- MODULE Mail ---------------------------------
(***************************************************************************)
(* The SMTP server (webmail/server.cc), the relay of mail to other hosts   *)
(* (deliver.cc) and the mail pages of the front end (client.cc, called     *)
(* from frontendServer/response.cc), for the mail a user sends to itself   *)
(* and to a user of another host.                                          *)
(*                                                                         *)
(* A mailbox is a list of hashes, changed by GET and CPUT in a loop, and   *)
(* one body per hash.  The hash is computed from the text alone, so the    *)
(* text stands for it.  A mail has a number, which is the body stored for  *)
(* it.  The list always ends with the mark "list": <<>> is a list with     *)
(* nothing but the mark.  The store is an atomic map, as in module Drive.  *)
(* When the primary dies the master names its successor at once: how long  *)
(* that takes, and when it never happens, is the subject of Cluster.       *)
(***************************************************************************)
EXTENDS Naturals, Sequences, SequencesExt, FiniteSets

CONSTANTS
  Sessions,    \* connections to the SMTP server, a thread each
  Pages,       \* mail pages being served, each by a front end of its own
  Texts,       \* texts of mails
  Untitled,    \* those shorter than 8 characters and without "Subject: "
  None,        \* "-ERR NULL"; no text yet
  Lists,       \* lists that the mailboxes may have at first
  MaxMails,    \* bound: mails that are sent
  MaxRcpts,    \* bound: recipients that are named, over all mails
  MaxCrashes,  \* bound: deaths of the primary of the user's row
  MaxEvents    \* bound: mails, requests for mail pages and deaths

Boxes == {"inbox", "outbox"}

\* "-ERR NULL" is neither a text, nor a list, nor a body.
ASSUME MailAssumption ==
  /\ None \notin Texts /\ None \notin Seq(Texts) /\ None \notin Nat
  /\ Lists \subseteq [Boxes -> Seq(Texts) \cup {None}] /\ Untitled \subseteq Texts
  /\ MaxMails \in Nat

Rcpts == {"local", "remote"}

VARIABLES
  list, body,         \* box -> list of hashes or None; box -> hash -> mail or None
  mqueue,             \* the file mqueue: mails for other hosts
  up,                 \* the SMTP server has not died
  state, rcpts, data, \* per session: state, rcpts and data of worker_thread
  pc, loc,            \* per session: where handle_data is; its locals
  job,                \* per page: what it is doing
  shown,              \* <<box, hash>> that a page has shown
  mails, named, pages, crashes,
  cut, cutPages,      \* sessions and pages that talk to a primary that is dead
  told                \* history

sessionVars == <<state, rcpts, data, pc, loc>>
pageVars    == <<job, shown, pages, cutPages>>
vars == <<list, body, mqueue, up, sessionVars, pageVars, mails, named, crashes, cut, told>>

\* mail: its number; box: the mailbox being changed; old: the list read last;
\* todo: recipients left; msgs: what mail_relay has read and not yet dealt with;
\* left: what it will write back.
NoLoc == [mail |-> 0, box |-> "outbox", old |-> <<>>, todo |-> {}, msgs |-> <<>>, left |-> <<>>]
NoJob == [do |-> "idle", box |-> "inbox", hash |-> None, old |-> <<>>]

OldMails(l) == IF l = None THEN {} ELSE Range(l)

\* A mailbox is new or has mails, all sent to itself or to a user elsewhere.
Init ==
  /\ list \in Lists
  /\ body = [b \in Boxes |-> [h \in Texts |-> IF h \in OldMails(list[b]) THEN 0 ELSE None]]
  /\ shown = {x \in Boxes \X Texts : x[2] \in OldMails(list[x[1]])}
  /\ mqueue = <<>>
  /\ up = TRUE
  /\ state = [s \in Sessions |-> 0]
  /\ rcpts = [s \in Sessions |-> {}]
  /\ data = [s \in Sessions |-> None]
  /\ pc = [s \in Sessions |-> "ready"]
  /\ loc = [s \in Sessions |-> NoLoc]
  /\ job = [p \in Pages |-> NoJob]
  /\ mails = 0 /\ named = 0 /\ pages = 0 /\ crashes = 0
  /\ cut = {} /\ cutPages = {}
  /\ told = [given |-> [s \in Sessions |-> {}], acked |-> {}, wiped |-> {}, deleted |-> {},
             sent |-> <<>>, refused |-> <<>>, unfinished |-> {}, overlap |-> FALSE]

-----------------------------------------------------------------------------
(* worker_thread: the commands of a session *)

storeVars == <<list, body, mqueue, crashes, cut>>

MoreEvents == mails + pages + crashes < MaxEvents

Ready(s) == up /\ pc[s] = "ready" /\ state[s] # 6

\* Any text inside DATA but the final dot, commands included, is data.
Command(s) == Ready(s) /\ state[s] # 4

Helo(s) ==
  /\ Command(s) /\ state[s] <= 1
  /\ state' = [state EXCEPT ![s] = 1]
  /\ UNCHANGED <<storeVars, up, rcpts, data, pc, loc, pageVars, mails, named, told>>

\* After DATA the state is 5: a next mail takes a RSET first.
MailFrom(s) ==
  /\ Command(s) /\ state[s] = 1 /\ mails < MaxMails /\ MoreEvents
  /\ state' = [state EXCEPT ![s] = 2]
  /\ mails' = mails + 1
  /\ loc' = [loc EXCEPT ![s].mail = mails + 1]
  /\ told' = [told EXCEPT !.given[s] = {}]
  /\ UNCHANGED <<storeVars, up, rcpts, data, pc, pageVars, named>>

RcptTo(s) ==
  /\ Command(s) /\ state[s] \in {2, 3} /\ named < MaxRcpts
  /\ named' = named + 1
  /\ state' = [state EXCEPT ![s] = 3]
  /\ \E r \in Rcpts : /\ rcpts' = [rcpts EXCEPT ![s] = @ \cup {r}]
                      /\ told' = [told EXCEPT !.given[s] = @ \cup {r}]
  /\ UNCHANGED <<storeVars, up, data, pc, loc, pageVars, mails>>

DataStart(s) ==
  /\ Command(s) /\ state[s] = 3
  /\ state' = [state EXCEPT ![s] = 4]
  /\ UNCHANGED <<storeVars, up, rcpts, data, pc, loc, pageVars, mails, named, told>>

\* The lines of the mail: what counts of them is the text they add up to.
DataLine(s) ==
  /\ Ready(s) /\ state[s] = 4 /\ data[s] = None
  /\ \E h \in Texts : data' = [data EXCEPT ![s] = h]
  /\ UNCHANGED <<storeVars, up, state, rcpts, pc, loc, pageVars, mails, named, told>>

\* The dot.  The title of a mail without a subject is data.substr(8), which
\* throws if there is less than that.
DataEnd(s) ==
  /\ Ready(s) /\ state[s] = 4
  /\ state' = [state EXCEPT ![s] = 5]
  /\ IF data[s] \in Untitled \cup {None}
       THEN up' = FALSE /\ UNCHANGED <<pc, loc>>
       ELSE /\ pc' = [pc EXCEPT ![s] = "listGet"]
            /\ loc' = [loc EXCEPT ![s].todo = rcpts[s]]
            /\ UNCHANGED up
  /\ UNCHANGED <<storeVars, rcpts, data, pageVars, mails, named, told>>

Rset(s) ==
  /\ Command(s) /\ state[s] # 0
  /\ state' = [state EXCEPT ![s] = 1]
  /\ data' = [data EXCEPT ![s] = None]
  /\ rcpts' = [rcpts EXCEPT ![s] = {}]
  /\ UNCHANGED <<storeVars, up, pc, loc, pageVars, mails, named, told>>

Quit(s) ==
  /\ Command(s)
  /\ state' = [state EXCEPT ![s] = 6]
  /\ UNCHANGED <<storeVars, up, rcpts, data, pc, loc, pageVars, mails, named, told>>

-----------------------------------------------------------------------------
(* handle_data: the outbox of the sender, then each recipient *)

\* Session s takes the step of handle_data from place a; what it talks to lives.
From(s, a) ==
  /\ up /\ pc[s] = a /\ s \notin cut
  /\ UNCHANGED <<up, state, pageVars, mails, named, crashes, cut>>
To(s, b) == pc' = [pc EXCEPT ![s] = b]

Without(l, h) ==
  LET kept[i \in 0 .. Len(l)] ==
        IF i = 0 THEN <<>> ELSE IF l[i] = h THEN kept[i-1] ELSE Append(kept[i-1], l[i])
  IN  kept[Len(l)]

\* MUTANT: a list with nothing but the mark is made anew.
ListGet_MarkIsNone(s) ==
  /\ From(s, "listGet")
  /\ LET l == list[loc[s].box] IN
       IF l \in {None, <<>>} THEN To(s, "listInit") /\ UNCHANGED loc
                            ELSE To(s, "listCput") /\ loc' = [loc EXCEPT ![s].old = l]
  /\ UNCHANGED <<list, body, mqueue, rcpts, data, told>>

ListGet(s) ==
  /\ From(s, "listGet")
  /\ LET l == list[loc[s].box] IN
       IF l = None THEN To(s, "listInit") /\ UNCHANGED loc
                   ELSE To(s, "listCput") /\ loc' = [loc EXCEPT ![s].old = l]
  /\ UNCHANGED <<list, body, mqueue, rcpts, data, told>>

\* PUT "list", whatever has been put there since the GET.
ListInit(s) ==
  /\ From(s, "listInit")
  /\ LET b == loc[s].box IN
       /\ list' = [list EXCEPT ![b] = <<>>]
       /\ told' = [told EXCEPT !.wiped = @ \cup
                     (IF list[b] = None THEN {} ELSE {<<b, h>> : h \in Range(list[b])})]
  /\ To(s, "listGet")
  /\ UNCHANGED <<body, mqueue, rcpts, data, loc>>

\* MUTANT: the new list is put, whatever is there.
ListCput_Put(s) ==
  /\ From(s, "listCput")
  /\ LET b == loc[s].box  h == data[s] IN
       list' = [list EXCEPT ![b] = <<h>> \o Without(loc[s].old, h)]
  /\ To(s, "bodyPut")
  /\ UNCHANGED <<body, mqueue, rcpts, data, loc, told>>

ListCput(s) ==
  /\ From(s, "listCput")
  /\ LET b == loc[s].box  h == data[s] IN
       IF list[b] = loc[s].old
         THEN To(s, "bodyPut") /\ list' = [list EXCEPT ![b] = <<h>> \o Without(@, h)]
         ELSE To(s, "listGet") /\ UNCHANGED list
  /\ UNCHANGED <<body, mqueue, rcpts, data, loc, told>>

BodyPut(s) ==
  /\ From(s, "bodyPut")
  /\ body' = [body EXCEPT ![loc[s].box][data[s]] = loc[s].mail]
  /\ To(s, IF loc[s].box = "outbox" THEN "rcpt" ELSE "relRead")
  /\ UNCHANGED <<list, mqueue, rcpts, data, loc, told>>

\* The next recipient, or the end: clear, and 250 OK.
NextRcpt(s) ==
  /\ From(s, "rcpt")
  /\ \/ \E r \in loc[s].todo :
          /\ loc' = [loc EXCEPT ![s].todo = @ \ {r}, ![s].box = "inbox"]
          /\ To(s, IF r = "local" THEN "listGet" ELSE "queue")
          /\ UNCHANGED <<rcpts, data, told>>
     \/ /\ loc[s].todo = {}
        /\ told' = [told EXCEPT !.acked = @ \cup {[mail |-> loc[s].mail, hash |-> data[s], to |-> told.given[s]]}]
        /\ loc' = [loc EXCEPT ![s] = NoLoc]
        /\ rcpts' = [rcpts EXCEPT ![s] = {}]
        /\ data' = [data EXCEPT ![s] = None]
        /\ To(s, "ready")
  /\ UNCHANGED <<list, body, mqueue>>

-----------------------------------------------------------------------------
(* The queue for other hosts: handle_data appends under the mutex, mail_relay *)
(* reads the file and writes it again without it, after every recipient.      *)

Relaying(s) == pc[s] \in {"relSend", "relTrunc", "relWrite"}
Overlap(s) == told.overlap \/ \E t \in Sessions \ {s} : Relaying(t)

QueueMail(s) ==
  /\ From(s, "queue")
  /\ mqueue' = Append(mqueue, loc[s].mail)
  /\ told' = [told EXCEPT !.overlap = Overlap(s)]
  /\ To(s, "relRead")
  /\ UNCHANGED <<list, body, rcpts, data, loc>>

ReadMqueue(s) ==
  /\ From(s, "relRead")
  /\ loc' = [loc EXCEPT ![s].msgs = mqueue, ![s].left = <<>>]
  /\ told' = [told EXCEPT !.overlap = Overlap(s)]
  /\ To(s, IF mqueue = <<>> THEN "relTrunc" ELSE "relSend")
  /\ UNCHANGED <<list, body, mqueue, rcpts, data>>

\* MUTANT: a mail that could not be sent is dropped.
HandleForward_Drops(s) ==
  /\ From(s, "relSend")
  /\ LET m == Head(loc[s].msgs)  rest == Tail(loc[s].msgs) IN
       /\ \/ told' = [told EXCEPT !.sent = Append(@, m)]
          \/ UNCHANGED told
       /\ loc' = [loc EXCEPT ![s].msgs = rest]
       /\ To(s, IF rest = <<>> THEN "relTrunc" ELSE "relSend")
  /\ UNCHANGED <<list, body, mqueue, rcpts, data>>

\* handle_forward: the other host takes the mail, or refuses it, which nobody
\* looks at, or cannot be reached.
HandleForward(s) ==
  /\ From(s, "relSend")
  /\ LET m == Head(loc[s].msgs)  rest == Tail(loc[s].msgs) IN
       /\ \/ /\ \/ told' = [told EXCEPT !.sent = Append(@, m)]
                \/ told' = [told EXCEPT !.refused = Append(@, m)]
             /\ loc' = [loc EXCEPT ![s].msgs = rest]
          \/ /\ loc' = [loc EXCEPT ![s].msgs = rest, ![s].left = Append(@, m)]
             /\ UNCHANGED told
       /\ To(s, IF rest = <<>> THEN "relTrunc" ELSE "relSend")
  /\ UNCHANGED <<list, body, mqueue, rcpts, data>>

\* handle_comm: the other host closes the connection, before or after it has
\* taken the mail, and the relay reads at end-of-file for ever.  The file still
\* has what it has dealt with, and the next relay deals with it again.
HangRelay(s) ==
  /\ From(s, "relSend")
  /\ \E took \in {<<>>, <<Head(loc[s].msgs)>>} :
       told' = [told EXCEPT !.sent = @ \o took,
                            !.unfinished = @ \cup (Range(mqueue) \ (Range(loc[s].left) \cup Range(Tail(loc[s].msgs))))]
  /\ To(s, "relStuck")
  /\ UNCHANGED <<list, body, mqueue, rcpts, data, loc>>

\* update_mqueue: opening truncates the file, closing writes at its start.
TruncMqueue(s) ==
  /\ From(s, "relTrunc")
  /\ mqueue' = <<>>
  /\ To(s, "relWrite")
  /\ UNCHANGED <<list, body, rcpts, data, loc, told>>

WriteMqueue(s) ==
  /\ From(s, "relWrite")
  /\ mqueue' = loc[s].left \o SubSeq(mqueue, Len(loc[s].left) + 1, Len(mqueue))
  /\ loc' = [loc EXCEPT ![s].left = <<>>]
  /\ To(s, "rcpt")
  /\ UNCHANGED <<list, body, rcpts, data, told>>

-----------------------------------------------------------------------------
(* The primary dies.  The address was asked for once per mailbox.  A session  *)
(* or page that waits for an answer reads 0 bytes for ever (do_read); one     *)
(* that sends its next request writes to a socket that is not connected,      *)
(* which ends the process, by SIGPIPE or exit(5).  (A request whose answer is *)
(* lost is as good as one not yet sent: the session or page is at the next    *)
(* place and gets no further.)                                                *)

PrimaryDies ==
  /\ crashes < MaxCrashes /\ MoreEvents
  /\ crashes' = crashes + 1
  /\ cut' = {s \in Sessions : pc[s] \in {"listGet", "listInit", "listCput", "bodyPut"}}
  /\ cutPages' = {p \in Pages : \/ job[p].do \in {"showList", "delGet", "delList", "delCput", "delBody"}
                               \/ (job[p].do = "showBody" /\ job[p].old # <<>>)}
  /\ UNCHANGED <<list, body, mqueue, up, sessionVars, job, shown, pages, mails, named, told>>

Hang(s) ==
  /\ up /\ s \in cut
  /\ pc' = [pc EXCEPT ![s] = "stuck"]
  /\ cut' = cut \ {s}
  /\ UNCHANGED <<list, body, mqueue, up, state, rcpts, data, loc, pageVars, mails, named, crashes, told>>

\* So does a relay that writes to a host that has closed the connection.
SigPipe(s) ==
  /\ up /\ (s \in cut \/ pc[s] = "relSend")
  /\ up' = FALSE
  /\ UNCHANGED <<storeVars, sessionVars, pageVars, mails, named, told>>

CutOff(p, do) ==
  /\ p \in cutPages
  /\ cutPages' = cutPages \ {p}
  /\ job' = [job EXCEPT ![p].do = do]
  /\ UNCHANGED <<list, body, mqueue, up, sessionVars, shown, pages, mails, named, crashes, cut, told>>

HangPage(p) == CutOff(p, "stuck")
PipePage(p) == CutOff(p, "dead")

-----------------------------------------------------------------------------
(* Pages *)

otherVars == <<mqueue, up, sessionVars, mails, named, crashes, cut, cutPages>>

AskPage(p, j) ==
  /\ job[p].do = "idle" /\ MoreEvents
  /\ pages' = pages + 1
  /\ job' = [job EXCEPT ![p] = j]
  /\ UNCHANGED <<otherVars, list, body, shown>>

\* The mail page: the inbox, then the outbox.
ShowMail(p) == AskPage(p, [NoJob EXCEPT !.do = "showList"]) /\ UNCHANGED told

\* The hash is in the link, which stays on the page.
DeleteMail(p) ==
  \E x \in shown :
    /\ AskPage(p, [NoJob EXCEPT !.do = "delGet", !.box = x[1], !.hash = x[2]])
    /\ told' = [told EXCEPT !.deleted = @ \cup {x}]

\* Page p is at place a; what it talks to lives.
PageAt(p, a) == job[p].do = a /\ p \notin cutPages

Job(p, do, l) == job' = [job EXCEPT ![p].do = do, ![p].old = l]

\* recvfrom_backend
ShowList(p) ==
  /\ PageAt(p, "showList")
  /\ Job(p, "showBody", IF list[job[p].box] = None THEN <<>> ELSE list[job[p].box])
  /\ UNCHANGED <<otherVars, list, body, shown, pages, told>>

\* extract_email.  The text of a body that is missing is looked for in the
\* error message, and substr throws.
ShowBody(p) ==
  /\ PageAt(p, "showBody")
  /\ LET b == job[p].box  l == job[p].old IN
       \/ /\ l # <<>> /\ body[b][Head(l)] # None
          /\ shown' = shown \cup {<<b, Head(l)>>}
          /\ Job(p, "showBody", Tail(l))
       \/ /\ l # <<>> /\ body[b][Head(l)] = None
          /\ Job(p, "dead", l) /\ UNCHANGED shown
       \/ /\ l = <<>>
          /\ job' = [job EXCEPT ![p] = IF b = "inbox" THEN [NoJob EXCEPT !.do = "showList", !.box = "outbox"]
                                                      ELSE NoJob]
          /\ UNCHANGED shown
  /\ UNCHANGED <<otherVars, list, body, pages, told>>

\* update_backend.  Without a list the CPUT of "-ERR" for "-ERR" fails, and
\* the loop starts again.
DelGet(p) ==
  /\ PageAt(p, "delGet")
  /\ LET l == list[job[p].box] IN
       l # None /\ Job(p, IF Without(l, job[p].hash) = <<>> THEN "delList" ELSE "delCput", l)
  /\ UNCHANGED <<otherVars, list, body, shown, pages, told>>

\* Nothing but the mark would be left: DELETE, whatever is there by now.
DelList(p) ==
  /\ PageAt(p, "delList")
  /\ LET b == job[p].box IN
       /\ list' = [list EXCEPT ![b] = None]
       /\ told' = [told EXCEPT !.wiped = @ \cup
            (IF list[b] = None THEN {} ELSE {<<b, h>> : h \in Range(list[b]) \ {job[p].hash}})]
  /\ Job(p, "delBody", <<>>)
  /\ UNCHANGED <<otherVars, body, shown, pages>>

DelCput(p) ==
  /\ PageAt(p, "delCput")
  /\ LET b == job[p].box  l == job[p].old IN
       IF list[b] = l
         THEN list' = [list EXCEPT ![b] = Without(l, job[p].hash)] /\ Job(p, "delBody", <<>>)
         ELSE UNCHANGED list /\ Job(p, "delGet", <<>>)
  /\ UNCHANGED <<otherVars, body, shown, pages, told>>

\* MUTANT: all bodies of the mailbox go.
DelBody_Row(p) ==
  /\ PageAt(p, "delBody")
  /\ body' = [body EXCEPT ![job[p].box] = [h \in Texts |-> None]]
  /\ job' = [job EXCEPT ![p] = NoJob]
  /\ UNCHANGED <<otherVars, list, shown, pages, told>>

DelBody(p) ==
  /\ PageAt(p, "delBody")
  /\ body' = [body EXCEPT ![job[p].box][job[p].hash] = None]
  /\ job' = [job EXCEPT ![p] = NoJob]
  /\ UNCHANGED <<otherVars, list, shown, pages, told>>

-----------------------------------------------------------------------------
Converse(s) == \/ Helo(s) \/ MailFrom(s) \/ RcptTo(s) \/ DataStart(s) \/ DataLine(s)
               \/ DataEnd(s) \/ Rset(s) \/ Quit(s)

Deliver(s) == \/ ListGet(s) \/ ListInit(s) \/ ListCput(s) \/ BodyPut(s) \/ NextRcpt(s)
              \/ QueueMail(s) \/ ReadMqueue(s) \/ HandleForward(s) \/ HangRelay(s)
              \/ TruncMqueue(s) \/ WriteMqueue(s) \/ Hang(s) \/ SigPipe(s)

Serve(p) == \/ ShowList(p) \/ ShowBody(p)
            \/ DelGet(p) \/ DelList(p) \/ DelCput(p) \/ DelBody(p)
            \/ HangPage(p) \/ PipePage(p)

Next == \/ \E s \in Sessions : Converse(s) \/ Deliver(s)
        \/ \E p \in Pages : ShowMail(p) \/ DeleteMail(p) \/ Serve(p)
        \/ PrimaryDies

Spec == Init /\ [][Next]_vars

\* Threads run on; a client may stop talking, and a user may do nothing.
FairSpec == /\ Spec
            /\ \A s \in Sessions : WF_vars(Deliver(s))
            /\ \A p \in Pages : WF_vars(Serve(p))

-----------------------------------------------------------------------------
(* Properties *)

KvPlaces == {"listGet", "listInit", "listCput", "bodyPut"}
Places == KvPlaces \cup {"ready", "rcpt", "queue", "relRead", "relSend", "relTrunc", "relWrite", "stuck", "relStuck"}

\* The type of every variable; only a session or page that talks to the store
\* can have been cut off from it.
TypeOK ==
  /\ \A b \in Boxes : list[b] = None \/ Range(list[b]) \subseteq Texts
  /\ body \in [Boxes -> [Texts -> 0 .. MaxMails \cup {None}]]
  /\ Range(mqueue) \subseteq 1 .. MaxMails
  /\ state \in [Sessions -> 0 .. 6]
  /\ rcpts \in [Sessions -> SUBSET Rcpts]
  /\ data \in [Sessions -> Texts \cup {None}]
  /\ pc \in [Sessions -> Places]
  /\ cut \subseteq {s \in Sessions : pc[s] \in KvPlaces}
  /\ cutPages \subseteq {p \in Pages : job[p].do \notin {"idle", "stuck", "dead"}}
  /\ shown \subseteq Boxes \X Texts

BoxesOf(m) == {"outbox"} \cup (IF "local" \in m.to THEN {"inbox"} ELSE {})

\* A mail that was answered 250 OK is in the outbox of its sender and in the
\* inbox of its recipient, list and body, until somebody deletes it.  However
\* deliveries and deletions interleave, an entry can be lost from a list in two
\* places only: the PUT that makes a list and the DELETE of an empty one, which
\* do not look at what is there.
DeliveredKept ==
  \A m \in told.acked : \A b \in BoxesOf(m) :
    <<b, m.hash>> \notin told.wiped \cup told.deleted =>
      list[b] # None /\ m.hash \in Range(list[b]) /\ body[b][m.hash] # None

Copies(q, n) == Cardinality({i \in DOMAIN q : q[i] = n})

\* As long as no mail is queued and no relay starts while another relay runs,
\* a mail that was answered 250 OK is in the queue for other hosts, or another
\* host has taken it, or it has refused it, which nobody is told, if such a
\* recipient was named since its own MAIL FROM; and only one of these, once the
\* relay is done, unless a relay was left by its host after it had dealt with
\* it: the next one deals with it again.  Otherwise it is none of these: no
\* recipient of a mail that was given up by RSET gets the next one.
RelayedOnce ==
  ~told.overlap /\ (\A s \in Sessions : ~Relaying(s)) =>
    \A m \in told.acked :
      LET n == Copies(mqueue, m.mail) + Copies(told.sent, m.mail) + Copies(told.refused, m.mail)
      IN  IF "remote" \in m.to THEN n >= 1 /\ (m.mail \notin told.unfinished => n = 1)
                               ELSE n = 0

\* A page ends the front end only if it lists a mail between the two steps of
\* its delivery, or one that was deleted while it was listed or was delivered
\* again, or if its primary died while it talked to it.
PageEndsOnlyIf ==
  [][\A p \in Pages : job'[p].do = "dead" /\ job[p].do # "dead" =>
       LET b == job[p].box  h == Head(job[p].old) IN
         \/ p \in cutPages
         \/ <<b, h>> \in told.deleted
         \/ \E s \in Sessions : loc[s].box = b /\ data[s] = h /\ pc[s] \in {"bodyPut", "stuck"}
         \/ ~up]_vars

\* The GET and CPUT loops over a mail list end although others change the list:
\* the dot that ends a mail is answered, unless the primary died meanwhile or
\* the host a mail is for closed its connection, and a deletion ends, unless the
\* primary died meanwhile, or the list is gone, when it loops for ever.
LoopsEnd ==
  /\ \A s \in Sessions : pc[s] # "ready" ~> (pc[s] \in {"ready", "stuck", "relStuck"} \/ ~up)
  /\ \A p \in Pages : job[p].do = "delGet" ~>
       (job[p].do \in {"delBody", "idle", "stuck", "dead"} \/ list[job[p].box] = None)
=============================================================================
