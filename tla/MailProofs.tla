----------------------------- MODULE MailProofs -----------------------------
(***************************************************************************)
(* Proofs about the mail service (module Mail), for any number of sessions *)
(* and pages, mails, texts and deaths of the primary: what an acknowledged *)
(* mail is still found in, that it is queued or sent once if it goes to    *)
(* another host, and what may end a front end that shows a mail page.      *)
(***************************************************************************)
EXTENDS Mail, FiniteSetTheorems, SequenceTheorems, WellFoundedInduction, TLAPS

MailNumbers == 1 .. MaxMails
Locals == [mail : 0 .. MaxMails, box : Boxes, old : Seq(Texts), todo : SUBSET Rcpts,
           msgs : Seq(MailNumbers), left : Seq(MailNumbers)]
Doings == {"idle", "showList", "showBody", "dead", "delGet", "delList", "delCput", "delBody", "stuck"}
Jobs == [do : Doings, box : Boxes, hash : Texts \cup {None}, old : Seq(Texts)]
Told == [given : [Sessions -> SUBSET Rcpts],
         acked : SUBSET [mail : MailNumbers, hash : Texts, to : SUBSET Rcpts],
         wiped : SUBSET (Boxes \X Texts), deleted : SUBSET (Boxes \X Texts),
         sent : Seq(MailNumbers), refused : Seq(MailNumbers), unfinished : SUBSET MailNumbers,
         overlap : BOOLEAN]

(* The type of every variable.                                             *)
MailType ==
  /\ list \in [Boxes -> Seq(Texts) \cup {None}]
  /\ body \in [Boxes -> [Texts -> 0 .. MaxMails \cup {None}]]
  /\ mqueue \in Seq(MailNumbers) /\ up \in BOOLEAN
  /\ state \in [Sessions -> 0 .. 6] /\ rcpts \in [Sessions -> SUBSET Rcpts]
  /\ data \in [Sessions -> Texts \cup {None}] /\ pc \in [Sessions -> Places]
  /\ loc \in [Sessions -> Locals] /\ job \in [Pages -> Jobs]
  /\ shown \subseteq Boxes \X Texts /\ mails \in 0 .. MaxMails
  /\ cut \subseteq {s \in Sessions : pc[s] \in KvPlaces}
  /\ told \in Told

(* A mail that a session has begun and neither given up nor finished.      *)
Active(s) == pc[s] # "ready" \/ state[s] \in 2 .. 4

(* What has been dealt with while the dot is answered: the recipient that  *)
(* is being served is no longer in todo.  A relay has mails left to send   *)
(* or has dealt with all.                                                  *)
At(s, a, l) ==
  /\ l.todo \subseteq rcpts[s]
  /\ a \in KvPlaces => IF l.box = "outbox" THEN l.todo = rcpts[s]
                                           ELSE "local" \in rcpts[s] \ l.todo
  /\ a = "queue" => "remote" \in rcpts[s] \ l.todo /\ l.box = "inbox"
  /\ a \in {"relRead", "relSend", "relTrunc", "relWrite"} => l.box = "inbox"
  /\ a = "relSend" => l.msgs # <<>>
  /\ a \in {"relTrunc", "relWrite"} => l.msgs = <<>>
Serving(s) ==
  state[s] = 5 /\ data[s] # None /\ rcpts[s] = told.given[s] /\ At(s, pc[s], loc[s])

(* Recipients named before the last RSET do not count.                     *)
SessionOK(s) ==
  /\ state[s] \in {0, 1} => rcpts[s] = {}
  /\ state[s] \in 2 .. 4 => rcpts[s] = told.given[s]
  /\ pc[s] = "ready" => loc[s].box = "outbox"
  /\ pc[s] # "ready" => Serving(s)

(* A deletion is about a mail that the user asked to delete.               *)
Deleting == {"delGet", "delList", "delCput", "delBody"}
JobOK(p) == job[p].do \in Deleting => <<job[p].box, job[p].hash>> \in told.deleted

(* Mails have numbers of their own.                                        *)
Numbered ==
  /\ \A s \in Sessions : Active(s) =>
       /\ loc[s].mail \in 1 .. mails
       /\ \A t \in Sessions : Active(t) /\ loc[t].mail = loc[s].mail => t = s
       /\ \A m \in told.acked : m.mail # loc[s].mail
  /\ \A m \in told.acked : m.mail \in 1 .. mails /\ \A n \in told.acked : n.mail = m.mail => n = m

MailInv ==
  /\ MailType /\ Numbered
  /\ \A s \in Sessions : SessionOK(s)
  /\ \A p \in Pages : JobOK(p)

-----------------------------------------------------------------------------
(* Where the mails for mailboxes are *)

Excused(b, h) == <<b, h>> \in told.wiped \cup told.deleted
Listed(b, h) == Excused(b, h) \/ (list[b] # None /\ h \in Range(list[b]))
InBox(b, h) ==
  Excused(b, h) \/ (list[b] # None /\ h \in Range(list[b]) /\ body[b][h] # None)

Lost == {"ready", "stuck"}
DeliveryOK(s) ==
  /\ pc[s] = "bodyPut" => Listed(loc[s].box, data[s])
  /\ pc[s] \notin Lost /\ (pc[s] \in KvPlaces => loc[s].box = "inbox") => InBox("outbox", data[s])
  /\ pc[s] \notin Lost \cup KvPlaces /\ "local" \in rcpts[s] \ loc[s].todo => InBox("inbox", data[s])

KeptInv == DeliveredKept /\ \A s \in Sessions : DeliveryOK(s)

(* A mail in a list has a body, or is to get one, or lost it on purpose.   *)
Between(b, h) == \E s \in Sessions : loc[s].box = b /\ data[s] = h /\ pc[s] \in {"bodyPut", "stuck"}
Known(b, h) == body[b][h] # None \/ <<b, h>> \in told.deleted \/ Between(b, h) \/ ~up

BodyInv ==
  /\ \A b \in Boxes : list[b] # None => \A h \in Range(list[b]) : Known(b, h)
  /\ \A p \in Pages : job[p].do = "showBody" => \A h \in Range(job[p].old) : Known(job[p].box, h)

-----------------------------------------------------------------------------
(* Where the mails for other hosts are *)

(* The mails that are to be sent: those acknowledged, and those of the     *)
(* sessions that have queued theirs.                                       *)
Queued(s) == pc[s] \notin {"ready", "queue"} /\ "remote" \in rcpts[s] \ loc[s].todo
Owed(n) == \/ \E m \in told.acked : m.mail = n /\ "remote" \in m.to
           \/ \E s \in Sessions : loc[s].mail = n /\ Queued(s)

(* What other hosts have taken or refused, going by the history k, and what *)
(* a relay with the locals l has in its hands.                             *)
Gone(k, n) == Copies(k.sent, n) + Copies(k.refused, n)
Held(l, n) == Copies(l.msgs, n) + Copies(l.left, n)

(* A mail that is owed is in one place, or in more if a relay was left by  *)
(* its host before it could write down what it had done.                   *)
Settled(owed, again, c) == IF owed THEN c >= 1 /\ (~again => c = 1) ELSE c = 0
Stands(n, c) == Settled(Owed(n), n \in told.unfinished, c)

(* The session that relays has all that is not yet gone in its hands.      *)
Relayed(n) ==
  /\ \A s \in Sessions : Relaying(s) => Stands(n, Held(loc[s], n) + Gone(told, n))
  /\ (\A s \in Sessions : ~Relaying(s)) => Stands(n, Copies(mqueue, n) + Gone(told, n))

(* The file has a mail once at most, and while mails are sent it has all   *)
(* that the relay has in its hands.                                        *)
Single(n) ==
  /\ Copies(mqueue, n) <= 1 /\ (~Owed(n) => Copies(mqueue, n) = 0)
  /\ \A s \in Sessions : Relaying(s) =>
       Held(loc[s], n) <= 1 /\ (pc[s] = "relSend" => Held(loc[s], n) <= Copies(mqueue, n))

RelayInv == ~told.overlap =>
  /\ \A s, t \in Sessions : Relaying(s) /\ Relaying(t) => s = t
  /\ \A s \in Sessions : pc[s] = "relWrite" => mqueue = <<>>
  /\ \A n \in MailNumbers : Relayed(n) /\ Single(n)

-----------------------------------------------------------------------------
(* Types and roles *)

\* What the type of the locals says of one session.
LEMMA SessionFacts ==
  ASSUME MailInv, NEW s \in Sessions
  PROVE  /\ SessionOK(s) /\ loc[s] \in Locals /\ loc[s].box \in Boxes /\ loc[s].mail \in 0 .. MaxMails
         /\ loc[s].old \in Seq(Texts) /\ loc[s].todo \in SUBSET Rcpts
         /\ loc[s].msgs \in Seq(MailNumbers) /\ loc[s].left \in Seq(MailNumbers)
         /\ state[s] \in 0 .. 6 /\ rcpts[s] \in SUBSET Rcpts /\ data[s] \in Texts \cup {None}
         /\ pc[s] \in Places /\ told.given[s] \in SUBSET Rcpts
BY DEF MailInv, MailType, Locals, Told

LEMMA JobFacts ==
  ASSUME MailInv, NEW p \in Pages
  PROVE  /\ JobOK(p) /\ job[p].do \in Doings /\ job[p].box \in Boxes
         /\ job[p].hash \in Texts \cup {None} /\ job[p].old \in Seq(Texts)
         /\ job[p].do \in Deleting => job[p].hash \in Texts
<1>1. JobOK(p) /\ job[p] \in Jobs /\ told.deleted \subseteq Boxes \X Texts
  BY DEF MailInv, MailType, Told
<1> QED
  BY <1>1 DEF Jobs, JobOK

LEMMA InitMail == Init => MailInv
<1> SUFFICES ASSUME Init PROVE MailInv
  OBVIOUS
<1>1. NoLoc \in Locals /\ NoJob \in Jobs /\ NoJob.do = "idle" /\ NoLoc.box = "outbox"
  BY MailAssumption DEF NoLoc, NoJob, Locals, Jobs, Boxes, Doings
<1>2. /\ list \in [Boxes -> Seq(Texts) \cup {None}]
      /\ body \in [Boxes -> [Texts -> 0 .. MaxMails \cup {None}]]
      /\ shown \subseteq Boxes \X Texts
  <2>1. list \in [Boxes -> Seq(Texts) \cup {None}] /\ 0 \in 0 .. MaxMails
    BY MailAssumption DEF Init
  <2> QED
    BY <2>1 DEF Init
<1>3. told \in Told /\ told.acked = {}
  BY DEF Init, Told
<1>4. MailType
  BY <1>1, <1>2, <1>3, MailAssumption DEF Init, MailType, Places
<1>5. \A s \in Sessions : SessionOK(s) /\ ~Active(s)
  BY <1>1 DEF Init, SessionOK, Active
<1>6. \A p \in Pages : JobOK(p)
  BY <1>1 DEF Init, JobOK, Deleting
<1> QED
  BY <1>3, <1>4, <1>5, <1>6 DEF MailInv, Numbered

\* A session gets other locals.
LEMMA NewLocals ==
  ASSUME MailInv, NEW s \in Sessions, NEW l \in Locals, loc' = [loc EXCEPT ![s] = l]
  PROVE  /\ loc' \in [Sessions -> Locals] /\ loc'[s] = l
         /\ \A t \in Sessions \ {s} : loc'[t] = loc[t]
BY DEF MailInv, MailType

\* A session goes to another place.
LEMMA NewPlace ==
  ASSUME MailInv, NEW s \in Sessions, NEW a \in Places, pc' = [pc EXCEPT ![s] = a]
  PROVE  /\ pc' \in [Sessions -> Places] /\ pc'[s] = a
         /\ \A t \in Sessions \ {s} : pc'[t] = pc[t]
         /\ \A t \in cut \ {s} : pc'[t] \in KvPlaces
BY DEF MailInv, MailType

\* A step of one session that begins and acknowledges no mail.
LEMMA SessionStep ==
  ASSUME MailInv, MailType', NEW s \in Sessions, SessionOK(s)',
         \A t \in Sessions \ {s} : /\ state'[t] = state[t] /\ rcpts'[t] = rcpts[t]
                                   /\ data'[t] = data[t] /\ pc'[t] = pc[t] /\ loc'[t] = loc[t]
                                   /\ told'.given[t] = told.given[t],
         Active(s)' => Active(s) /\ loc'[s].mail = loc[s].mail,
         job' = job, mails' = mails, told'.deleted = told.deleted, told'.acked = told.acked
  PROVE  MailInv'
<1>1. \A t \in Sessions : SessionOK(t)'
  <2>1. ASSUME NEW t \in Sessions \ {s} PROVE SessionOK(t)'
    BY DEF MailInv, SessionOK, Serving, At
  <2> QED
    BY <2>1
<1>2. \A t \in Sessions : Active(t)' => Active(t) /\ loc'[t].mail = loc[t].mail
  BY DEF Active
<1>3. Numbered'
  BY <1>2 DEF MailInv, Numbered
<1>4. \A p \in Pages : JobOK(p)'
  BY DEF MailInv, JobOK
<1> QED
  BY <1>1, <1>3, <1>4 DEF MailInv

\* The step of a session changes nothing of the others.
Only(s) ==
  \A t \in Sessions \ {s} : /\ state'[t] = state[t] /\ rcpts'[t] = rcpts[t]
                            /\ data'[t] = data[t] /\ pc'[t] = pc[t] /\ loc'[t] = loc[t]
                            /\ told'.given[t] = told.given[t]

LEMMA ConverseMail ==
  ASSUME MailInv, NEW s \in Sessions,
         Helo(s) \/ DataStart(s) \/ DataLine(s) \/ Rset(s) \/ Quit(s)
  PROVE  MailInv'
<1>1. SessionOK(s) /\ pc[s] = "ready" /\ loc[s].box = "outbox"
  BY SessionFacts DEF Helo, DataStart, DataLine, Rset, Quit, Command, Ready, SessionOK
<1>2. /\ UNCHANGED <<pc, loc, job, mails, told, list, body, mqueue, up, cut, shown>>
      /\ state' \in [Sessions -> 0 .. 6] /\ rcpts' \in [Sessions -> SUBSET Rcpts]
      /\ data' \in [Sessions -> Texts \cup {None}]
  <2>1. /\ state \in [Sessions -> 0 .. 6] /\ rcpts \in [Sessions -> SUBSET Rcpts]
        /\ data \in [Sessions -> Texts \cup {None}]
    BY DEF MailInv, MailType
  <2>2. /\ \E n \in 0 .. 6 : state' = [state EXCEPT ![s] = n] \/ state' = state
        /\ rcpts' = [rcpts EXCEPT ![s] = {}] \/ rcpts' = rcpts
        /\ \E h \in Texts \cup {None} : data' = [data EXCEPT ![s] = h] \/ data' = data
    BY DEF Helo, DataStart, DataLine, Rset, Quit
  <2>3. UNCHANGED <<pc, loc, job, mails, told, list, body, mqueue, up, cut, shown>>
    BY DEF Helo, DataStart, DataLine, Rset, Quit, storeVars, pageVars
  <2> QED
    BY <2>1, <2>2, <2>3
<1>3. MailType'
  BY <1>2 DEF MailInv, MailType
<1>4. Only(s)
  BY <1>2 DEF Only, Helo, DataStart, DataLine, Rset, Quit, MailInv, MailType
<1>5. /\ state'[s] \in 0 .. 6
      /\ state'[s] \in {0, 1} => rcpts'[s] = {}
      /\ state'[s] \in 2 .. 4 => rcpts'[s] = rcpts[s] /\ state[s] \in 2 .. 4
  <2>1. state[s] \in 0 .. 6 /\ (state[s] \in {0, 1} => rcpts[s] = {})
    BY <1>1, SessionFacts DEF SessionOK
  <2>2. CASE Helo(s)
    BY <2>1, <2>2 DEF Helo, MailInv, MailType
  <2>3. CASE DataStart(s)
    BY <2>1, <2>3 DEF DataStart, MailInv, MailType
  <2>4. CASE DataLine(s)
    BY <2>1, <2>4 DEF DataLine
  <2>5. CASE Rset(s)
    BY <2>1, <2>5 DEF Rset, MailInv, MailType
  <2>6. CASE Quit(s)
    BY <2>1, <2>6 DEF Quit, MailInv, MailType
  <2> QED
    BY <2>2, <2>3, <2>4, <2>5, <2>6
<1>6. SessionOK(s)'
  BY <1>1, <1>2, <1>5 DEF SessionOK
<1>7. Active(s)' => Active(s)
  BY <1>2, <1>5 DEF Active
<1> QED
  BY <1>2, <1>3, <1>4, <1>6, <1>7, SessionStep DEF Only

LEMMA RcptToMail ==
  ASSUME MailInv, NEW s \in Sessions, RcptTo(s)
  PROVE  MailInv'
<1>1. PICK r \in Rcpts : /\ rcpts' = [rcpts EXCEPT ![s] = @ \cup {r}]
                         /\ told' = [told EXCEPT !.given[s] = @ \cup {r}]
  BY DEF RcptTo
<1>2. /\ UNCHANGED <<pc, loc, data, job, mails, list, body, mqueue, up, cut, shown>>
      /\ state' = [state EXCEPT ![s] = 3] /\ state[s] \in {2, 3} /\ pc[s] = "ready"
  BY DEF RcptTo, storeVars, pageVars, Command, Ready
<1>3. /\ told' \in Told /\ told'.deleted = told.deleted /\ told'.acked = told.acked
      /\ told'.given[s] = told.given[s] \cup {r}
      /\ \A t \in Sessions \ {s} : told'.given[t] = told.given[t]
  BY <1>1 DEF MailInv, MailType, Told
<1>4. MailType'
  BY <1>1, <1>2, <1>3 DEF MailInv, MailType
<1>5. Only(s)
  BY <1>1, <1>2, <1>3 DEF Only, MailInv, MailType
<1>6. state'[s] = 3 /\ rcpts'[s] = rcpts[s] \cup {r} /\ rcpts[s] = told.given[s] /\ loc[s].box = "outbox"
  BY <1>1, <1>2, SessionFacts DEF SessionOK, MailInv, MailType
<1>7. SessionOK(s)' /\ Active(s)
  BY <1>2, <1>3, <1>6 DEF SessionOK, Active
<1> QED
  BY <1>2, <1>3, <1>4, <1>5, <1>7, SessionStep DEF Only

\* A new mail has a new number.
LEMMA MailFromMail ==
  ASSUME MailInv, NEW s \in Sessions, MailFrom(s)
  PROVE  MailInv'
<1>1. /\ UNCHANGED <<pc, rcpts, data, job, list, body, mqueue, up, cut, shown>>
      /\ state' = [state EXCEPT ![s] = 2] /\ state[s] = 1 /\ pc[s] = "ready"
      /\ mails' = mails + 1 /\ mails < MaxMails /\ loc' = [loc EXCEPT ![s].mail = mails + 1]
      /\ told' = [told EXCEPT !.given[s] = {}]
  BY DEF MailFrom, storeVars, pageVars, Command, Ready
<1>2. mails \in 0 .. MaxMails /\ mails' \in 1 .. MaxMails
  BY <1>1, MailAssumption DEF MailInv, MailType
<1>3. /\ told' \in Told /\ told'.deleted = told.deleted /\ told'.acked = told.acked
      /\ told'.given[s] = {} /\ \A t \in Sessions \ {s} : told'.given[t] = told.given[t]
  BY <1>1 DEF MailInv, MailType, Told
<1>4. /\ loc' \in [Sessions -> Locals] /\ loc'[s].mail = mails + 1 /\ loc'[s].box = loc[s].box
      /\ \A t \in Sessions \ {s} : loc'[t] = loc[t]
  <2> DEFINE l == [loc[s] EXCEPT !.mail = mails + 1]
  <2>0. mails + 1 \in 0 .. MaxMails /\ loc[s] \in Locals
    BY <1>1, <1>2, SessionFacts
  <2>1. l \in Locals /\ l.mail = mails + 1 /\ l.box = loc[s].box
    BY <2>0 DEF Locals
  <2>2. loc' = [loc EXCEPT ![s] = l]
    BY <1>1
  <2> HIDE DEF l
  <2> QED
    BY <2>1, <2>2, NewLocals
<1>5. MailType'
  BY <1>1, <1>2, <1>3, <1>4 DEF MailInv, MailType
<1>6. \A t \in Sessions : SessionOK(t)'
  <2>1. SessionOK(s)'
    BY <1>1, <1>3, <1>4, SessionFacts DEF SessionOK, MailInv, MailType
  <2>2. ASSUME NEW t \in Sessions \ {s} PROVE SessionOK(t)'
    BY <1>1, <1>3, <1>4 DEF MailInv, MailType, SessionOK, Serving, At
  <2> QED
    BY <2>1, <2>2
<1>7. Numbered'
  <2>1. \A t \in Sessions \ {s} : Active(t)' => Active(t) /\ loc'[t].mail \in 1 .. mails
    BY <1>1, <1>4 DEF Active, MailInv, MailType, Numbered
  <2>2. \A m \in told.acked : m.mail \in 1 .. mails
    BY DEF MailInv, Numbered
  <2>3. 1 .. mails \subseteq 1 .. mails' /\ mails + 1 \in 1 .. mails' /\ mails + 1 \notin 1 .. mails
    BY <1>1, <1>2
  <2>4. ASSUME NEW t \in Sessions, Active(t)'
        PROVE  /\ loc'[t].mail \in 1 .. mails'
               /\ \A u \in Sessions : Active(u)' /\ loc'[u].mail = loc'[t].mail => u = t
               /\ \A m \in told.acked : m.mail # loc'[t].mail
    <3>1. CASE t = s
      BY <1>4, <2>1, <2>2, <2>3, <3>1
    <3>2. CASE t # s
      BY <1>4, <2>1, <2>3, <2>4, <3>2 DEF MailInv, Numbered
    <3> QED
      BY <3>1, <3>2
  <2> QED
    BY <1>3, <2>2, <2>3, <2>4 DEF MailInv, Numbered
<1>8. \A p \in Pages : JobOK(p)'
  BY <1>1, <1>3 DEF MailInv, JobOK
<1> QED
  BY <1>5, <1>6, <1>7, <1>8 DEF MailInv

LEMMA DataEndMail ==
  ASSUME MailInv, NEW s \in Sessions, DataEnd(s)
  PROVE  MailInv'
<1>1. /\ UNCHANGED <<rcpts, data, job, mails, told, list, body, mqueue, cut, shown>>
      /\ state' = [state EXCEPT ![s] = 5] /\ state[s] = 4 /\ pc[s] = "ready"
      /\ \/ up' = FALSE /\ UNCHANGED <<pc, loc>>
         \/ /\ data[s] # None /\ pc' = [pc EXCEPT ![s] = "listGet"]
            /\ loc' = [loc EXCEPT ![s].todo = rcpts[s]] /\ up' = up
  BY DEF DataEnd, storeVars, pageVars, Ready
<1>2. SessionOK(s) /\ loc[s].box = "outbox" /\ rcpts[s] = told.given[s] /\ rcpts[s] \in SUBSET Rcpts
  BY <1>1, SessionFacts DEF SessionOK
<1>3. /\ loc' \in [Sessions -> Locals] /\ loc'[s].mail = loc[s].mail /\ loc'[s].box = "outbox"
      /\ pc' \in [Sessions -> Places]
      /\ \A t \in Sessions \ {s} : loc'[t] = loc[t] /\ pc'[t] = pc[t]
      /\ \A t \in cut : pc'[t] \in KvPlaces
      /\ pc'[s] = "ready" \/ (pc'[s] = "listGet" /\ loc'[s].todo = rcpts[s] /\ data[s] # None)
  <2>1. CASE UNCHANGED <<pc, loc>>
    BY <1>1, <1>2, <2>1 DEF MailInv, MailType
  <2>2. CASE /\ data[s] # None /\ pc' = [pc EXCEPT ![s] = "listGet"]
             /\ loc' = [loc EXCEPT ![s].todo = rcpts[s]]
    <3> DEFINE l == [loc[s] EXCEPT !.todo = rcpts[s]]
    <3>1. l \in Locals /\ l.mail = loc[s].mail /\ l.box = loc[s].box /\ l.todo = rcpts[s]
      BY <1>1, <1>2, SessionFacts DEF Locals
    <3>2. loc' = [loc EXCEPT ![s] = l] /\ pc' = [pc EXCEPT ![s] = "listGet"]
      BY <1>1, <2>2
    <3> HIDE DEF l
    <3>3. "listGet" \in Places /\ "listGet" \in KvPlaces
      BY DEF Places, KvPlaces
    <3>4. /\ loc' \in [Sessions -> Locals] /\ loc'[s] = l
          /\ \A t \in Sessions \ {s} : loc'[t] = loc[t]
      BY <3>1, <3>2, NewLocals
    <3>5. /\ pc' \in [Sessions -> Places] /\ pc'[s] = "listGet"
          /\ \A t \in Sessions \ {s} : pc'[t] = pc[t]
          /\ \A t \in cut \ {s} : pc'[t] \in KvPlaces
      BY <3>2, <3>3, NewPlace
    <3> QED
      BY <1>2, <2>2, <3>1, <3>3, <3>4, <3>5
  <2> QED
    BY <1>1, <2>1, <2>2
<1>4. /\ up' \in BOOLEAN /\ state' \in [Sessions -> 0 .. 6]
      /\ \A t \in Sessions \ {s} : state'[t] = state[t]
  <2>1. up' \in BOOLEAN
    BY <1>1 DEF MailInv, MailType
  <2>2. state \in [Sessions -> 0 .. 6] /\ 5 \in 0 .. 6
    BY DEF MailInv, MailType
  <2> QED
    BY <1>1, <2>1, <2>2
<1>5. MailType'
  BY <1>1, <1>3, <1>4 DEF MailInv, MailType
<1>6. Only(s)
  BY <1>1, <1>3, <1>4 DEF Only
<1>7. state'[s] = 5
  BY <1>1 DEF MailInv, MailType
<1>8. SessionOK(s)' /\ Active(s)
  BY <1>1, <1>2, <1>3, <1>7 DEF SessionOK, Serving, At, KvPlaces, Active
<1> QED
  BY <1>1, <1>3, <1>5, <1>6, <1>8, SessionStep DEF Only

\* A step of handle_data that does not end it.
LEMMA HandleStep ==
  ASSUME MailInv, NEW s \in Sessions, NEW a, From(s, a), a # "ready",
         NEW l \in Locals, loc' = [loc EXCEPT ![s] = l], l.mail = loc[s].mail,
         NEW b \in Places \ {"ready"}, pc' = [pc EXCEPT ![s] = b],
         rcpts' = rcpts, data' = data, At(s, b, l),
         list' \in [Boxes -> Seq(Texts) \cup {None}],
         body' \in [Boxes -> [Texts -> 0 .. MaxMails \cup {None}]],
         mqueue' \in Seq(MailNumbers),
         told' \in Told, told'.given = told.given, told'.acked = told.acked, told'.deleted = told.deleted
  PROVE  MailInv'
<1>1. UNCHANGED <<up, state, job, shown, mails, cut>> /\ s \notin cut /\ pc[s] # "ready"
  BY DEF From, pageVars
<1>2. /\ loc' \in [Sessions -> Locals] /\ loc'[s] = l
      /\ \A t \in Sessions \ {s} : loc'[t] = loc[t]
  BY NewLocals
<1>3. /\ pc' \in [Sessions -> Places] /\ pc'[s] = b
      /\ \A t \in Sessions \ {s} : pc'[t] = pc[t]
      /\ \A t \in cut : pc'[t] \in KvPlaces
  BY <1>1, NewPlace
<1>4. MailType'
  BY <1>1, <1>2, <1>3 DEF MailInv, MailType
<1>5. SessionOK(s) /\ state[s] = 5 /\ Serving(s)
  BY <1>1, SessionFacts DEF SessionOK, Serving
<1>6. At(s, pc[s], loc[s])'
  BY <1>2, <1>3 DEF At
<1>7. SessionOK(s)'
  BY <1>1, <1>3, <1>5, <1>6 DEF SessionOK, Serving
<1> QED
  BY <1>1, <1>2, <1>3, <1>4, <1>7, SessionStep DEF Active

\* What a session that answers the dot has in its hands.
LEMMA HandleFacts ==
  ASSUME MailInv, NEW s \in Sessions, NEW a, From(s, a), a # "ready"
  PROVE  /\ pc[s] = a /\ At(s, a, loc[s]) /\ data[s] \in Texts /\ state[s] = 5
         /\ loc[s].mail \in MailNumbers /\ Active(s) /\ rcpts[s] = told.given[s]
<1>1. pc[s] = a /\ SessionOK(s) /\ Active(s)
  BY SessionFacts DEF From, Active
<1>2. Serving(s) /\ data[s] \in Texts
  BY <1>1, SessionFacts DEF SessionOK, Serving
<1>3. loc[s].mail \in 1 .. mails /\ mails \in 0 .. MaxMails
  BY <1>1 DEF MailInv, Numbered, MailType
<1> QED
  BY <1>1, <1>2, <1>3, MailAssumption DEF Serving, MailNumbers

\* The types of what handle_data leaves alone.
LEMMA MailTypes ==
  ASSUME MailInv
  PROVE  /\ list \in [Boxes -> Seq(Texts) \cup {None}]
         /\ body \in [Boxes -> [Texts -> 0 .. MaxMails \cup {None}]]
         /\ mqueue \in Seq(MailNumbers) /\ told \in Told
         /\ \A s \in Sessions : loc' = loc => loc' = [loc EXCEPT ![s] = loc[s]]
BY DEF MailInv, MailType

LEMMA ListGetMail ==
  ASSUME MailInv, NEW s \in Sessions, ListGet(s)
  PROVE  MailInv'
<1>1. From(s, "listGet") /\ UNCHANGED <<list, body, mqueue, rcpts, data, told>>
  BY DEF ListGet
<1>2. PICK x : x = list[loc[s].box]
  OBVIOUS
<1>3. At(s, "listGet", loc[s]) /\ loc[s] \in Locals /\ loc[s].box \in Boxes /\ x \in Seq(Texts) \cup {None}
  BY <1>1, <1>2, HandleFacts, SessionFacts, MailTypes
<1>4. CASE x = None
  <2>1. pc' = [pc EXCEPT ![s] = "listInit"] /\ loc' = [loc EXCEPT ![s] = loc[s]]
    BY <1>2, <1>4, MailTypes DEF ListGet, To
  <2>2. "listInit" \in Places \ {"ready"} /\ At(s, "listInit", loc[s])
    BY <1>3 DEF Places, At, KvPlaces
  <2> QED
    BY <1>1, <1>3, <2>1, <2>2, HandleStep, MailTypes
<1>5. CASE x # None
  <2> DEFINE l == [loc[s] EXCEPT !.old = x]
  <2>1. pc' = [pc EXCEPT ![s] = "listCput"] /\ loc' = [loc EXCEPT ![s] = l]
    BY <1>2, <1>5 DEF ListGet, To
  <2>2. l \in Locals /\ l.mail = loc[s].mail /\ l.box = loc[s].box /\ l.todo = loc[s].todo
    BY <1>3, <1>5 DEF Locals
  <2> HIDE DEF l
  <2>3. "listCput" \in Places \ {"ready"} /\ At(s, "listCput", l)
    BY <1>3, <2>2 DEF Places, At, KvPlaces
  <2> QED
    BY <1>1, <2>1, <2>2, <2>3, HandleStep, MailTypes
<1> QED
  BY <1>4, <1>5

LEMMA ListInitMail ==
  ASSUME MailInv, NEW s \in Sessions, ListInit(s)
  PROVE  MailInv'
<1> DEFINE b == loc[s].box
<1>1. /\ From(s, "listInit") /\ UNCHANGED <<body, mqueue, rcpts, data, loc>>
      /\ list' = [list EXCEPT ![b] = <<>>] /\ pc' = [pc EXCEPT ![s] = "listGet"]
      /\ told' = [told EXCEPT !.wiped = @ \cup
                     (IF list[b] = None THEN {} ELSE {<<b, h>> : h \in Range(list[b])})]
  BY DEF ListInit, To
<1>2. At(s, "listInit", loc[s]) /\ loc[s] \in Locals /\ b \in Boxes
  BY <1>1, HandleFacts, SessionFacts
<1>3. list' \in [Boxes -> Seq(Texts) \cup {None}]
  BY <1>1, <1>2, MailTypes
<1>4. /\ told' \in Told /\ told'.given = told.given /\ told'.acked = told.acked
      /\ told'.deleted = told.deleted
  <2>1. list[b] # None => Range(list[b]) \subseteq Texts
    BY <1>2, MailTypes DEF Range
  <2> HIDE DEF b
  <2>2. (IF list[b] = None THEN {} ELSE {<<b, h>> : h \in Range(list[b])}) \subseteq Boxes \X Texts
    BY <1>2, <2>1
  <2> QED
    BY <1>1, <2>2, MailTypes DEF Told
<1>5. "listGet" \in Places \ {"ready"} /\ At(s, "listGet", loc[s])
  BY <1>2 DEF Places, At, KvPlaces
<1> QED
  BY <1>1, <1>2, <1>3, <1>4, <1>5, HandleStep, MailTypes

-----------------------------------------------------------------------------
(* Lists of hashes *)

\* Every set of numbers has a least one.
LEMMA LeastNumber ==
  ASSUME NEW T, T \subseteq Nat, T # {}
  PROVE  \E x \in T : \A y \in T : x <= y
<1> DEFINE R == {ss \in Nat \X Nat : ss[1] < ss[2]}
<1>1. R = OpToRel(<, Nat)
  BY DEF OpToRel
<1>2. IsWellFoundedOn(R, Nat)
  BY <1>1, NatLessThanWellFounded
<1>3. PICK x \in T : \A y \in T : <<y, x>> \notin R
  <2> HIDE DEF R
  <2> QED
    BY <1>2, WFMin
<1>4. ASSUME NEW y \in T PROVE x <= y
  <2>1. x \in Nat /\ y \in Nat
    OBVIOUS
  <2>2. y < x => <<y, x>> \in R
    BY <2>1
  <2> QED
    BY <1>3, <2>1, <2>2
<1> QED
  BY <1>4

\* Induction up to N, with the set of the numbers for which the claim holds.
LEMMA InductionTo ==
  ASSUME NEW N \in Nat, NEW S, 0 \in S, \A n \in 0 .. N - 1 : n \in S => n + 1 \in S
  PROVE  N \in S
<1>1. SUFFICES ASSUME (0 .. N) \ S # {} PROVE FALSE
  OBVIOUS
<1>2. PICK x \in (0 .. N) \ S : \A y \in (0 .. N) \ S : x <= y
  <2>1. (0 .. N) \ S \subseteq Nat
    OBVIOUS
  <2> QED
    BY <1>1, <2>1, LeastNumber
<1>3. x # 0 /\ x - 1 \in 0 .. N - 1 /\ x - 1 \in S
  BY <1>2
<1> QED
  BY <1>2, <1>3

\* The equation of the function in Without.
KeepStep(g, l, x, i) ==
  IF i = 0 THEN <<>> ELSE IF l[i] = x THEN g[i-1] ELSE Append(g[i-1], l[i])

\* There is such a function, because each of its values depends on an earlier one.
LEMMA KeepExists ==
  ASSUME NEW l, Len(l) \in Nat, NEW x
  PROVE  \E g : g = [i \in 0 .. Len(l) |-> KeepStep(g, l, x, i)]
<1> DEFINE N == Len(l)
           S == {n \in 0 .. N : \E g : g = [i \in 0 .. n |-> KeepStep(g, l, x, i)]}
<1>1. 0 \in S
  <2> DEFINE g == [i \in 0 .. 0 |-> <<>>]
  <2>1. g = [i \in 0 .. 0 |-> KeepStep(g, l, x, i)]
    BY DEF KeepStep
  <2> HIDE DEF g
  <2> QED
    BY <2>1
<1>2. ASSUME NEW n \in 0 .. N - 1, n \in S PROVE n + 1 \in S
  <2>1. PICK g : g = [i \in 0 .. n |-> KeepStep(g, l, x, i)]
    BY <1>2
  <2> DEFINE last == IF l[n + 1] = x THEN g[n] ELSE Append(g[n], l[n + 1])
             h == [i \in 0 .. n + 1 |-> IF i <= n THEN g[i] ELSE last]
  <2>2. \A i \in 0 .. n : h[i] = g[i] /\ g[i] = KeepStep(g, l, x, i)
    BY <2>1
  <2>3. h[n + 1] = last /\ h[n] = g[n]
    OBVIOUS
  <2>4. ASSUME NEW i \in 0 .. n + 1 PROVE h[i] = KeepStep(h, l, x, i)
    <3>1. CASE i = n + 1
      BY <2>3, <3>1 DEF KeepStep
    <3>2. CASE i # n + 1
      <4>1. i \in 0 .. n /\ (i # 0 => i - 1 \in 0 .. n)
        BY <3>2
      <4> QED
        BY <2>2, <4>1 DEF KeepStep
    <3> QED
      BY <3>1, <3>2
  <2>5. h = [i \in 0 .. n + 1 |-> KeepStep(h, l, x, i)]
    <3>1. h = [i \in 0 .. n + 1 |-> h[i]]
      OBVIOUS
    <3> HIDE DEF h
    <3> QED
      BY <2>4, <3>1
  <2> HIDE DEF h
  <2>6. n + 1 \in 0 .. N
    OBVIOUS
  <2> QED
    BY <2>5, <2>6
<1> HIDE DEF S
<1>3. \A n \in 0 .. N - 1 : n \in S => n + 1 \in S
  BY <1>2
<1> HIDE DEF N
<1>4. N \in S
  BY <1>1, <1>3, InductionTo DEF N
<1> QED
  BY <1>4 DEF S, N

\* Append adds its element to the range.
LEMMA AppendRange ==
  ASSUME NEW T, NEW s \in Seq(T), NEW e \in T
  PROVE  Append(s, e) \in Seq(T) /\ Range(Append(s, e)) = Range(s) \cup {e}
<1>1. /\ Len(s) \in Nat /\ DOMAIN s = 1 .. Len(s) /\ DOMAIN Append(s, e) = 1 .. Len(s) + 1
      /\ Append(s, e)[Len(s) + 1] = e /\ \A i \in 1 .. Len(s) : Append(s, e)[i] = s[i]
  OBVIOUS
<1>2. /\ \A i \in 1 .. Len(s) + 1 : i \in 1 .. Len(s) \/ i = Len(s) + 1
      /\ \A i \in 1 .. Len(s) : i \in 1 .. Len(s) + 1
      /\ Len(s) + 1 \in 1 .. Len(s) + 1
  BY <1>1
<1> QED
  BY <1>1, <1>2 DEF Range

\* What is put at the head of a list is in it, with all that was there.
LEMMA PrependRange ==
  ASSUME NEW T, NEW s \in Seq(T), NEW e \in T
  PROVE  <<e>> \o s \in Seq(T) /\ Range(<<e>> \o s) = Range(s) \cup {e}
<1>1. /\ Len(s) \in Nat /\ DOMAIN s = 1 .. Len(s) /\ DOMAIN (<<e>> \o s) = 1 .. Len(s) + 1
      /\ (<<e>> \o s)[1] = e /\ \A i \in 2 .. Len(s) + 1 : (<<e>> \o s)[i] = s[i - 1]
  OBVIOUS
<1>2. /\ \A i \in 1 .. Len(s) + 1 : i = 1 \/ (i \in 2 .. Len(s) + 1 /\ i - 1 \in 1 .. Len(s))
      /\ \A i \in 1 .. Len(s) : i + 1 \in 2 .. Len(s) + 1 /\ (i + 1) - 1 = i /\ i + 1 \in 1 .. Len(s) + 1
      /\ 1 \in 1 .. Len(s) + 1
  BY <1>1
<1>3. \A i \in 1 .. Len(s) : (<<e>> \o s)[i + 1] = s[i]
  BY <1>1, <1>2
<1>4. <<e>> \o s \in Seq(T)
  OBVIOUS
<1>5. Range(<<e>> \o s) \subseteq Range(s) \cup {e}
  BY <1>1, <1>2 DEF Range
<1>6. Range(s) \cup {e} \subseteq Range(<<e>> \o s)
  <2>1. e \in Range(<<e>> \o s)
    BY <1>1, <1>2 DEF Range
  <2>2. ASSUME NEW i \in 1 .. Len(s) PROVE s[i] \in Range(<<e>> \o s)
    <3>1. i + 1 \in DOMAIN (<<e>> \o s) /\ (<<e>> \o s)[i + 1] = s[i]
      BY <1>1, <1>2, <1>3
    <3> QED
      BY <3>1 DEF Range
  <2> QED
    BY <1>1, <2>1, <2>2 DEF Range
<1> QED
  BY <1>4, <1>5, <1>6

\* Without takes out the hash and nothing else.
LEMMA WithoutRange ==
  ASSUME NEW l \in Seq(Texts), NEW x
  PROVE  Without(l, x) \in Seq(Texts) /\ Range(Without(l, x)) = Range(l) \ {x}
<1>0. Len(l) \in Nat /\ DOMAIN l = 1 .. Len(l) /\ \A i \in 1 .. Len(l) : l[i] \in Texts
  OBVIOUS
<1> DEFINE N == Len(l)
           g == CHOOSE f : f = [i \in 0 .. N |-> KeepStep(f, l, x, i)]
           Kept(w, n) == w \in Seq(Texts) /\ Range(w) = {l[a] : a \in 1 .. n} \ {x}
<1>1. Without(l, x) = g[N]
  BY DEF Without, KeepStep
<1>2. \A i \in 0 .. N : g[i] = KeepStep(g, l, x, i)
  <2>1. g = [i \in 0 .. N |-> KeepStep(g, l, x, i)]
    BY <1>0, KeepExists
  <2> HIDE DEF g
  <2> QED
    BY <2>1
<1> HIDE DEF g
<1> DEFINE S == {n \in 0 .. N : Kept(g[n], n)}
<1>3. 0 \in S
  <2>1. g[0] = <<>> /\ 1 .. 0 = {} /\ 0 \in 0 .. N
    BY <1>0, <1>2 DEF KeepStep
  <2>2. <<>> \in Seq(Texts) /\ DOMAIN <<>> = {}
    OBVIOUS
  <2>3. Range(<<>>) = {}
    BY <2>2 DEF Range
  <2>4. Kept(<<>>, 0)
    BY <2>1, <2>2, <2>3
  <2> HIDE DEF Kept
  <2> QED
    BY <2>1, <2>4
<1>4. ASSUME NEW n \in 0 .. N - 1, n \in S PROVE n + 1 \in S
  <2> DEFINE v == g[n]  w == g[n + 1]
  <2>1. n \in Nat /\ n + 1 \in 1 .. N /\ n + 1 \in 0 .. N /\ l[n + 1] \in Texts
    BY <1>0
  <2>2. v \in Seq(Texts) /\ Range(v) = {l[a] : a \in 1 .. n} \ {x}
    BY <1>4
  <2>3. w = IF l[n + 1] = x THEN v ELSE Append(v, l[n + 1])
    BY <1>0, <1>2, <2>1 DEF KeepStep
  <2> HIDE DEF v, w
  <2>4. {l[a] : a \in 1 .. n + 1} = {l[a] : a \in 1 .. n} \cup {l[n + 1]}
    <3>1. \A a \in 1 .. n + 1 : a \in 1 .. n \/ a = n + 1
      BY <2>1
    <3>2. \A a \in 1 .. n : a \in 1 .. n + 1
      BY <2>1
    <3>3. n + 1 \in 1 .. n + 1
      BY <2>1
    <3> QED
      BY <3>1, <3>2, <3>3
  <2>5. w \in Seq(Texts) /\ Range(w) = Range(v) \cup ({l[n + 1]} \ {x})
    BY <2>1, <2>2, <2>3, AppendRange
  <2> QED
    BY <2>1, <2>2, <2>4, <2>5 DEF w
<1> HIDE DEF S
<1>5. N \in Nat /\ \A n \in 0 .. N - 1 : n \in S => n + 1 \in S
  BY <1>0, <1>4
<1> HIDE DEF N
<1>6. N \in S
  BY <1>3, <1>5, InductionTo
<1> QED
  BY <1>0, <1>1, <1>6 DEF S, N, Range

-----------------------------------------------------------------------------
(* The other steps of handle_data *)

LEMMA ListCputMail ==
  ASSUME MailInv, NEW s \in Sessions, ListCput(s)
  PROVE  /\ MailInv'
         /\ list[loc[s].box] = loc[s].old =>
              /\ pc' = [pc EXCEPT ![s] = "bodyPut"]
              /\ list' = [list EXCEPT ![loc[s].box] = <<data[s]>> \o Without(loc[s].old, data[s])]
              /\ Range(list'[loc[s].box]) = Range(list[loc[s].box]) \cup {data[s]}
         /\ list[loc[s].box] # loc[s].old => pc' = [pc EXCEPT ![s] = "listGet"] /\ list' = list
<1> DEFINE b == loc[s].box
           new == <<data[s]>> \o Without(loc[s].old, data[s])
<1>1. From(s, "listCput") /\ UNCHANGED <<body, mqueue, rcpts, data, loc, told>>
  BY DEF ListCput
<1>2. /\ At(s, "listCput", loc[s]) /\ loc[s] \in Locals /\ b \in Boxes /\ loc[s].old \in Seq(Texts)
      /\ data[s] \in Texts
  BY <1>1, HandleFacts, SessionFacts
<1>3. new \in Seq(Texts) /\ Range(new) = Range(loc[s].old) \cup {data[s]}
  <2>1. PICK w \in Seq(Texts) : /\ w = Without(loc[s].old, data[s])
                                /\ Range(w) = Range(loc[s].old) \ {data[s]}
    BY <1>2, WithoutRange
  <2>2. <<data[s]>> \o w \in Seq(Texts) /\ Range(<<data[s]>> \o w) = Range(w) \cup {data[s]}
    BY <1>2, PrependRange
  <2> QED
    BY <2>1, <2>2
<1>4. CASE list[b] = loc[s].old
  <2>1. pc' = [pc EXCEPT ![s] = "bodyPut"] /\ list' = [list EXCEPT ![b] = new]
    BY <1>4 DEF ListCput, To
  <2> HIDE DEF new
  <2>2. list' \in [Boxes -> Seq(Texts) \cup {None}] /\ list'[b] = new
    BY <1>2, <1>3, <2>1, MailTypes
  <2>3. "bodyPut" \in Places \ {"ready"} /\ At(s, "bodyPut", loc[s])
    BY <1>2 DEF Places, At, KvPlaces
  <2>4. MailInv'
    BY <1>1, <1>2, <2>1, <2>2, <2>3, HandleStep, MailTypes
  <2> QED
    BY <1>3, <1>4, <2>1, <2>2, <2>4 DEF new
<1>5. CASE list[b] # loc[s].old
  <2>1. pc' = [pc EXCEPT ![s] = "listGet"] /\ list' = list
    BY <1>5 DEF ListCput, To
  <2>2. "listGet" \in Places \ {"ready"} /\ At(s, "listGet", loc[s])
    BY <1>2 DEF Places, At, KvPlaces
  <2>3. MailInv'
    BY <1>1, <1>2, <2>1, <2>2, HandleStep, MailTypes
  <2> QED
    BY <1>5, <2>1, <2>3
<1> QED
  BY <1>4, <1>5

LEMMA BodyPutMail ==
  ASSUME MailInv, NEW s \in Sessions, BodyPut(s)
  PROVE  MailInv'
<1> DEFINE b == loc[s].box
           a == IF b = "outbox" THEN "rcpt" ELSE "relRead"
<1>1. /\ From(s, "bodyPut") /\ UNCHANGED <<list, mqueue, rcpts, data, loc, told>>
      /\ body' = [body EXCEPT ![b][data[s]] = loc[s].mail] /\ pc' = [pc EXCEPT ![s] = a]
  BY DEF BodyPut, To
<1>2. /\ At(s, "bodyPut", loc[s]) /\ loc[s] \in Locals /\ b \in Boxes /\ data[s] \in Texts
      /\ loc[s].mail \in 0 .. MaxMails
  BY <1>1, HandleFacts, SessionFacts
<1>3. body' \in [Boxes -> [Texts -> 0 .. MaxMails \cup {None}]]
  BY <1>1, <1>2, MailTypes
<1>4. a \in Places \ {"ready"} /\ At(s, a, loc[s])
  BY <1>2 DEF Places, At, KvPlaces, Boxes
<1> HIDE DEF a
<1> QED
  BY <1>1, <1>2, <1>3, <1>4, HandleStep, MailTypes

\* The next recipient.
LEMMA NextOne ==
  ASSUME MailInv, NEW s \in Sessions, From(s, "rcpt"), NEW r \in loc[s].todo,
         loc' = [loc EXCEPT ![s].todo = @ \ {r}, ![s].box = "inbox"],
         To(s, IF r = "local" THEN "listGet" ELSE "queue"),
         UNCHANGED <<rcpts, data, told, list, body, mqueue>>
  PROVE  MailInv'
<1> DEFINE l == [loc[s] EXCEPT !.todo = @ \ {r}, !.box = "inbox"]
           a == IF r = "local" THEN "listGet" ELSE "queue"
<1>1. At(s, "rcpt", loc[s]) /\ loc[s] \in Locals /\ r \in Rcpts
  BY HandleFacts, SessionFacts
<1>2. l \in Locals /\ l.mail = loc[s].mail /\ l.box = "inbox" /\ l.todo = loc[s].todo \ {r}
  BY <1>1 DEF Locals, Boxes
<1>3. loc' = [loc EXCEPT ![s] = l] /\ pc' = [pc EXCEPT ![s] = a]
  BY DEF To
<1> HIDE DEF l
<1>4. a \in Places \ {"ready"} /\ At(s, a, l)
  BY <1>1, <1>2 DEF At, Places, KvPlaces, Rcpts
<1> HIDE DEF a
<1> QED
  BY <1>2, <1>3, <1>4, HandleStep, MailTypes

\* 250 OK.
LEMMA AnswersDot ==
  ASSUME MailInv, NEW s \in Sessions, From(s, "rcpt"), NEW m,
         m = [mail |-> loc[s].mail, hash |-> data[s], to |-> told.given[s]],
         told' = [told EXCEPT !.acked = @ \cup {m}],
         loc' = [loc EXCEPT ![s] = NoLoc], rcpts' = [rcpts EXCEPT ![s] = {}],
         data' = [data EXCEPT ![s] = None], To(s, "ready"), UNCHANGED <<list, body, mqueue>>
  PROVE  MailInv'
<1>1. /\ UNCHANGED <<up, state, job, shown, mails, cut>> /\ s \notin cut /\ pc[s] = "rcpt"
      /\ data[s] \in Texts /\ state[s] = 5 /\ loc[s].mail \in MailNumbers /\ Active(s)
      /\ told.given[s] \in SUBSET Rcpts /\ pc' = [pc EXCEPT ![s] = "ready"]
  BY HandleFacts, SessionFacts DEF From, pageVars, To
<1>2. NoLoc \in Locals /\ NoLoc.box = "outbox"
  BY MailAssumption DEF NoLoc, Locals, Boxes
<1>3. /\ loc' \in [Sessions -> Locals] /\ loc'[s] = NoLoc
      /\ \A t \in Sessions \ {s} : loc'[t] = loc[t]
  BY <1>2, NewLocals
<1>4. /\ pc' \in [Sessions -> Places] /\ pc'[s] = "ready"
      /\ \A t \in Sessions \ {s} : pc'[t] = pc[t]
      /\ \A t \in cut : pc'[t] \in KvPlaces
  <2>1. "ready" \in Places
    BY DEF Places
  <2> QED
    BY <1>1, <2>1, NewPlace
<1>5. /\ rcpts' \in [Sessions -> SUBSET Rcpts] /\ data' \in [Sessions -> Texts \cup {None}]
      /\ rcpts'[s] = {} /\ \A t \in Sessions \ {s} : rcpts'[t] = rcpts[t] /\ data'[t] = data[t]
  BY DEF MailInv, MailType
<1>6. /\ told' \in Told /\ told'.given = told.given /\ told'.deleted = told.deleted
      /\ told'.acked = told.acked \cup {m} /\ m.mail = loc[s].mail
  <2>1. m \in [mail : MailNumbers, hash : Texts, to : SUBSET Rcpts] /\ m.mail = loc[s].mail
    BY <1>1
  <2> QED
    BY <2>1, MailTypes DEF Told
<1>7. MailType'
  BY <1>1, <1>3, <1>4, <1>5, <1>6 DEF MailInv, MailType
<1>8. \A t \in Sessions : SessionOK(t)'
  <2>1. SessionOK(s)'
    BY <1>1, <1>2, <1>3, <1>4, <1>5 DEF SessionOK
  <2>2. ASSUME NEW t \in Sessions \ {s} PROVE SessionOK(t)'
    BY <1>1, <1>3, <1>4, <1>5, <1>6 DEF MailInv, SessionOK, Serving, At
  <2> QED
    BY <2>1, <2>2
<1>9. Numbered'
  <2>1. \A t \in Sessions : Active(t)' => t # s /\ Active(t) /\ loc'[t] = loc[t]
    BY <1>1, <1>3, <1>4 DEF Active
  <2>2. \A t \in Sessions \ {s} : Active(t) => loc[t].mail # m.mail
    BY <1>1, <1>6 DEF MailInv, Numbered
  <2>3. m.mail \in 1 .. mails /\ \A n \in told.acked : n.mail # m.mail
    BY <1>1, <1>6 DEF MailInv, Numbered
  <2> QED
    BY <1>1, <1>6, <2>1, <2>2, <2>3 DEF MailInv, Numbered
<1>10. \A p \in Pages : JobOK(p)'
  BY <1>1, <1>6 DEF MailInv, JobOK
<1> QED
  BY <1>7, <1>8, <1>9, <1>10 DEF MailInv

LEMMA NextRcptMail ==
  ASSUME MailInv, NEW s \in Sessions, NextRcpt(s)
  PROVE  MailInv'
BY NextOne, AnswersDot DEF NextRcpt

LEMMA QueueMailMail ==
  ASSUME MailInv, NEW s \in Sessions, QueueMail(s)
  PROVE  MailInv'
<1>1. /\ From(s, "queue") /\ UNCHANGED <<list, body, rcpts, data, loc>>
      /\ mqueue' = Append(mqueue, loc[s].mail) /\ pc' = [pc EXCEPT ![s] = "relRead"]
      /\ told' = [told EXCEPT !.overlap = Overlap(s)]
  BY DEF QueueMail, To
<1>2. At(s, "queue", loc[s]) /\ loc[s] \in Locals /\ loc[s].mail \in MailNumbers
  BY <1>1, HandleFacts, SessionFacts
<1>3. mqueue' \in Seq(MailNumbers)
  BY <1>1, <1>2, MailTypes
<1>4. /\ told' \in Told /\ told'.given = told.given /\ told'.acked = told.acked
      /\ told'.deleted = told.deleted
  <2>1. Overlap(s) \in BOOLEAN
    BY MailTypes DEF Overlap, Told
  <2> QED
    BY <1>1, <2>1, MailTypes DEF Told
<1>5. "relRead" \in Places \ {"ready"} /\ At(s, "relRead", loc[s])
  BY <1>2 DEF Places, At, KvPlaces
<1> QED
  BY <1>1, <1>2, <1>3, <1>4, <1>5, HandleStep, MailTypes

LEMMA ReadMqueueMail ==
  ASSUME MailInv, NEW s \in Sessions, ReadMqueue(s)
  PROVE  MailInv'
<1> DEFINE l == [loc[s] EXCEPT !.msgs = mqueue, !.left = <<>>]
           a == IF mqueue = <<>> THEN "relTrunc" ELSE "relSend"
<1>1. /\ From(s, "relRead") /\ UNCHANGED <<list, body, mqueue, rcpts, data>>
      /\ loc' = [loc EXCEPT ![s] = l] /\ pc' = [pc EXCEPT ![s] = a]
      /\ told' = [told EXCEPT !.overlap = Overlap(s)]
  BY DEF ReadMqueue, To
<1>2. At(s, "relRead", loc[s]) /\ loc[s] \in Locals
  BY <1>1, HandleFacts, SessionFacts
<1>3. l \in Locals /\ l.mail = loc[s].mail /\ l.box = loc[s].box /\ l.todo = loc[s].todo /\ l.msgs = mqueue
  <2>1. <<>> \in Seq(MailNumbers) /\ mqueue \in Seq(MailNumbers)
    BY MailTypes
  <2> QED
    BY <1>2, <2>1 DEF Locals
<1> HIDE DEF l
<1>4. /\ told' \in Told /\ told'.given = told.given /\ told'.acked = told.acked
      /\ told'.deleted = told.deleted
  <2>1. Overlap(s) \in BOOLEAN
    BY MailTypes DEF Overlap, Told
  <2> QED
    BY <1>1, <2>1, MailTypes DEF Told
<1>5. a \in Places \ {"ready"} /\ At(s, a, l)
  BY <1>2, <1>3 DEF Places, At, KvPlaces
<1> HIDE DEF a
<1> QED
  BY <1>1, <1>3, <1>4, <1>5, HandleStep, MailTypes

LEMMA HandleForwardMail ==
  ASSUME MailInv, NEW s \in Sessions, HandleForward(s)
  PROVE  MailInv'
<1> DEFINE m == Head(loc[s].msgs)
           rest == Tail(loc[s].msgs)
           a == IF rest = <<>> THEN "relTrunc" ELSE "relSend"
<1>1. /\ From(s, "relSend") /\ UNCHANGED <<list, body, mqueue, rcpts, data>>
      /\ pc' = [pc EXCEPT ![s] = a]
  BY DEF HandleForward, To
<1>2. /\ At(s, "relSend", loc[s]) /\ loc[s] \in Locals /\ m \in MailNumbers /\ rest \in Seq(MailNumbers)
      /\ loc[s].left \in Seq(MailNumbers) /\ loc[s].msgs # <<>>
  <2>1. At(s, "relSend", loc[s]) /\ loc[s] \in Locals /\ loc[s].msgs \in Seq(MailNumbers)
        /\ loc[s].left \in Seq(MailNumbers)
    BY <1>1, HandleFacts, SessionFacts
  <2>2. loc[s].msgs # <<>>
    BY <2>1 DEF At
  <2> QED
    BY <2>1, <2>2
<1> DEFINE l == [loc[s] EXCEPT !.msgs = rest]
           k == [loc[s] EXCEPT !.msgs = rest, !.left = Append(@, m)]
<1>3. \/ told' = [told EXCEPT !.sent = Append(@, m)] /\ loc' = [loc EXCEPT ![s] = l]
      \/ told' = [told EXCEPT !.refused = Append(@, m)] /\ loc' = [loc EXCEPT ![s] = l]
      \/ told' = told /\ loc' = [loc EXCEPT ![s] = k]
  BY DEF HandleForward
<1> HIDE DEF m, rest
<1>4. /\ l \in Locals /\ l.mail = loc[s].mail /\ l.box = loc[s].box /\ l.todo = loc[s].todo
      /\ k \in Locals /\ k.mail = loc[s].mail /\ k.box = loc[s].box /\ k.todo = loc[s].todo
      /\ l.msgs = rest /\ k.msgs = rest
  <2>1. Append(loc[s].left, m) \in Seq(MailNumbers)
    BY <1>2
  <2> QED
    BY <1>2, <2>1 DEF Locals
<1>5. /\ told' \in Told /\ told'.given = told.given /\ told'.acked = told.acked
      /\ told'.deleted = told.deleted
  <2>1. told.sent \in Seq(MailNumbers) /\ told.refused \in Seq(MailNumbers)
    BY MailTypes DEF Told
  <2>2. Append(told.sent, m) \in Seq(MailNumbers) /\ Append(told.refused, m) \in Seq(MailNumbers)
    BY <1>2, <2>1
  <2> QED
    BY <1>3, <2>2, MailTypes DEF Told
<1> HIDE DEF l, k
<1>6. a \in Places \ {"ready"} /\ At(s, a, l) /\ At(s, a, k)
  BY <1>2, <1>4 DEF Places, At, KvPlaces
<1> HIDE DEF a
<1>7. CASE loc' = [loc EXCEPT ![s] = l]
  BY <1>1, <1>4, <1>5, <1>6, <1>7, HandleStep, MailTypes
<1>8. CASE loc' = [loc EXCEPT ![s] = k]
  BY <1>1, <1>4, <1>5, <1>6, <1>8, HandleStep, MailTypes
<1> QED
  BY <1>3, <1>7, <1>8

\* What a relay that hangs leaves behind: the file as it is.
Dealt(s) == Range(mqueue) \ (Range(loc[s].left) \cup Range(Tail(loc[s].msgs)))

LEMMA HangRelayFacts ==
  ASSUME MailInv, NEW s \in Sessions, HangRelay(s)
  PROVE  /\ From(s, "relSend") /\ UNCHANGED <<list, body, mqueue, rcpts, data, loc>>
         /\ pc' = [pc EXCEPT ![s] = "relStuck"] /\ loc[s].msgs # <<>>
         /\ told' \in Told /\ told'.given = told.given /\ told'.acked = told.acked
         /\ told'.wiped = told.wiped /\ told'.deleted = told.deleted /\ told'.overlap = told.overlap
         /\ told'.refused = told.refused /\ told'.unfinished = told.unfinished \cup Dealt(s)
         /\ told'.sent = told.sent \/ told'.sent = Append(told.sent, Head(loc[s].msgs))
<1>1. /\ From(s, "relSend") /\ UNCHANGED <<list, body, mqueue, rcpts, data, loc>>
      /\ pc' = [pc EXCEPT ![s] = "relStuck"]
  BY DEF HangRelay, To
<1>2. loc[s].msgs \in Seq(MailNumbers) /\ loc[s].msgs # <<>>
  BY <1>1, HandleFacts, SessionFacts DEF At
<1>3. PICK m : m = Head(loc[s].msgs)
  OBVIOUS
<1>4. m \in MailNumbers /\ told.sent \in Seq(MailNumbers)
  BY <1>2, <1>3, MailTypes DEF Told
<1>0. PICK D : D = Dealt(s)
  OBVIOUS
<1>5. PICK took \in {<<>>, <<m>>} : told' = [told EXCEPT !.sent = @ \o took, !.unfinished = @ \cup D]
  BY <1>3, <1>0 DEF HangRelay, Dealt
<1>6. told.sent \o <<>> = told.sent /\ told.sent \o <<m>> = Append(told.sent, m)
  BY <1>4
<1>7. told.sent \o took \in {told.sent, Append(told.sent, m)} /\ told.sent \o took \in Seq(MailNumbers)
  <2>1. CASE took = <<>>
    BY <1>4, <1>6, <2>1
  <2>2. CASE took = <<m>>
    <3>1. Append(told.sent, m) \in Seq(MailNumbers)
      BY <1>4
    <3> QED
      BY <1>6, <2>2, <3>1
  <2> QED
    BY <1>5, <2>1, <2>2
<1>8. D \subseteq MailNumbers
  BY <1>0, MailTypes DEF Dealt, Range
<1>9. PICK sent : sent = told.sent \o took
  OBVIOUS
<1>10. told' = [told EXCEPT !.sent = sent, !.unfinished = @ \cup D]
  BY <1>5, <1>9
<1> QED
  BY <1>0, <1>1, <1>2, <1>3, <1>7, <1>8, <1>9, <1>10, MailTypes DEF Told

LEMMA HangRelayMail ==
  ASSUME MailInv, NEW s \in Sessions, HangRelay(s)
  PROVE  MailInv'
<1>1. /\ From(s, "relSend") /\ UNCHANGED <<list, body, mqueue, rcpts, data, loc>>
      /\ pc' = [pc EXCEPT ![s] = "relStuck"]
      /\ told' \in Told /\ told'.given = told.given /\ told'.acked = told.acked
      /\ told'.deleted = told.deleted
  BY HangRelayFacts
<1>2. At(s, "relSend", loc[s]) /\ loc[s] \in Locals /\ loc' = [loc EXCEPT ![s] = loc[s]]
  BY <1>1, HandleFacts, SessionFacts DEF MailInv, MailType
<1>3. "relStuck" \in Places \ {"ready"} /\ At(s, "relStuck", loc[s])
  BY <1>2 DEF Places, At, KvPlaces
<1> QED
  BY <1>1, <1>2, <1>3, HandleStep, MailTypes

LEMMA TruncMqueueMail ==
  ASSUME MailInv, NEW s \in Sessions, TruncMqueue(s)
  PROVE  MailInv'
<1>1. /\ From(s, "relTrunc") /\ UNCHANGED <<list, body, rcpts, data, loc, told>>
      /\ mqueue' = <<>> /\ pc' = [pc EXCEPT ![s] = "relWrite"]
  BY DEF TruncMqueue, To
<1>2. At(s, "relTrunc", loc[s]) /\ loc[s] \in Locals
  BY <1>1, HandleFacts, SessionFacts
<1>3. mqueue' \in Seq(MailNumbers)
  BY <1>1
<1>4. "relWrite" \in Places \ {"ready"} /\ At(s, "relWrite", loc[s])
  BY <1>2 DEF Places, At, KvPlaces
<1> QED
  BY <1>1, <1>2, <1>3, <1>4, HandleStep, MailTypes

LEMMA WriteMqueueMail ==
  ASSUME MailInv, NEW s \in Sessions, WriteMqueue(s)
  PROVE  MailInv'
<1> DEFINE l == [loc[s] EXCEPT !.left = <<>>]
<1>1. /\ From(s, "relWrite") /\ UNCHANGED <<list, body, rcpts, data, told>>
      /\ mqueue' = loc[s].left \o SubSeq(mqueue, Len(loc[s].left) + 1, Len(mqueue))
      /\ pc' = [pc EXCEPT ![s] = "rcpt"] /\ loc' = [loc EXCEPT ![s] = l]
  BY DEF WriteMqueue, To
<1>2. At(s, "relWrite", loc[s]) /\ loc[s] \in Locals /\ loc[s].left \in Seq(MailNumbers)
  BY <1>1, HandleFacts, SessionFacts
<1>3. mqueue' \in Seq(MailNumbers)
  <2>2. SubSeq(mqueue, Len(loc[s].left) + 1, Len(mqueue)) \in Seq(MailNumbers)
    BY <1>2, MailTypes
  <2> QED
    BY <1>1, <1>2, <2>2
<1>4. l \in Locals /\ l.mail = loc[s].mail /\ l.box = loc[s].box /\ l.todo = loc[s].todo
  <2>1. <<>> \in Seq(MailNumbers)
    OBVIOUS
  <2> QED
    BY <1>2, <2>1 DEF Locals
<1> HIDE DEF l
<1>5. "rcpt" \in Places \ {"ready"} /\ At(s, "rcpt", l)
  BY <1>2, <1>4 DEF Places, At, KvPlaces
<1> QED
  BY <1>1, <1>3, <1>4, <1>5, HandleStep, MailTypes

\* The primary dies, and what a session makes of it.
LEMMA DeathMail ==
  ASSUME MailInv,
         PrimaryDies \/ \E s \in Sessions : Hang(s) \/ SigPipe(s)
  PROVE  MailInv'
<1>1. CASE PrimaryDies
  <2>1. /\ UNCHANGED <<list, body, mqueue, up, state, rcpts, data, pc, loc, job, shown, mails, told>>
        /\ cut' = {s \in Sessions : pc[s] \in KvPlaces}
    BY <1>1 DEF PrimaryDies, sessionVars, pageVars, KvPlaces
  <2>2. MailType'
    BY <2>1 DEF MailInv, MailType
  <2> QED
    BY <2>1, <2>2 DEF MailInv, Numbered, Active, SessionOK, Serving, At, JobOK
<1>2. CASE \E s \in Sessions : SigPipe(s)
  <2>1. /\ UNCHANGED <<list, body, mqueue, state, rcpts, data, pc, loc, job, shown, mails, told, cut>>
        /\ up' = FALSE
    BY <1>2 DEF SigPipe, storeVars, sessionVars, pageVars
  <2>2. MailType'
    BY <2>1 DEF MailInv, MailType
  <2> QED
    BY <2>1, <2>2 DEF MailInv, Numbered, Active, SessionOK, Serving, At, JobOK
<1>3. ASSUME NEW s \in Sessions, Hang(s) PROVE MailInv'
  <2>1. /\ UNCHANGED <<list, body, mqueue, up, state, rcpts, data, loc, job, shown, mails, told>>
        /\ s \in cut /\ pc' = [pc EXCEPT ![s] = "stuck"] /\ cut' = cut \ {s}
    BY <1>3 DEF Hang, pageVars
  <2>2. pc[s] \in KvPlaces /\ "stuck" \in Places
    BY <2>1 DEF MailInv, MailType, Places
  <2>3. /\ pc' \in [Sessions -> Places] /\ pc'[s] = "stuck"
        /\ \A t \in Sessions \ {s} : pc'[t] = pc[t]
        /\ \A t \in cut \ {s} : pc'[t] \in KvPlaces
    BY <2>1, <2>2, NewPlace
  <2>4. MailType'
    BY <2>1, <2>3 DEF MailInv, MailType
  <2>5. SessionOK(s) /\ pc[s] # "ready"
    BY <2>2, SessionFacts DEF KvPlaces
  <2>6. SessionOK(s)'
    BY <2>1, <2>3, <2>5 DEF SessionOK, Serving, At, KvPlaces
  <2> QED
    BY <2>1, <2>3, <2>4, <2>5, <2>6, SessionStep DEF Active
<1> QED
  BY <1>1, <1>2, <1>3

-----------------------------------------------------------------------------
(* Pages *)

\* A step of one page.
LEMMA PageStep ==
  ASSUME MailInv, NEW p \in Pages, NEW j \in Jobs, job' = [job EXCEPT ![p] = j],
         UNCHANGED <<mqueue, up, state, rcpts, data, pc, loc, mails, cut>>,
         list' \in [Boxes -> Seq(Texts) \cup {None}],
         body' \in [Boxes -> [Texts -> 0 .. MaxMails \cup {None}]],
         shown' \subseteq Boxes \X Texts,
         told' \in Told, told'.given = told.given, told'.acked = told.acked,
         told.deleted \subseteq told'.deleted,
         j.do \in Deleting => <<j.box, j.hash>> \in told'.deleted
  PROVE  MailInv'
<1>1. /\ job' \in [Pages -> Jobs] /\ job'[p] = j
      /\ \A q \in Pages \ {p} : job'[q] = job[q]
  BY DEF MailInv, MailType
<1>2. MailType'
  BY <1>1 DEF MailInv, MailType
<1>3. \A s \in Sessions : SessionOK(s)'
  BY DEF MailInv, SessionOK, Serving, At
<1>4. Numbered'
  BY DEF MailInv, Numbered, Active
<1>5. \A q \in Pages : JobOK(q)'
  BY <1>1 DEF MailInv, JobOK
<1> QED
  BY <1>2, <1>3, <1>4, <1>5 DEF MailInv

LEMMA NoJobType == NoJob \in Jobs /\ NoJob.do = "idle"
<1>1. <<>> \in Seq(Texts)
  OBVIOUS
<1> QED
  BY <1>1 DEF NoJob, Jobs, Doings, Boxes

\* The user asks for a page.
LEMMA AskMail ==
  ASSUME MailInv, NEW p \in Pages, ShowMail(p) \/ DeleteMail(p)
  PROVE  MailInv'
<1>1. CASE ShowMail(p)
  <2> DEFINE j == [NoJob EXCEPT !.do = "showList"]
  <2>1. /\ UNCHANGED <<mqueue, up, state, rcpts, data, pc, loc, mails, cut, list, body, shown, told>>
        /\ job' = [job EXCEPT ![p] = j]
    BY <1>1 DEF ShowMail, AskPage, otherVars, sessionVars
  <2>2. j \in Jobs /\ j.do \notin Deleting
    <3>1. NoJob \in Jobs /\ "showList" \in Doings /\ "showList" \notin Deleting
      BY NoJobType DEF Doings, Deleting
    <3> QED
      BY <3>1 DEF Jobs
  <2> HIDE DEF j
  <2>3. shown \subseteq Boxes \X Texts
    BY DEF MailInv, MailType
  <2> QED
    BY <2>1, <2>2, <2>3, MailTypes, PageStep
<1>2. CASE DeleteMail(p)
  <2>0. shown \subseteq Boxes \X Texts
    BY DEF MailInv, MailType
  <2>1. PICK x \in shown : /\ AskPage(p, [NoJob EXCEPT !.do = "delGet", !.box = x[1], !.hash = x[2]])
                           /\ told' = [told EXCEPT !.deleted = @ \cup {x}]
    BY <1>2 DEF DeleteMail
  <2> DEFINE j == [NoJob EXCEPT !.do = "delGet", !.box = x[1], !.hash = x[2]]
  <2>2. /\ UNCHANGED <<mqueue, up, state, rcpts, data, pc, loc, mails, cut, list, body, shown>>
        /\ job' = [job EXCEPT ![p] = j]
    BY <2>1 DEF AskPage, otherVars, sessionVars
  <2>3. x \in Boxes \X Texts /\ x = <<x[1], x[2]>> /\ x[1] \in Boxes /\ x[2] \in Texts
    BY <2>0
  <2>4. j \in Jobs /\ j.box = x[1] /\ j.hash = x[2]
    <3>1. NoJob \in Jobs /\ "delGet" \in Doings
      BY NoJobType DEF Doings
    <3> QED
      BY <2>3, <3>1 DEF Jobs
  <2> HIDE DEF j
  <2>5. /\ told' \in Told /\ told'.given = told.given /\ told'.acked = told.acked
        /\ told.deleted \subseteq told'.deleted /\ x \in told'.deleted
    BY <2>1, <2>3, MailTypes DEF Told
  <2>6. j.do \in Deleting => <<j.box, j.hash>> \in told'.deleted
    BY <2>3, <2>4, <2>5
  <2>7. shown' \subseteq Boxes \X Texts
    BY <2>0, <2>2
  <2> QED
    BY <2>2, <2>4, <2>5, <2>6, <2>7, MailTypes, PageStep
<1> QED
  BY <1>1, <1>2

\* The record of a job that goes on.
LEMMA JobStep ==
  ASSUME MailInv, NEW p \in Pages, NEW do \in Doings, NEW l \in Seq(Texts), Job(p, do, l)
  PROVE  \E j \in Jobs : /\ job' = [job EXCEPT ![p] = j] /\ j.do = do /\ j.old = l
                        /\ j.box = job[p].box /\ j.hash = job[p].hash
<1> DEFINE j == [job[p] EXCEPT !.do = do, !.old = l]
<1>1. job[p] \in Jobs
  BY DEF MailInv, MailType
<1>2. j \in Jobs /\ j.do = do /\ j.old = l /\ j.box = job[p].box /\ j.hash = job[p].hash
  BY <1>1 DEF Jobs
<1>3. job' = [job EXCEPT ![p] = j]
  BY DEF Job
<1> HIDE DEF j
<1> QED
  BY <1>2, <1>3

LEMMA ShowMailPages ==
  ASSUME MailInv, NEW p \in Pages, ShowList(p) \/ ShowBody(p)
  PROVE  MailInv'
<1>0. /\ shown \subseteq Boxes \X Texts /\ NoJob \in Jobs /\ NoJob.do = "idle"
      /\ <<>> \in Seq(Texts) /\ "showList" \in Doings /\ "showBody" \in Doings /\ "dead" \in Doings
      /\ {"idle", "showList", "showBody", "dead"} \cap Deleting = {}
  BY DEF MailInv, MailType, NoJob, Jobs, Doings, Boxes, Deleting
<1>1. UNCHANGED <<mqueue, up, state, rcpts, data, pc, loc, mails, cut, list, body, told>>
  BY DEF ShowList, ShowBody, otherVars, sessionVars
<1>2. job[p].box \in Boxes /\ job[p].old \in Seq(Texts) /\ list[job[p].box] \in Seq(Texts) \cup {None}
  BY JobFacts, MailTypes
<1>3. CASE ShowList(p)
  <2>1. PICK l \in Seq(Texts) : Job(p, "showBody", l) /\ shown' = shown
    BY <1>0, <1>2, <1>3 DEF ShowList
  <2>2. PICK j \in Jobs : job' = [job EXCEPT ![p] = j] /\ j.do = "showBody"
    BY <1>0, <2>1, JobStep
  <2> QED
    BY <1>0, <1>1, <2>1, <2>2, MailTypes, PageStep
<1>4. CASE ShowBody(p)
  <2> DEFINE b == job[p].box
             l == job[p].old
  <2>1. CASE l # <<>> /\ shown' = shown \cup {<<b, Head(l)>>} /\ Job(p, "showBody", Tail(l))
    <3>1. Head(l) \in Texts /\ Tail(l) \in Seq(Texts)
      BY <1>2, <2>1
    <3> HIDE DEF b, l
    <3>2. shown' \subseteq Boxes \X Texts
      BY <1>0, <1>2, <2>1, <3>1 DEF b
    <3>3. PICK j \in Jobs : job' = [job EXCEPT ![p] = j] /\ j.do = "showBody"
      <4>1. PICK k \in Seq(Texts) : Job(p, "showBody", k)
        BY <2>1, <3>1
      <4> QED
        BY <1>0, <4>1, JobStep
    <3> QED
      BY <1>0, <1>1, <3>2, <3>3, MailTypes, PageStep
  <2>2. CASE Job(p, "dead", l) /\ shown' = shown
    <3>1. PICK j \in Jobs : job' = [job EXCEPT ![p] = j] /\ j.do = "dead"
      BY <1>0, <1>2, <2>2, JobStep
    <3> QED
      BY <1>0, <1>1, <2>2, <3>1, MailTypes, PageStep
  <2>3. CASE /\ job' = [job EXCEPT ![p] = IF b = "inbox" THEN [NoJob EXCEPT !.do = "showList", !.box = "outbox"]
                                                         ELSE NoJob]
             /\ shown' = shown
    <3> DEFINE j == IF b = "inbox" THEN [NoJob EXCEPT !.do = "showList", !.box = "outbox"] ELSE NoJob
    <3>1. j \in Jobs /\ j.do \notin Deleting
      BY <1>0 DEF NoJob, Jobs, Doings, Boxes, Deleting
    <3>2. job' = [job EXCEPT ![p] = j]
      BY <2>3
    <3> HIDE DEF j
    <3> QED
      BY <1>0, <1>1, <2>3, <3>1, <3>2, MailTypes, PageStep
  <2> QED
    BY <1>4, <2>1, <2>2, <2>3 DEF ShowBody
<1> QED
  BY <1>3, <1>4

LEMMA DeletePages ==
  ASSUME MailInv, NEW p \in Pages, DelGet(p) \/ DelList(p) \/ DelCput(p) \/ DelBody(p)
  PROVE  MailInv'
<1>0. /\ shown' \subseteq Boxes \X Texts /\ NoJob \in Jobs /\ NoJob.do = "idle" /\ "idle" \notin Deleting
      /\ <<>> \in Seq(Texts) /\ {"delGet", "delList", "delCput", "delBody"} \subseteq Doings
  <2>1. shown' = shown
    BY DEF DelGet, DelList, DelCput, DelBody
  <2> QED
    BY <2>1 DEF MailInv, MailType, NoJob, Jobs, Doings, Boxes, Deleting
<1>1. UNCHANGED <<mqueue, up, state, rcpts, data, pc, loc, mails, cut>>
  BY DEF DelGet, DelList, DelCput, DelBody, otherVars, sessionVars
<1> DEFINE b == job[p].box
           x == job[p].hash
<1>2. /\ b \in Boxes /\ x \in Texts /\ list[b] \in Seq(Texts) \cup {None}
      /\ <<b, x>> \in told.deleted /\ job[p].old \in Seq(Texts)
  <2>1. job[p].do \in Deleting
    BY DEF DelGet, DelList, DelCput, DelBody, PageAt, Deleting
  <2> QED
    BY <2>1, JobFacts, MailTypes DEF JobOK
<1>3. CASE DelGet(p)
  <2>1. PICK do \in {"delList", "delCput"} : Job(p, do, list[b]) /\ list[b] \in Seq(Texts)
    BY <1>2, <1>3 DEF DelGet
  <2>2. UNCHANGED <<list, body, told>> /\ do \in Doings
    BY <1>0, <1>3 DEF DelGet
  <2> HIDE DEF b
  <2>3. PICK j \in Jobs : job' = [job EXCEPT ![p] = j] /\ j.box = b /\ j.hash = x
    BY <2>1, <2>2, JobStep DEF b
  <2> QED
    BY <1>0, <1>1, <1>2, <2>2, <2>3, MailTypes, PageStep
<1>4. CASE DelList(p)
  <2>1. /\ list' = [list EXCEPT ![b] = None] /\ Job(p, "delBody", <<>>) /\ body' = body
        /\ told' = [told EXCEPT !.wiped = @ \cup
             (IF list[b] = None THEN {} ELSE {<<b, h>> : h \in Range(list[b]) \ {x}})]
    BY <1>4 DEF DelList
  <2> HIDE DEF b, x
  <2>2. (IF list[b] = None THEN {} ELSE {<<b, h>> : h \in Range(list[b]) \ {x}}) \subseteq Boxes \X Texts
    <3>1. list[b] # None => Range(list[b]) \subseteq Texts
      BY <1>2 DEF Range
    <3> QED
      BY <1>2, <3>1
  <2>3. /\ told' \in Told /\ told'.given = told.given /\ told'.acked = told.acked
        /\ told'.deleted = told.deleted
    BY <2>1, <2>2, MailTypes DEF Told
  <2>4. list' \in [Boxes -> Seq(Texts) \cup {None}]
    BY <1>2, <2>1, MailTypes
  <2>5. PICK j \in Jobs : job' = [job EXCEPT ![p] = j] /\ j.box = b /\ j.hash = x
    BY <1>0, <2>1, JobStep DEF b, x
  <2> QED
    BY <1>0, <1>1, <1>2, <2>1, <2>3, <2>4, <2>5, MailTypes, PageStep
<1>5. CASE DelCput(p)
  <2>1. /\ \/ Job(p, "delBody", <<>>)
           \/ Job(p, "delGet", <<>>)
        /\ list' = [list EXCEPT ![b] = Without(job[p].old, x)] \/ list' = list
        /\ UNCHANGED <<body, told>>
    BY <1>5 DEF DelCput
  <2>2. Without(job[p].old, x) \in Seq(Texts)
    BY <1>2, WithoutRange
  <2> HIDE DEF b, x
  <2>3. list' \in [Boxes -> Seq(Texts) \cup {None}]
    BY <1>2, <2>1, <2>2, MailTypes
  <2>4. PICK j \in Jobs : job' = [job EXCEPT ![p] = j] /\ j.box = b /\ j.hash = x
    BY <1>0, <2>1, JobStep DEF b, x
  <2> QED
    BY <1>0, <1>1, <1>2, <2>1, <2>3, <2>4, MailTypes, PageStep
<1>6. CASE DelBody(p)
  <2>1. /\ body' = [body EXCEPT ![b][x] = None] /\ job' = [job EXCEPT ![p] = NoJob]
        /\ UNCHANGED <<list, told>>
    BY <1>6 DEF DelBody
  <2>2. body' \in [Boxes -> [Texts -> 0 .. MaxMails \cup {None}]]
    BY <1>2, <2>1, MailTypes
  <2> QED
    BY <1>0, <1>1, <2>1, <2>2, MailTypes, PageStep
<1> QED
  BY <1>3, <1>4, <1>5, <1>6

\* What a page makes of the death of its primary.
LEMMA CutOffStep ==
  ASSUME MailInv, NEW p \in Pages, HangPage(p) \/ PipePage(p)
  PROVE  /\ UNCHANGED <<mqueue, up, state, rcpts, data, pc, loc, mails, cut, list, body, shown, told>>
         /\ p \in cutPages /\ cutPages' = cutPages \ {p}
         /\ \E j \in Jobs : job' = [job EXCEPT ![p] = j] /\ j.do \in {"stuck", "dead"}
<1>1. PICK do \in {"stuck", "dead"} : CutOff(p, do)
  BY DEF HangPage, PipePage
<1>2. UNCHANGED <<mqueue, up, state, rcpts, data, pc, loc, mails, cut, list, body, shown, told>>
  BY <1>1 DEF CutOff, sessionVars
<1> DEFINE j == [job[p] EXCEPT !.do = do]
<1>3. job' = [job EXCEPT ![p] = j]
  BY <1>1 DEF CutOff
<1>4. j \in Jobs /\ j.do = do
  BY JobFacts DEF MailInv, MailType, Jobs, Doings
<1> HIDE DEF j
<1> QED
  BY <1>1, <1>2, <1>3, <1>4 DEF CutOff

LEMMA CutOffPages ==
  ASSUME MailInv, NEW p \in Pages, HangPage(p) \/ PipePage(p)
  PROVE  MailInv'
<1>1. UNCHANGED <<mqueue, up, state, rcpts, data, pc, loc, mails, cut, list, body, shown, told>>
  BY CutOffStep
<1>2. PICK j \in Jobs : job' = [job EXCEPT ![p] = j] /\ j.do \in {"stuck", "dead"}
  BY CutOffStep
<1>3. shown' \subseteq Boxes \X Texts
  BY <1>1 DEF MailInv, MailType
<1> QED
  BY <1>1, <1>2, <1>3, MailTypes, PageStep DEF Deleting

LEMMA NextMail == MailInv /\ [Next]_vars => MailInv'
<1> SUFFICES ASSUME MailInv, [Next]_vars PROVE MailInv'
  OBVIOUS
<1>1. ASSUME NEW s \in Sessions, Converse(s) PROVE MailInv'
  BY <1>1, ConverseMail, RcptToMail, MailFromMail, DataEndMail DEF Converse
<1>2. ASSUME NEW s \in Sessions, Deliver(s) PROVE MailInv'
  BY <1>2, ListGetMail, ListInitMail, ListCputMail, BodyPutMail, NextRcptMail, QueueMailMail,
     ReadMqueueMail, HandleForwardMail, HangRelayMail, TruncMqueueMail, WriteMqueueMail, DeathMail DEF Deliver
<1>3. ASSUME NEW p \in Pages, ShowMail(p) \/ DeleteMail(p) \/ Serve(p) PROVE MailInv'
  BY <1>3, AskMail, ShowMailPages, DeletePages, CutOffPages DEF Serve
<1>4. CASE PrimaryDies
  BY <1>4, DeathMail
<1>5. CASE UNCHANGED vars
  <2>1. UNCHANGED <<list, body, mqueue, up, state, rcpts, data, pc, loc, job, shown, mails, told, cut>>
    BY <1>5 DEF vars, sessionVars, pageVars
  <2>2. MailType'
    BY <2>1 DEF MailInv, MailType
  <2> QED
    BY <2>1, <2>2 DEF MailInv, Numbered, Active, SessionOK, Serving, At, JobOK
<1> QED
  BY <1>1, <1>2, <1>3, <1>4, <1>5 DEF Next

\* The mail service keeps its types and the roles of its sessions: what a
\* session has in its hands while handle_data answers a dot.
THEOREM MailRoles == Spec => []MailInv
<1> QED
  BY InitMail, NextMail, PTL DEF Spec

\* A page that is cut off from a dead primary is at work.
Working == {p \in Pages : job[p].do \notin {"idle", "stuck", "dead"}}
CutInv == cutPages \subseteq Working

LEMMA NextCut == MailInv /\ CutInv /\ [Next]_vars => CutInv'
<1> SUFFICES ASSUME MailInv, CutInv, [Next]_vars PROVE CutInv'
  OBVIOUS
<1>0. job \in [Pages -> Jobs]
  BY DEF MailInv, MailType
<1>1. ASSUME job' = job, cutPages' = cutPages PROVE CutInv'
  BY <1>1 DEF CutInv, Working
<1>2. ASSUME NEW p \in Pages \ cutPages, NEW j, job' = [job EXCEPT ![p] = j], cutPages' = cutPages
      PROVE  CutInv'
  BY <1>0, <1>2 DEF CutInv, Working
<1>3. ASSUME NEW s \in Sessions, Converse(s) \/ Deliver(s) PROVE job' = job /\ cutPages' = cutPages
  BY <1>3 DEF Converse, Deliver, Helo, MailFrom, RcptTo, DataStart, DataLine, DataEnd, Rset, Quit,
         ListGet, ListInit, ListCput, BodyPut, NextRcpt, QueueMail, ReadMqueue, HandleForward, HangRelay,
         TruncMqueue, WriteMqueue, Hang, SigPipe, From, pageVars
<1>4. ASSUME NEW p \in Pages, ShowMail(p) \/ DeleteMail(p)
      PROVE  p \notin cutPages /\ cutPages' = cutPages /\ \E j : job' = [job EXCEPT ![p] = j]
  BY <1>4 DEF ShowMail, DeleteMail, AskPage, otherVars, CutInv, Working
<1>5. ASSUME NEW p \in Pages, Serve(p), ~HangPage(p), ~PipePage(p)
      PROVE  p \notin cutPages /\ cutPages' = cutPages /\ \E j : job' = [job EXCEPT ![p] = j]
  <2>1. CASE ShowList(p) \/ ShowBody(p)
    BY <2>1 DEF ShowList, ShowBody, PageAt, Job, otherVars
  <2>2. CASE DelGet(p) \/ DelList(p) \/ DelCput(p) \/ DelBody(p)
    BY <2>2 DEF DelGet, DelList, DelCput, DelBody, PageAt, Job, otherVars
  <2> QED
    BY <1>5, <2>1, <2>2 DEF Serve
<1>6. ASSUME NEW p \in Pages, HangPage(p) \/ PipePage(p) PROVE CutInv'
  <2>1. PICK j \in Jobs : job' = [job EXCEPT ![p] = j]
    BY <1>6, CutOffStep
  <2>2. cutPages' = cutPages \ {p}
    BY <1>6, CutOffStep
  <2> QED
    BY <1>0, <2>1, <2>2 DEF CutInv, Working
<1>7. CASE PrimaryDies
  <2>1. job' = job
    BY <1>7 DEF PrimaryDies
  <2> QED
    BY <1>7, <2>1 DEF PrimaryDies, CutInv, Working
<1>8. UNCHANGED vars => job' = job /\ cutPages' = cutPages
  BY DEF vars, pageVars
<1> QED
  BY <1>1, <1>2, <1>3, <1>4, <1>5, <1>6, <1>7, <1>8 DEF Next

\* Every variable of the mail service keeps its type, and only a session or a
\* page that talks to the store can have been cut off from it.
THEOREM MailTypeCorrect == Spec => []TypeOK
<1>1. ASSUME MailInv, CutInv PROVE TypeOK
  <2>1. \A b \in Boxes : list[b] = None \/ Range(list[b]) \subseteq Texts
    BY <1>1, MailTypes DEF Range
  <2>2. Range(mqueue) \subseteq 1 .. MaxMails
    <3>1. mqueue \in Seq(MailNumbers)
      BY <1>1, MailTypes
    <3>2. \A i \in DOMAIN mqueue : mqueue[i] \in MailNumbers
      BY <3>1
    <3> QED
      BY <3>2 DEF Range, MailNumbers
  <2> QED
    BY <1>1, <2>1, <2>2 DEF MailInv, MailType, TypeOK, CutInv, Working
<1>2. Init => CutInv
  BY DEF Init, CutInv
<1> QED
  BY <1>1, <1>2, MailRoles, NextCut, PTL DEF Spec

-----------------------------------------------------------------------------
(* What a step leaves alone *)

LEMMA SessionOnly ==
  ASSUME MailInv, NEW s \in Sessions, Converse(s) \/ Deliver(s)
  PROVE  Only(s) /\ job' = job
<1>0. /\ state \in [Sessions -> 0 .. 6] /\ rcpts \in [Sessions -> SUBSET Rcpts]
      /\ data \in [Sessions -> Texts \cup {None}] /\ pc \in [Sessions -> Places]
      /\ loc \in [Sessions -> Locals] /\ told.given \in [Sessions -> SUBSET Rcpts]
  BY DEF MailInv, MailType, Told
<1>1. job' = job
  BY DEF Converse, Deliver, Helo, MailFrom, RcptTo, DataStart, DataLine, DataEnd, Rset, Quit,
         ListGet, ListInit, ListCput, BodyPut, NextRcpt, QueueMail, ReadMqueue, HandleForward, HangRelay,
         TruncMqueue, WriteMqueue, Hang, SigPipe, From, pageVars
<1>2. \A t \in Sessions \ {s} : told'.given[t] = told.given[t]
  <2>1. CASE MailFrom(s) \/ RcptTo(s)
    BY <1>0, <2>1, MailTypes DEF MailFrom, RcptTo, Told
  <2>2. CASE ListInit(s) \/ NextRcpt(s) \/ QueueMail(s) \/ ReadMqueue(s) \/ HandleForward(s)
    BY <2>2, MailTypes DEF ListInit, NextRcpt, QueueMail, ReadMqueue, HandleForward, Told
  <2>4. CASE HangRelay(s)
    BY <2>4, HangRelayFacts
  <2>3. CASE told' = told
    BY <2>3
  <2> QED
    BY <2>1, <2>2, <2>3, <2>4 DEF Converse, Deliver, Helo, DataStart, DataLine, DataEnd, Rset, Quit,
       ListGet, ListCput, BodyPut, TruncMqueue, WriteMqueue, Hang, SigPipe
<1>3. \A t \in Sessions \ {s} : state'[t] = state[t] /\ rcpts'[t] = rcpts[t] /\ data'[t] = data[t]
  <2>1. CASE Converse(s)
    BY <1>0, <2>1 DEF Converse, Helo, MailFrom, RcptTo, DataStart, DataLine, DataEnd, Rset, Quit
  <2>2. CASE Deliver(s)
    BY <1>0, <2>2 DEF Deliver, ListGet, ListInit, ListCput, BodyPut, NextRcpt, QueueMail, ReadMqueue,
       HandleForward, HangRelay, TruncMqueue, WriteMqueue, Hang, SigPipe, From, sessionVars
  <2> QED
    BY <2>1, <2>2
<1>4. \A t \in Sessions \ {s} : pc'[t] = pc[t] /\ loc'[t] = loc[t]
  <2>1. CASE Converse(s)
    BY <1>0, <2>1 DEF Converse, Helo, MailFrom, RcptTo, DataStart, DataLine, DataEnd, Rset, Quit
  <2>2. CASE ListGet(s) \/ ListInit(s) \/ ListCput(s) \/ BodyPut(s) \/ NextRcpt(s) \/ QueueMail(s)
    BY <1>0, <2>2 DEF ListGet, ListInit, ListCput, BodyPut, NextRcpt, QueueMail, To
  <2>3. CASE \/ ReadMqueue(s) \/ HandleForward(s) \/ HangRelay(s) \/ TruncMqueue(s) \/ WriteMqueue(s)
             \/ Hang(s) \/ SigPipe(s)
    BY <1>0, <2>3 DEF ReadMqueue, HandleForward, HangRelay, TruncMqueue, WriteMqueue, Hang, SigPipe, To, sessionVars
  <2> QED
    BY <2>1, <2>2, <2>3 DEF Deliver
<1> QED
  BY <1>1, <1>2, <1>3, <1>4 DEF Only

\* A page changes nothing of the sessions and of the queue.
LEMMA PageOnly ==
  ASSUME MailInv, NEW p \in Pages, ShowMail(p) \/ DeleteMail(p) \/ Serve(p)
  PROVE  /\ UNCHANGED <<mqueue, up, state, rcpts, data, pc, loc>>
         /\ told'.given = told.given /\ told'.acked = told.acked
         /\ told'.sent = told.sent /\ told'.refused = told.refused
         /\ told'.unfinished = told.unfinished /\ told'.overlap = told.overlap
<1>1. UNCHANGED <<mqueue, up, state, rcpts, data, pc, loc>>
  BY DEF ShowMail, DeleteMail, AskPage, Serve, ShowList, ShowBody, DelGet, DelList, DelCput, DelBody,
         HangPage, PipePage, CutOff, otherVars, sessionVars
<1>2. told' = told \/ \E T : told' = [told EXCEPT !.deleted = T] \/ told' = [told EXCEPT !.wiped = T]
  BY DEF ShowMail, DeleteMail, AskPage, Serve, ShowList, ShowBody, DelGet, DelList, DelCput, DelBody,
         HangPage, PipePage, CutOff
<1> QED
  BY <1>1, <1>2, MailTypes DEF Told

\* The steps that change neither a list nor a body, and nothing of what was
\* wiped; each of the others is a lemma of its own.
StoreStep == \/ \E s \in Sessions : ListInit(s) \/ ListCput(s) \/ BodyPut(s)
             \/ \E p \in Pages : DelList(p) \/ DelCput(p) \/ DelBody(p)

LEMMA OtherSteps ==
  ASSUME MailInv, [Next]_vars, ~StoreStep
  PROVE  /\ UNCHANGED <<list, body>>
         /\ told'.wiped = told.wiped /\ told.deleted \subseteq told'.deleted
<1>1. ASSUME NEW s \in Sessions, Converse(s)
      PROVE  UNCHANGED <<list, body>> /\ told'.wiped = told.wiped /\ told'.deleted = told.deleted
  BY <1>1, MailTypes DEF Converse, Helo, MailFrom, RcptTo, DataStart, DataLine, DataEnd, Rset, Quit, storeVars, Told
<1>2. ASSUME NEW s \in Sessions, Deliver(s)
      PROVE  UNCHANGED <<list, body>> /\ told'.wiped = told.wiped /\ told'.deleted = told.deleted
  <2>1. CASE ListGet(s) \/ TruncMqueue(s) \/ WriteMqueue(s) \/ Hang(s) \/ SigPipe(s)
    BY <2>1 DEF ListGet, TruncMqueue, WriteMqueue, Hang, SigPipe, storeVars
  <2>2. CASE NextRcpt(s) \/ QueueMail(s) \/ ReadMqueue(s) \/ HandleForward(s)
    <3>1. UNCHANGED <<list, body>>
      BY <2>2 DEF NextRcpt, QueueMail, ReadMqueue, HandleForward
    <3>2. told' = told \/ \E T : \/ told' = [told EXCEPT !.acked = T] \/ told' = [told EXCEPT !.overlap = T]
                                 \/ told' = [told EXCEPT !.sent = T] \/ told' = [told EXCEPT !.refused = T]
      BY <2>2 DEF NextRcpt, QueueMail, ReadMqueue, HandleForward
    <3> QED
      BY <3>1, <3>2, MailTypes DEF Told
  <2>3. CASE HangRelay(s)
    BY <2>3, HangRelayFacts
  <2> QED
    BY <1>2, <2>1, <2>2, <2>3 DEF Deliver, StoreStep
<1>3. ASSUME NEW p \in Pages, ShowMail(p) \/ DeleteMail(p) \/ Serve(p)
      PROVE  UNCHANGED <<list, body>> /\ told'.wiped = told.wiped /\ told.deleted \subseteq told'.deleted
  <2>1. CASE ShowMail(p) \/ ShowList(p) \/ ShowBody(p) \/ DelGet(p)
    BY <2>1 DEF ShowMail, AskPage, ShowList, ShowBody, DelGet
  <2>2. CASE DeleteMail(p)
    BY <2>2, MailTypes DEF DeleteMail, AskPage, Told
  <2>3. CASE HangPage(p) \/ PipePage(p)
    BY <2>3, CutOffStep
  <2> QED
    BY <1>3, <2>1, <2>2, <2>3 DEF Serve, StoreStep
<1>4. CASE PrimaryDies \/ UNCHANGED vars
  BY <1>4 DEF PrimaryDies, vars
<1> QED
  BY <1>1, <1>2, <1>3, <1>4 DEF Next

-----------------------------------------------------------------------------
(* Mail stays where it is *)

\* The facts of which Listed, InBox and Known are made outlive a step.
Keeps(b, h) ==
  /\ Excused(b, h) => Excused(b, h)'
  /\ list[b] # None /\ h \in Range(list[b]) => Excused(b, h)' \/ (list'[b] # None /\ h \in Range(list'[b]))
  /\ body[b][h] # None => <<b, h>> \in told'.deleted \/ body'[b][h] # None
  /\ <<b, h>> \in told.deleted => <<b, h>> \in told'.deleted

LEMMA DeliverKeeps ==
  ASSUME MailInv, NEW s \in Sessions, ListInit(s) \/ ListCput(s) \/ BodyPut(s),
         NEW b \in Boxes, NEW h \in Texts
  PROVE  Keeps(b, h)
<1> DEFINE c == loc[s].box
<1>0. c \in Boxes /\ loc[s].mail \in 0 .. MaxMails /\ list[b] \in Seq(Texts) \cup {None}
  BY SessionFacts, MailTypes
<1>1. CASE ListInit(s)
  <2>1. /\ list' = [list EXCEPT ![c] = <<>>] /\ body' = body
        /\ told' = [told EXCEPT !.wiped = @ \cup (IF list[c] = None THEN {} ELSE {<<c, g>> : g \in Range(list[c])})]
    BY <1>1 DEF ListInit
  <2> HIDE DEF c
  <2>2. /\ told'.deleted = told.deleted
        /\ told'.wiped = told.wiped \cup (IF list[c] = None THEN {} ELSE {<<c, g>> : g \in Range(list[c])})
    BY <2>1, MailTypes DEF Told
  <2>3. Excused(b, h) => Excused(b, h)'
    BY <2>2 DEF Excused
  <2>4. b = c /\ list[b] # None /\ h \in Range(list[b]) => Excused(b, h)'
    BY <2>2 DEF Excused
  <2>5. b # c => list'[b] = list[b]
    BY <2>1, MailTypes
  <2> QED
    BY <2>1, <2>3, <2>4, <2>5 DEF Keeps
<1>2. CASE ListCput(s)
  <2>1. body' = body /\ told' = told
    BY <1>2 DEF ListCput
  <2>3. list'[b] = list[b] \/ (b = c /\ list'[b] # None /\ Range(list[b]) \subseteq Range(list'[b]))
    <3>1. CASE list[c] # loc[s].old
      BY <1>2, <3>1, ListCputMail
    <3>2. CASE list[c] = loc[s].old
      <4>1. /\ list' = [list EXCEPT ![c] = <<data[s]>> \o Without(loc[s].old, data[s])]
            /\ Range(list'[c]) = Range(list[c]) \cup {data[s]} /\ MailInv'
        BY <1>2, <3>2, ListCputMail
      <4>2. list'[c] # None
        <5>1. loc[s].old \in Seq(Texts) /\ data[s] \in Texts
          BY <1>2, SessionFacts, HandleFacts DEF ListCput
        <5>2. Without(loc[s].old, data[s]) \in Seq(Texts)
          BY <5>1, WithoutRange
        <5>3. <<data[s]>> \o Without(loc[s].old, data[s]) \in Seq(Texts)
          BY <5>1, <5>2
        <5>4. list'[c] = <<data[s]>> \o Without(loc[s].old, data[s])
          BY <1>0, <4>1, MailTypes
        <5> QED
          BY <5>3, <5>4, MailAssumption
      <4>3. b # c => list'[b] = list[b]
        BY <4>1, MailTypes
      <4> QED
        BY <4>1, <4>2, <4>3
    <3> QED
      BY <3>1, <3>2
  <2>4. Excused(b, h)' <=> Excused(b, h)
    BY <2>1 DEF Excused
  <2> QED
    BY <2>1, <2>3, <2>4 DEF Keeps
<1>3. CASE BodyPut(s)
  <2>1. list' = list /\ told' = told /\ body' = [body EXCEPT ![c][data[s]] = loc[s].mail]
    BY <1>3 DEF BodyPut
  <2>2. loc[s].mail # None
    BY <1>0, MailAssumption
  <2>3. body[b][h] # None => body'[b][h] # None
    BY <1>0, <2>1, <2>2, MailTypes
  <2>4. Excused(b, h)' <=> Excused(b, h)
    BY <2>1 DEF Excused
  <2> QED
    BY <2>1, <2>3, <2>4 DEF Keeps
<1> QED
  BY <1>1, <1>2, <1>3

LEMMA DeleteKeeps ==
  ASSUME MailInv, NEW p \in Pages, DelList(p) \/ DelCput(p) \/ DelBody(p),
         NEW b \in Boxes, NEW h \in Texts
  PROVE  Keeps(b, h)
<1> DEFINE c == job[p].box
           x == job[p].hash
<1>0. /\ c \in Boxes /\ x \in Texts /\ list[b] \in Seq(Texts) \cup {None}
      /\ <<c, x>> \in told.deleted /\ job[p].old \in Seq(Texts)
  <2>1. job[p].do \in Deleting
    BY DEF DelList, DelCput, DelBody, Deleting, PageAt
  <2> QED
    BY <2>1, JobFacts, MailTypes DEF JobOK
<1>1. CASE DelList(p)
  <2>1. /\ list' = [list EXCEPT ![c] = None] /\ body' = body
        /\ told' = [told EXCEPT !.wiped = @ \cup
                      (IF list[c] = None THEN {} ELSE {<<c, g>> : g \in Range(list[c]) \ {x}})]
    BY <1>1 DEF DelList
  <2> HIDE DEF c, x
  <2>2. /\ told'.deleted = told.deleted
        /\ told'.wiped = told.wiped \cup
             (IF list[c] = None THEN {} ELSE {<<c, g>> : g \in Range(list[c]) \ {x}})
    BY <2>1, MailTypes DEF Told
  <2>3. Excused(b, h) => Excused(b, h)'
    BY <2>2 DEF Excused
  <2>4. b = c /\ list[b] # None /\ h \in Range(list[b]) => Excused(b, h)'
    BY <1>0, <2>2 DEF Excused
  <2>5. b # c => list'[b] = list[b]
    BY <2>1, MailTypes
  <2> QED
    BY <2>1, <2>3, <2>4, <2>5 DEF Keeps
<1>2. CASE DelCput(p)
  <2>1. /\ body' = body /\ told' = told
        /\ \/ list' = list
           \/ list' = [list EXCEPT ![c] = Without(job[p].old, x)] /\ list[c] = job[p].old
    BY <1>2 DEF DelCput
  <2> HIDE DEF c, x
  <2>2. Excused(b, h) => Excused(b, h)'
    BY <2>1 DEF Excused
  <2>3. PICK w \in Seq(Texts) : w = Without(job[p].old, x) /\ Range(w) = Range(job[p].old) \ {x}
    BY <1>0, WithoutRange
  <2>4. list'[b] = list[b] \/ (b = c /\ list'[b] = w /\ list[b] = job[p].old)
    BY <1>0, <2>1, <2>3, MailTypes
  <2>5. b = c /\ h = x => Excused(b, h)'
    BY <1>0, <2>1 DEF Excused
  <2> QED
    BY <2>1, <2>2, <2>3, <2>4, <2>5, MailAssumption DEF Keeps
<1>3. CASE DelBody(p)
  <2>1. list' = list /\ told' = told /\ body' = [body EXCEPT ![c][x] = None]
    BY <1>3 DEF DelBody
  <2> HIDE DEF c, x
  <2>2. body'[b][h] = body[b][h] \/ (b = c /\ h = x)
    BY <1>0, <2>1, MailTypes
  <2>3. b = c /\ h = x => <<b, h>> \in told'.deleted
    BY <1>0, <2>1
  <2>4. Excused(b, h) => Excused(b, h)'
    BY <2>1 DEF Excused
  <2> QED
    BY <2>1, <2>2, <2>3, <2>4 DEF Keeps
<1> QED
  BY <1>1, <1>2, <1>3

LEMMA StaysInBox ==
  ASSUME MailInv, [Next]_vars, NEW b \in Boxes, NEW h \in Texts
  PROVE  /\ Listed(b, h) => Listed(b, h)'
         /\ InBox(b, h) => InBox(b, h)'
         /\ Keeps(b, h)
<1>1. Keeps(b, h)
  <2>1. CASE StoreStep
    BY <2>1, DeliverKeeps, DeleteKeeps DEF StoreStep
  <2>2. CASE ~StoreStep
    <3>1. UNCHANGED <<list, body>> /\ told'.wiped = told.wiped /\ told.deleted \subseteq told'.deleted
      BY <2>2, OtherSteps
    <3> QED
      BY <3>1 DEF Keeps, Excused
  <2> QED
    BY <2>1, <2>2
<1> QED
  BY <1>1 DEF Keeps, Listed, InBox, Excused

-----------------------------------------------------------------------------
(* What has been delivered is kept *)

\* A session has been through the outbox; it has been through the inbox.
Filed(s) == pc[s] \notin Lost /\ (pc[s] \in KvPlaces => loc[s].box = "inbox")
Filled(s) == pc[s] \notin Lost \cup KvPlaces /\ "local" \in rcpts[s] \ loc[s].todo

\* A session that does not come to a new place of these keeps what it delivered.
LEMMA DeliveryStays ==
  ASSUME MailInv, [Next]_vars, NEW s \in Sessions, DeliveryOK(s),
         pc[s] # "ready" => data'[s] = data[s],
         pc'[s] = "bodyPut" => pc[s] = "bodyPut" /\ loc'[s].box = loc[s].box,
         Filed(s)' => Filed(s), Filled(s)' => Filled(s)
  PROVE  DeliveryOK(s)'
<1>1. pc[s] # "ready" => data[s] \in Texts
  BY SessionFacts DEF SessionOK, Serving
<1>2. PICK c, h : c = loc[s].box /\ h = data[s]
  OBVIOUS
<1>3. c \in Boxes /\ "outbox" \in Boxes /\ "inbox" \in Boxes
  BY <1>2, SessionFacts DEF Boxes
<1>4. pc'[s] = "bodyPut" => Listed(c, h)' /\ loc'[s].box = c /\ data'[s] = h
  <2>1. ASSUME pc'[s] = "bodyPut" PROVE h \in Texts /\ Listed(c, h)
    BY <1>1, <1>2, <2>1 DEF DeliveryOK
  <2> QED
    BY <1>2, <1>3, <2>1, StaysInBox
<1>5. Filed(s)' => InBox("outbox", h)' /\ data'[s] = h
  <2>1. ASSUME Filed(s) PROVE pc[s] # "ready" /\ h \in Texts /\ InBox("outbox", h)
    BY <1>1, <1>2, <2>1 DEF DeliveryOK, Filed, Lost
  <2> QED
    BY <1>2, <1>3, <2>1, StaysInBox
<1>6. Filled(s)' => InBox("inbox", h)' /\ data'[s] = h
  <2>1. ASSUME Filled(s) PROVE pc[s] # "ready" /\ h \in Texts /\ InBox("inbox", h)
    BY <1>1, <1>2, <2>1 DEF DeliveryOK, Filled, Lost
  <2> QED
    BY <1>2, <1>3, <2>1, StaysInBox
<1> QED
  BY <1>4, <1>5, <1>6 DEF DeliveryOK, Filed, Filled

LEMMA ConverseDelivery ==
  ASSUME MailInv, [Next]_vars, NEW s \in Sessions, DeliveryOK(s), Converse(s)
  PROVE  DeliveryOK(s)'
<1>1. pc[s] = "ready" /\ loc[s].box = "outbox"
  BY SessionFacts DEF Converse, Helo, MailFrom, RcptTo, DataStart, DataLine, DataEnd, Rset, Quit,
     Command, Ready, SessionOK
<1>2. pc'[s] = "ready" \/ (pc'[s] = "listGet" /\ loc'[s].box = "outbox")
  <2>1. CASE DataEnd(s)
    <3>1. UNCHANGED pc \/ (pc' = [pc EXCEPT ![s] = "listGet"] /\ loc' = [loc EXCEPT ![s].todo = rcpts[s]])
      BY <2>1 DEF DataEnd
    <3>2. pc \in [Sessions -> Places] /\ loc \in [Sessions -> Locals] /\ loc[s] \in Locals
      BY DEF MailInv, MailType
    <3>3. loc' = [loc EXCEPT ![s].todo = rcpts[s]] => loc'[s].box = loc[s].box
      BY <3>2 DEF Locals
    <3> QED
      BY <1>1, <3>1, <3>2, <3>3
  <2>2. CASE pc' = pc
    BY <1>1, <2>2
  <2> QED
    BY <2>1, <2>2 DEF Converse, Helo, MailFrom, RcptTo, DataStart, DataLine, Rset, Quit
<1> QED
  BY <1>2 DEF DeliveryOK, Lost, KvPlaces

\* The steps that change a list or a body.
LEMMA StoreDelivery ==
  ASSUME MailInv, [Next]_vars, NEW s \in Sessions, DeliveryOK(s),
         ListGet(s) \/ ListInit(s) \/ ListCput(s) \/ BodyPut(s)
  PROVE  DeliveryOK(s)'
<1>9. PICK c, h : c = loc[s].box /\ h = data[s]
  OBVIOUS
<1>0. /\ pc \in [Sessions -> Places] /\ loc \in [Sessions -> Locals] /\ loc[s] \in Locals
      /\ c \in Boxes /\ data' = data /\ rcpts' = rcpts
  BY <1>9, SessionFacts DEF MailInv, MailType, ListGet, ListInit, ListCput, BodyPut
<1>1. CASE ListGet(s) \/ ListInit(s)
  <2>1. pc[s] \in {"listGet", "listInit"} /\ pc'[s] \in {"listGet", "listInit", "listCput"}
    BY <1>0, <1>1 DEF ListGet, ListInit, From, To
  <2>2. loc'[s].box = loc[s].box
    <3>1. loc' = loc \/ \E l : loc' = [loc EXCEPT ![s].old = l]
      BY <1>1 DEF ListGet, ListInit
    <3> QED
      BY <1>0, <3>1 DEF Locals
  <2> QED
    BY <1>0, <2>1, <2>2, DeliveryStays DEF Filed, Filled, Lost, KvPlaces
<1>2. CASE ListCput(s)
  <2>1. pc[s] = "listCput" /\ loc' = loc /\ h \in Texts /\ told' = told
    BY <1>2, <1>9, HandleFacts DEF ListCput, From
  <2>2. Filed(s) => InBox("outbox", h)'
    <3>1. Filed(s) => InBox("outbox", h)
      BY <1>9 DEF DeliveryOK, Filed
    <3> QED
      BY <2>1, <3>1, StaysInBox DEF Boxes
  <2>3. CASE list[c] = loc[s].old
    <3>1. pc' = [pc EXCEPT ![s] = "bodyPut"] /\ h \in Range(list'[c]) /\ list'[c] # None
      <4>1. /\ pc' = [pc EXCEPT ![s] = "bodyPut"]
            /\ list' = [list EXCEPT ![c] = <<h>> \o Without(loc[s].old, h)]
            /\ Range(list'[c]) = Range(list[c]) \cup {h}
        BY <1>2, <1>9, <2>3, ListCputMail
      <4>2. loc[s].old \in Seq(Texts)
        BY SessionFacts
      <4>3. Without(loc[s].old, h) \in Seq(Texts)
        BY <4>2, WithoutRange
      <4>4. <<h>> \o Without(loc[s].old, h) \in Seq(Texts)
        BY <2>1, <4>3
      <4>5. list'[c] = <<h>> \o Without(loc[s].old, h)
        BY <1>0, <4>1, MailTypes
      <4> QED
        BY <4>1, <4>4, <4>5, MailAssumption
    <3>2. pc'[s] = "bodyPut" /\ loc'[s].box = c /\ data'[s] = h
      BY <1>0, <1>9, <2>1, <3>1
    <3>3. Listed(c, h)'
      BY <3>1 DEF Listed
    <3>4. Filed(s)' => Filed(s)
      BY <1>9, <2>1, <3>2 DEF Filed, Lost, KvPlaces
    <3> QED
      BY <2>2, <3>2, <3>3, <3>4 DEF DeliveryOK, Filed, Lost, KvPlaces
  <2>4. CASE list[c] # loc[s].old
    <3>1. pc'[s] = "listGet"
      BY <1>0, <1>2, <1>9, <2>4, ListCputMail
    <3> QED
      BY <1>0, <2>1, <3>1, DeliveryStays DEF Filed, Filled, Lost, KvPlaces
  <2> QED
    BY <2>3, <2>4
<1>3. CASE BodyPut(s)
  <2>1. /\ pc[s] = "bodyPut" /\ At(s, "bodyPut", loc[s]) /\ loc' = loc /\ h \in Texts
        /\ loc[s].mail \in MailNumbers /\ told' = told /\ list' = list
        /\ body' = [body EXCEPT ![c][h] = loc[s].mail]
        /\ pc'[s] = IF c = "outbox" THEN "rcpt" ELSE "relRead"
    BY <1>0, <1>3, <1>9, HandleFacts DEF BodyPut, From, To
  <2>2. InBox(c, h)'
    <3>1. Listed(c, h)
      BY <1>9, <2>1 DEF DeliveryOK
    <3>2. body'[c][h] = loc[s].mail /\ loc[s].mail # None
      BY <1>0, <2>1, MailTypes, MailAssumption DEF MailNumbers
    <3> QED
      BY <2>1, <3>1, <3>2 DEF Listed, InBox, Excused
  <2>3. data'[s] = h
    BY <1>0, <1>9
  <2>4. CASE c = "outbox"
    <3>1. pc'[s] = "rcpt" /\ ~Filled(s)'
      BY <1>0, <1>9, <2>1, <2>4 DEF At, KvPlaces, Filled
    <3> QED
      BY <2>2, <2>3, <2>4, <3>1 DEF DeliveryOK, Filled
  <2>5. CASE c = "inbox"
    <3>1. pc'[s] = "relRead" /\ InBox("outbox", h)
      BY <1>9, <2>1, <2>5 DEF DeliveryOK, Lost
    <3>2. InBox("outbox", h)'
      BY <2>1, <3>1, StaysInBox DEF Boxes
    <3> QED
      BY <2>2, <2>3, <2>5, <3>1, <3>2 DEF DeliveryOK
  <2> QED
    BY <1>0, <2>4, <2>5 DEF Boxes
<1> QED
  BY <1>1, <1>2, <1>3

LEMMA QueueDelivery ==
  ASSUME MailInv, [Next]_vars, NEW s \in Sessions, DeliveryOK(s),
         \/ NextRcpt(s) \/ QueueMail(s) \/ ReadMqueue(s) \/ HandleForward(s)
         \/ TruncMqueue(s) \/ WriteMqueue(s) \/ HangRelay(s) \/ Hang(s) \/ SigPipe(s)
  PROVE  DeliveryOK(s)'
<1>0. /\ pc \in [Sessions -> Places] /\ loc \in [Sessions -> Locals] /\ loc[s] \in Locals
  BY SessionFacts DEF MailInv, MailType
<1>1. CASE \/ QueueMail(s) \/ ReadMqueue(s) \/ HandleForward(s)
           \/ TruncMqueue(s) \/ WriteMqueue(s)
  <2>1. /\ pc[s] \in {"queue", "relRead", "relSend", "relTrunc", "relWrite"}
        /\ pc'[s] \in {"relRead", "relSend", "relTrunc", "relWrite", "rcpt"}
        /\ data' = data /\ rcpts' = rcpts
    BY <1>0, <1>1 DEF QueueMail, ReadMqueue, HandleForward, TruncMqueue, WriteMqueue, From, To
  <2>2. loc'[s].todo = loc[s].todo
    <3>1. \E m, l : \/ loc' = loc \/ loc' = [loc EXCEPT ![s].msgs = m, ![s].left = l]
                    \/ loc' = [loc EXCEPT ![s].left = l] \/ loc' = [loc EXCEPT ![s].msgs = m]
      <4>1. CASE QueueMail(s) \/ TruncMqueue(s)
        BY <4>1 DEF QueueMail, TruncMqueue
      <4>2. CASE ReadMqueue(s) \/ WriteMqueue(s)
        BY <4>2 DEF ReadMqueue, WriteMqueue
      <4>3. CASE HandleForward(s)
        <5>1. \/ loc' = [loc EXCEPT ![s].msgs = Tail(loc[s].msgs)]
              \/ loc' = [loc EXCEPT ![s].msgs = Tail(loc[s].msgs), ![s].left = Append(@, Head(loc[s].msgs))]
          BY <4>3 DEF HandleForward
        <5> QED
          BY <5>1
      <4> QED
        BY <1>1, <4>1, <4>2, <4>3
    <3> QED
      BY <1>0, <3>1 DEF Locals
  <2> QED
    BY <2>1, <2>2, DeliveryStays DEF Filed, Filled, Lost, KvPlaces
<1>2. CASE Hang(s)
  <2>1. pc'[s] = "stuck"
    BY <1>0, <1>2 DEF Hang
  <2> QED
    BY <2>1 DEF DeliveryOK, Lost
<1>3. CASE SigPipe(s)
  <2>1. UNCHANGED <<pc, loc, data, rcpts>>
    BY <1>3 DEF SigPipe, sessionVars
  <2> QED
    BY <2>1, DeliveryStays DEF Filed, Filled
<1>4. CASE NextRcpt(s)
  <2>1. pc[s] = "rcpt"
    BY <1>4 DEF NextRcpt, From
  <2>2. CASE To(s, "ready")
    <3>1. pc'[s] = "ready"
      BY <1>0, <2>2 DEF To
    <3> QED
      BY <3>1 DEF DeliveryOK, Lost
  <2>3. CASE \E r \in loc[s].todo :
               /\ loc' = [loc EXCEPT ![s].todo = @ \ {r}, ![s].box = "inbox"]
               /\ To(s, IF r = "local" THEN "listGet" ELSE "queue")
               /\ UNCHANGED <<rcpts, data, told>>
    <3>1. PICK r \in loc[s].todo :
               /\ loc' = [loc EXCEPT ![s].todo = @ \ {r}, ![s].box = "inbox"]
               /\ To(s, IF r = "local" THEN "listGet" ELSE "queue")
               /\ UNCHANGED <<rcpts, data, told>>
      BY <2>3
    <3>2. loc'[s].todo = loc[s].todo \ {r} /\ pc'[s] = IF r = "local" THEN "listGet" ELSE "queue"
      BY <1>0, <3>1 DEF Locals, To
    <3>3. (Filed(s)' => Filed(s)) /\ (Filled(s)' => Filled(s)) /\ pc'[s] # "bodyPut"
      BY <2>1, <3>1, <3>2 DEF Filed, Filled, Lost, KvPlaces
    <3> QED
      BY <3>1, <3>3, DeliveryStays
  <2> QED
    BY <1>4, <2>2, <2>3 DEF NextRcpt
<1>5. CASE HangRelay(s)
  <2>1. /\ pc[s] = "relSend" /\ pc' = [pc EXCEPT ![s] = "relStuck"]
        /\ UNCHANGED <<loc, data, rcpts>>
    BY <1>5 DEF HangRelay, From, To
  <2> QED
    BY <1>0, <2>1, DeliveryStays DEF Filed, Filled, Lost, KvPlaces
<1> QED
  BY <1>1, <1>2, <1>3, <1>4, <1>5

\* Where an acknowledgement comes from.
LEMMA NewAcked ==
  ASSUME MailInv, [Next]_vars, NEW m \in told'.acked, m \notin told.acked
  PROVE  \E s \in Sessions :
           /\ From(s, "rcpt") /\ loc[s].todo = {} /\ UNCHANGED <<list, body, mqueue>>
           /\ m = [mail |-> loc[s].mail, hash |-> data[s], to |-> told.given[s]]
           /\ told' = [told EXCEPT !.acked = @ \cup {m}]
           /\ told'.wiped = told.wiped /\ told'.deleted = told.deleted /\ NextRcpt(s)
<1>1. ASSUME NEW s \in Sessions, Converse(s) PROVE told'.acked = told.acked
  BY <1>1, MailTypes DEF Converse, Helo, MailFrom, RcptTo, DataStart, DataLine, DataEnd, Rset, Quit, Told
<1>2. ASSUME NEW s \in Sessions, Deliver(s), ~NextRcpt(s) PROVE told'.acked = told.acked
  <2>1. told' = told \/ \E x : \/ told' = [told EXCEPT !.wiped = x] \/ told' = [told EXCEPT !.overlap = x]
                               \/ told' = [told EXCEPT !.sent = x] \/ told' = [told EXCEPT !.refused = x]
                 \/ HangRelay(s)
    <3>1. CASE HandleForward(s)
      BY <3>1 DEF HandleForward
    <3> QED
      BY <1>2, <3>1 DEF Deliver, ListGet, ListInit, ListCput, BodyPut, QueueMail, ReadMqueue,
         TruncMqueue, WriteMqueue, Hang, SigPipe
  <2>2. HangRelay(s) => told'.acked = told.acked
    BY HangRelayFacts
  <2> QED
    BY <2>1, <2>2, MailTypes DEF Told
<1>3. ASSUME NEW p \in Pages, ShowMail(p) \/ DeleteMail(p) \/ Serve(p) PROVE told'.acked = told.acked
  BY <1>3, PageOnly
<1>4. PrimaryDies \/ UNCHANGED vars => told' = told
  BY DEF PrimaryDies, vars
<1>5. PICK s \in Sessions : NextRcpt(s)
  BY <1>1, <1>2, <1>3, <1>4 DEF Next
<1>6. From(s, "rcpt") /\ UNCHANGED <<list, body, mqueue>>
  BY <1>5 DEF NextRcpt
<1> DEFINE k == [mail |-> loc[s].mail, hash |-> data[s], to |-> told.given[s]]
<1>7. loc[s].todo = {} /\ told' = [told EXCEPT !.acked = @ \cup {k}]
  BY <1>5 DEF NextRcpt
<1> HIDE DEF k
<1>8. m = k /\ told'.wiped = told.wiped /\ told'.deleted = told.deleted
  BY <1>7, MailTypes DEF Told
<1> QED
  BY <1>5, <1>6, <1>7, <1>8 DEF k

LEMMA NextKept == MailInv /\ KeptInv /\ [Next]_vars => KeptInv'
<1> SUFFICES ASSUME MailInv, KeptInv, [Next]_vars PROVE KeptInv'
  OBVIOUS
<1>1. ASSUME NEW s \in Sessions PROVE DeliveryOK(s)'
  <2>0. DeliveryOK(s)
    BY DEF KeptInv
  <2>1. CASE Converse(s)
    BY <2>0, <2>1, ConverseDelivery
  <2>2. CASE Deliver(s)
    BY <2>0, <2>2, StoreDelivery, QueueDelivery DEF Deliver
  <2>3. CASE pc'[s] = pc[s] /\ loc'[s] = loc[s] /\ data'[s] = data[s] /\ rcpts'[s] = rcpts[s]
    BY <2>0, <2>3, DeliveryStays DEF Filed, Filled
  <2>4. ASSUME NEW t \in Sessions \ {s}, Converse(t) \/ Deliver(t)
        PROVE  pc'[s] = pc[s] /\ loc'[s] = loc[s] /\ data'[s] = data[s] /\ rcpts'[s] = rcpts[s]
    BY <2>4, SessionOnly DEF Only
  <2>5. ASSUME NEW p \in Pages, ShowMail(p) \/ DeleteMail(p) \/ Serve(p)
        PROVE  UNCHANGED <<pc, loc, data, rcpts>>
    BY <2>5, PageOnly
  <2>6. PrimaryDies \/ UNCHANGED vars => UNCHANGED <<pc, loc, data, rcpts>>
    BY DEF PrimaryDies, sessionVars, vars
  <2> QED
    BY <2>1, <2>2, <2>3, <2>4, <2>5, <2>6 DEF Next
<1>2. ASSUME NEW m \in told.acked, NEW b \in BoxesOf(m) PROVE InBox(b, m.hash)'
  <2>1. m.hash \in Texts /\ b \in Boxes
    BY MailTypes DEF Told, BoxesOf, Boxes
  <2>2. InBox(b, m.hash)
    BY DEF KeptInv, DeliveredKept, InBox, Excused
  <2>3. PICK h : h = m.hash
    OBVIOUS
  <2> QED
    BY <2>1, <2>2, <2>3, StaysInBox
<1>3. ASSUME NEW m \in told'.acked, m \notin told.acked, NEW b \in BoxesOf(m) PROVE InBox(b, m.hash)'
  <2>1. PICK s \in Sessions : /\ From(s, "rcpt") /\ loc[s].todo = {} /\ UNCHANGED <<list, body, mqueue>>
                             /\ m = [mail |-> loc[s].mail, hash |-> data[s], to |-> told.given[s]]
                             /\ told'.wiped = told.wiped /\ told'.deleted = told.deleted
    BY <1>3, NewAcked
  <2>2. pc[s] = "rcpt" /\ rcpts[s] = told.given[s] /\ m.hash = data[s] /\ m.to = rcpts[s]
    BY <2>1, HandleFacts
  <2>3. InBox(b, m.hash)
    BY <2>1, <2>2 DEF KeptInv, DeliveryOK, BoxesOf, Lost, KvPlaces
  <2> QED
    BY <2>1, <2>3 DEF InBox, Excused
<1>4. DeliveredKept'
  BY <1>2, <1>3 DEF DeliveredKept, InBox, Excused
<1> QED
  BY <1>1, <1>4 DEF KeptInv

\* A mail that was answered 250 OK is in the outbox of its sender and in the
\* inbox of its recipient, list and body, until somebody deletes it or a list
\* is made anew or done away with under it, however deliveries, deletions and
\* deaths of the primary interleave.
THEOREM MailDelivered == Spec => []DeliveredKept
<1>1. Init => KeptInv
  BY DEF Init, KeptInv, DeliveredKept, DeliveryOK, Lost
<1>2. KeptInv => DeliveredKept
  BY DEF KeptInv
<1> QED
  BY <1>1, <1>2, MailRoles, NextKept, PTL DEF Spec

-----------------------------------------------------------------------------
(* What a page shows has a body *)

LEMMA TailRange ==
  ASSUME NEW T, NEW q \in Seq(T), q # <<>>
  PROVE  /\ Head(q) \in T /\ Tail(q) \in Seq(T)
         /\ Head(q) \in Range(q) /\ Range(Tail(q)) \subseteq Range(q)
<1>1. /\ Len(q) \in Nat /\ Len(q) > 0 /\ DOMAIN q = 1 .. Len(q) /\ DOMAIN Tail(q) = 1 .. Len(q) - 1
      /\ Head(q) = q[1] /\ \A i \in 1 .. Len(q) - 1 : Tail(q)[i] = q[i + 1]
  OBVIOUS
<1>2. 1 \in 1 .. Len(q) /\ \A i \in 1 .. Len(q) - 1 : i + 1 \in 1 .. Len(q)
  BY <1>1
<1> QED
  BY <1>1, <1>2 DEF Range

\* A process that has ended stays so.
LEMMA StaysDown ==
  ASSUME MailInv, [Next]_vars, ~up
  PROVE  ~up'
<1>1. ASSUME NEW s \in Sessions PROVE ~Converse(s) /\ ~Deliver(s)
  BY DEF Converse, Deliver, Helo, MailFrom, RcptTo, DataStart, DataLine, DataEnd, Rset, Quit, Command, Ready,
         ListGet, ListInit, ListCput, BodyPut, NextRcpt, QueueMail, ReadMqueue, HandleForward, HangRelay,
         TruncMqueue, WriteMqueue, Hang, SigPipe, From
<1>2. ASSUME NEW p \in Pages, ShowMail(p) \/ DeleteMail(p) \/ Serve(p) PROVE up' = up
  BY <1>2, PageOnly
<1>3. PrimaryDies \/ UNCHANGED vars => up' = up
  BY DEF PrimaryDies, vars
<1> QED
  BY <1>1, <1>2, <1>3 DEF Next

\* Session s is between the two steps of a delivery, or never gets out of it.
Halfway(s, c, h) == loc[s].box = c /\ data[s] = h /\ pc[s] \in {"bodyPut", "stuck"}

LEMMA HalfwayStays ==
  ASSUME MailInv, [Next]_vars, NEW s \in Sessions, NEW c \in Boxes, NEW h \in Texts, Halfway(s, c, h)
  PROVE  Halfway(s, c, h)' \/ body'[c][h] # None
<1>0. pc \in [Sessions -> Places] /\ pc[s] \in {"bodyPut", "stuck"} /\ loc[s].box = c /\ data[s] = h
  BY DEF Halfway, MailInv, MailType
<1>1. CASE loc'[s] = loc[s] /\ data'[s] = data[s] /\ (pc'[s] = pc[s] \/ pc'[s] = "stuck")
  BY <1>0, <1>1 DEF Halfway
<1>2. CASE BodyPut(s)
  <2>1. body' = [body EXCEPT ![c][h] = loc[s].mail]
    BY <1>0, <1>2 DEF BodyPut
  <2>2. loc[s].mail \in MailNumbers
    BY <1>2, HandleFacts DEF BodyPut
  <2> QED
    BY <2>1, <2>2, MailTypes, MailAssumption DEF MailNumbers
<1>3. CASE Hang(s)
  <2>1. pc'[s] = "stuck" /\ loc' = loc /\ data' = data
    BY <1>0, <1>3 DEF Hang
  <2> QED
    BY <1>1, <2>1
<1>4. CASE SigPipe(s) \/ PrimaryDies \/ UNCHANGED vars
  <2>1. UNCHANGED <<pc, loc, data>>
    BY <1>4 DEF SigPipe, PrimaryDies, sessionVars, vars
  <2> QED
    BY <1>1, <2>1
<1>5. ~Converse(s)
  BY <1>0 DEF Converse, Helo, MailFrom, RcptTo, DataStart, DataLine, DataEnd, Rset, Quit, Command, Ready
<1>6. Deliver(s) => BodyPut(s) \/ Hang(s) \/ SigPipe(s)
  BY <1>0 DEF Deliver, ListGet, ListInit, ListCput, NextRcpt, QueueMail, ReadMqueue, HandleForward, HangRelay,
     TruncMqueue, WriteMqueue, From
<1>7. ASSUME NEW t \in Sessions \ {s}, Converse(t) \/ Deliver(t)
      PROVE  pc'[s] = pc[s] /\ loc'[s] = loc[s] /\ data'[s] = data[s]
  BY <1>7, SessionOnly DEF Only
<1>8. ASSUME NEW p \in Pages, ShowMail(p) \/ DeleteMail(p) \/ Serve(p)
      PROVE  UNCHANGED <<pc, loc, data>>
  BY <1>8, PageOnly
<1> QED
  BY <1>1, <1>2, <1>3, <1>4, <1>5, <1>6, <1>7, <1>8 DEF Next

LEMMA KnownStays ==
  ASSUME MailInv, [Next]_vars, NEW b \in Boxes, NEW h \in Texts, Known(b, h)
  PROVE  Known(b, h)'
<1>1. CASE Between(b, h)
  <2>1. PICK s \in Sessions : Halfway(s, b, h)
    BY <1>1 DEF Between, Halfway
  <2> QED
    BY <2>1, HalfwayStays DEF Known, Between, Halfway
<1>2. CASE body[b][h] # None \/ <<b, h>> \in told.deleted
  BY <1>2, StaysInBox DEF Keeps, Known
<1>3. CASE ~up
  BY <1>3, StaysDown DEF Known
<1> QED
  BY <1>1, <1>2, <1>3 DEF Known

\* What is new in a list is being delivered.
LEMMA NewInList ==
  ASSUME MailInv, [Next]_vars, NEW b \in Boxes, list'[b] # None, NEW h \in Range(list'[b])
  PROVE  (list[b] # None /\ h \in Range(list[b])) \/ Known(b, h)'
<1>1. CASE list' = list
  BY <1>1
<1>2. ASSUME NEW s \in Sessions, ListInit(s) PROVE list[b] # None /\ h \in Range(list[b])
  <2>1. list' = [list EXCEPT ![loc[s].box] = <<>>] /\ loc[s].box \in Boxes
    BY <1>2, SessionFacts DEF ListInit
  <2>2. Range(<<>>) = {}
    BY DEF Range
  <2> QED
    BY <2>1, <2>2, MailTypes
<1>3. ASSUME NEW s \in Sessions, ListCput(s), list' # list
      PROVE  (list[b] # None /\ h \in Range(list[b])) \/ Known(b, h)'
  <2>1. PICK c : c = loc[s].box
    OBVIOUS
  <2>2. c \in Boxes /\ loc[s].old \in Seq(Texts) /\ pc \in [Sessions -> Places]
    BY <2>1, SessionFacts DEF MailInv, MailType
  <2>3. /\ list[c] = loc[s].old /\ pc' = [pc EXCEPT ![s] = "bodyPut"]
        /\ list' = [list EXCEPT ![c] = <<data[s]>> \o Without(loc[s].old, data[s])]
        /\ Range(list'[c]) = Range(list[c]) \cup {data[s]}
    BY <1>3, <2>1, ListCputMail
  <2>4. pc'[s] = "bodyPut" /\ data' = data /\ loc' = loc
    BY <1>3, <2>2, <2>3 DEF ListCput
  <2>5. b # c => list'[b] = list[b]
    BY <2>3, MailTypes
  <2>6. b = c /\ h = data[s] => Known(b, h)'
    BY <2>1, <2>4 DEF Known, Between
  <2>7. list[c] # None
    BY <2>2, <2>3, MailAssumption
  <2> QED
    BY <2>3, <2>5, <2>6, <2>7
<1>4. ASSUME NEW p \in Pages, DelList(p) PROVE list'[b] = list[b]
  <2>1. list' = [list EXCEPT ![job[p].box] = None] /\ job[p].box \in Boxes
    BY <1>4, JobFacts DEF DelList
  <2> QED
    BY <2>1, MailTypes
<1>5. ASSUME NEW p \in Pages, DelCput(p) PROVE list[b] # None /\ h \in Range(list[b])
  <2>1. PICK c, x, l : c = job[p].box /\ x = job[p].hash /\ l = job[p].old
    OBVIOUS
  <2>2. c \in Boxes /\ l \in Seq(Texts)
    BY <2>1, JobFacts
  <2>3. list' = list \/ (list[c] = l /\ list' = [list EXCEPT ![c] = Without(l, x)])
    BY <1>5, <2>1 DEF DelCput
  <2>4. list'[b] = list[b] \/ (b = c /\ list[b] = l /\ list'[b] = Without(l, x))
    BY <2>2, <2>3, MailTypes
  <2>5. Range(Without(l, x)) = Range(l) \ {x} /\ l # None
    BY <2>2, WithoutRange, MailAssumption
  <2> QED
    BY <2>4, <2>5
<1>6. StoreStep \/ list' = list
  BY OtherSteps
<1>7. ASSUME NEW s \in Sessions, BodyPut(s) PROVE list' = list
  BY <1>7 DEF BodyPut
<1>8. ASSUME NEW p \in Pages, DelBody(p) PROVE list' = list
  BY <1>8 DEF DelBody
<1> QED
  BY <1>1, <1>2, <1>3, <1>4, <1>5, <1>6, <1>7, <1>8 DEF StoreStep

\* A page is changed by its own steps.
LEMMA OtherPages ==
  ASSUME MailInv, [Next]_vars, NEW p \in Pages, ~ShowMail(p), ~DeleteMail(p), ~Serve(p)
  PROVE  job'[p] = job[p]
<1>1. ASSUME NEW q \in Pages \ {p}, ShowMail(q) \/ DeleteMail(q) \/ Serve(q) PROVE job'[p] = job[p]
  <2>1. \E j : job' = [job EXCEPT ![q] = j]
    <3>1. CASE ShowMail(q) \/ DeleteMail(q)
      BY <3>1 DEF ShowMail, DeleteMail, AskPage
    <3>2. CASE ShowList(q) \/ ShowBody(q)
      BY <3>2 DEF ShowList, ShowBody, Job
    <3>3. CASE DelGet(q) \/ DelList(q) \/ DelCput(q) \/ DelBody(q)
      BY <3>3 DEF DelGet, DelList, DelCput, DelBody, Job
    <3>4. CASE HangPage(q) \/ PipePage(q)
      BY <3>4, CutOffStep
    <3> QED
      BY <1>1, <3>1, <3>2, <3>3, <3>4 DEF Serve
  <2> QED
    BY <2>1 DEF MailInv, MailType
<1>2. ASSUME NEW s \in Sessions, Converse(s) \/ Deliver(s) PROVE job' = job
  BY <1>2, SessionOnly
<1>3. PrimaryDies \/ UNCHANGED vars => job' = job
  BY DEF PrimaryDies, pageVars, vars
<1> QED
  BY <1>1, <1>2, <1>3 DEF Next

\* What is new to a page that shows mails was in the list.
LEMMA NewOnPage ==
  ASSUME MailInv, [Next]_vars, NEW p \in Pages, job'[p].do = "showBody"
  PROVE  \/ job'[p] = job[p]
         \/ job'[p].box = job[p].box /\ job'[p].old = <<>>
         \/ job'[p].box = job[p].box /\ job'[p].old = list[job[p].box] /\ list[job[p].box] # None
         \/ /\ job[p].do = "showBody" /\ job'[p].box = job[p].box
            /\ Range(job'[p].old) \subseteq Range(job[p].old)
<1>0. job \in [Pages -> Jobs] /\ job[p] \in Jobs /\ job[p].box \in Boxes /\ job[p].old \in Seq(Texts)
      /\ list[job[p].box] \in Seq(Texts) \cup {None} /\ <<>> \in Seq(Texts) /\ NoJob \in Jobs /\ NoJob.do = "idle"
      /\ "showBody" \in Doings
  BY JobFacts, MailTypes, NoJobType DEF MailInv, MailType, Doings
<1>1. CASE job'[p] = job[p]
  BY <1>1
<1>2. CASE ShowList(p)
  <2>1. PICK l \in Seq(Texts) : /\ Job(p, "showBody", l)
                                /\ l = IF list[job[p].box] = None THEN <<>> ELSE list[job[p].box]
    BY <1>0, <1>2 DEF ShowList
  <2>2. PICK j \in Jobs : job' = [job EXCEPT ![p] = j] /\ j.old = l /\ j.box = job[p].box
    <3>1. PICK k \in Seq(Texts) : Job(p, "showBody", k) /\ k = l
      BY <2>1
    <3> QED
      BY <1>0, <3>1, JobStep
  <2>3. job'[p] = j
    BY <1>0, <2>2
  <2> QED
    BY <2>1, <2>2, <2>3
<1>3. CASE ShowBody(p)
  <2>1. CASE job[p].old # <<>> /\ Job(p, "showBody", Tail(job[p].old))
    <3>1. PICK l \in Seq(Texts) : Job(p, "showBody", l) /\ Range(l) \subseteq Range(job[p].old)
      BY <1>0, <2>1, TailRange
    <3>2. PICK j \in Jobs : job' = [job EXCEPT ![p] = j] /\ j.old = l /\ j.box = job[p].box
      BY <1>0, <3>1, JobStep
    <3>3. job'[p] = j /\ job[p].do = "showBody"
      BY <1>0, <1>3, <3>2 DEF ShowBody, PageAt
    <3> QED
      BY <3>1, <3>2, <3>3
  <2>2. CASE Job(p, "dead", job[p].old)
    <3>1. PICK j \in Jobs : job' = [job EXCEPT ![p] = j] /\ j.do = "dead"
      BY <1>0, <2>2, JobStep DEF Doings
    <3> QED
      BY <1>0, <3>1
  <2>3. CASE job' = [job EXCEPT ![p] = IF job[p].box = "inbox" THEN [NoJob EXCEPT !.do = "showList", !.box = "outbox"]
                                                              ELSE NoJob]
    <3>1. [NoJob EXCEPT !.do = "showList", !.box = "outbox"].do = "showList"
      BY DEF NoJob
    <3> QED
      BY <1>0, <2>3, <3>1
  <2> QED
    BY <1>3, <2>1, <2>2, <2>3 DEF ShowBody
<1>4. CASE ShowMail(p) \/ DeleteMail(p)
  <2>1. PICK j : job' = [job EXCEPT ![p] = j] /\ j.do # "showBody"
    BY <1>4 DEF ShowMail, DeleteMail, AskPage, NoJob
  <2> QED
    BY <1>0, <2>1
<1>5. CASE DelGet(p) \/ DelList(p) \/ DelCput(p) \/ DelBody(p)
  <2>1. CASE job' = [job EXCEPT ![p] = NoJob]
    BY <1>0, <2>1
  <2>2. CASE \E do \in {"delList", "delCput", "delBody", "delGet"}, l \in Seq(Texts) : Job(p, do, l)
    <3>1. PICK do \in {"delList", "delCput", "delBody", "delGet"}, l \in Seq(Texts) : Job(p, do, l)
      BY <2>2
    <3>2. do \in Doings /\ do # "showBody"
      BY DEF Doings
    <3>3. PICK j \in Jobs : job' = [job EXCEPT ![p] = j] /\ j.do = do
      BY <3>1, <3>2, JobStep
    <3> QED
      BY <1>0, <3>2, <3>3
  <2>3. DelGet(p) => \E do \in {"delList", "delCput"}, l \in Seq(Texts) : Job(p, do, l)
    BY <1>0 DEF DelGet
  <2>4. DelList(p) => Job(p, "delBody", <<>>)
    BY DEF DelList
  <2>5. DelCput(p) => Job(p, "delBody", <<>>) \/ Job(p, "delGet", <<>>)
    BY DEF DelCput
  <2>6. DelBody(p) => job' = [job EXCEPT ![p] = NoJob]
    BY DEF DelBody
  <2> QED
    BY <1>0, <1>5, <2>1, <2>2, <2>3, <2>4, <2>5, <2>6
<1>6. CASE HangPage(p) \/ PipePage(p)
  <2>1. PICK j \in Jobs : job' = [job EXCEPT ![p] = j] /\ j.do \in {"stuck", "dead"}
    BY <1>6, CutOffStep
  <2> QED
    BY <1>0, <2>1
<1> QED
  BY <1>1, <1>2, <1>3, <1>4, <1>5, <1>6, OtherPages DEF Serve

LEMMA NextBody == MailInv /\ BodyInv /\ [Next]_vars => BodyInv'
<1> SUFFICES ASSUME MailInv, BodyInv, [Next]_vars PROVE BodyInv'
  OBVIOUS
<1>0. MailInv'
  BY NextMail
<1>1. ASSUME NEW b \in Boxes, list'[b] # None, NEW h \in Range(list'[b]) PROVE Known(b, h)'
  <2>1. CASE list[b] # None /\ h \in Range(list[b])
    <3>1. h \in Texts /\ Known(b, h)
      BY <2>1, MailTypes DEF BodyInv, Range
    <3> QED
      BY <3>1, KnownStays
  <2> QED
    BY <1>1, <2>1, NewInList
<1>2. ASSUME NEW p \in Pages, job'[p].do = "showBody", NEW h \in Range(job'[p].old)
      PROVE  Known(job[p].box, h)'
  <2>1. PICK c : c = job[p].box
    OBVIOUS
  <2>2. c \in Boxes /\ Range(<<>>) = {} /\ job[p].old \in Seq(Texts) /\ list[c] \in Seq(Texts) \cup {None}
    BY <2>1, JobFacts, MailTypes DEF Range
  <2>3. /\ job'[p].box = c
        /\ \/ job[p].do = "showBody" /\ h \in Range(job[p].old)
           \/ list[c] # None /\ h \in Range(list[c])
    BY <1>2, <2>1, <2>2, NewOnPage
  <2>4. Known(c, h)
    BY <2>1, <2>2, <2>3 DEF BodyInv
  <2>5. h \in Texts
    <3>1. \A q \in Seq(Texts) : Range(q) \subseteq Texts
      BY DEF Range
    <3> QED
      BY <2>2, <2>3, <3>1
  <2> QED
    BY <2>2, <2>3, <2>4, <2>5, KnownStays
<1> QED
  BY <1>1, <1>2 DEF BodyInv

\* The step that ends the front end of a page whose primary lives.
LEMMA PageDies ==
  ASSUME MailInv, [Next]_vars, NEW p \in Pages, p \notin cutPages, job'[p].do = "dead", job[p].do # "dead"
  PROVE  job[p].do = "showBody" /\ job[p].old # <<>> /\ body[job[p].box][Head(job[p].old)] = None
<1>0. /\ job \in [Pages -> Jobs] /\ job[p] \in Jobs /\ job[p].old \in Seq(Texts) /\ <<>> \in Seq(Texts)
      /\ list[job[p].box] \in Seq(Texts) \cup {None} /\ NoJob.do = "idle"
  BY JobFacts, MailTypes, NoJobType DEF MailInv, MailType
<1>1. ASSUME NEW do \in Doings \ {"dead"}, NEW l \in Seq(Texts), Job(p, do, l) PROVE FALSE
  <2>1. PICK j \in Jobs : job' = [job EXCEPT ![p] = j] /\ j.do = do
    BY <1>1, JobStep
  <2> QED
    BY <1>0, <1>1, <2>1
<1>2. ASSUME NEW j, job' = [job EXCEPT ![p] = j], j.do # "dead" PROVE FALSE
  BY <1>0, <1>2
<1>3. ~ShowMail(p) /\ ~DeleteMail(p) /\ ~DelBody(p)
  BY <1>0, <1>2 DEF ShowMail, DeleteMail, AskPage, DelBody, NoJob
<1>4. {"showBody", "delList", "delCput", "delBody", "delGet"} \subseteq Doings \ {"dead"}
  BY DEF Doings
<1>5. ~ShowList(p)
  BY <1>0, <1>1, <1>4 DEF ShowList
<1>6. ~DelGet(p) /\ ~DelList(p) /\ ~DelCput(p)
  BY <1>0, <1>1, <1>4 DEF DelGet, DelList, DelCput
<1>7. ShowBody(p)
  BY <1>3, <1>5, <1>6, OtherPages, CutOffStep DEF Serve
<1>8. ~(job[p].old # <<>> /\ Job(p, "showBody", Tail(job[p].old)))
  <2>1. job[p].old # <<>> => Tail(job[p].old) \in Seq(Texts)
    BY <1>0
  <2> QED
    BY <1>1, <1>4, <2>1
<1>9. ~(job' = [job EXCEPT ![p] = IF job[p].box = "inbox" THEN [NoJob EXCEPT !.do = "showList", !.box = "outbox"]
                                                         ELSE NoJob])
  <2>1. [NoJob EXCEPT !.do = "showList", !.box = "outbox"].do = "showList"
    BY DEF NoJob
  <2> QED
    BY <1>0, <1>2, <2>1
<1> QED
  BY <1>7, <1>8, <1>9 DEF ShowBody, PageAt

\* What ends a front end that shows a mail page: its primary died while it
\* talked to it; a mail in the list that is between the two steps of its
\* delivery, for ever so if the primary died, or one that somebody asked to
\* delete; or the SMTP server is down.
THEOREM MailPageEndsOnlyIf == Spec => PageEndsOnlyIf
<1>1. MailInv /\ BodyInv /\ [Next]_vars =>
        [\A p \in Pages : job'[p].do = "dead" /\ job[p].do # "dead" =>
           LET b == job[p].box  h == Head(job[p].old) IN
             \/ p \in cutPages
             \/ <<b, h>> \in told.deleted
             \/ \E s \in Sessions : loc[s].box = b /\ data[s] = h /\ pc[s] \in {"bodyPut", "stuck"}
             \/ ~up]_vars
  <2> SUFFICES ASSUME MailInv, BodyInv, [Next]_vars, NEW p \in Pages, p \notin cutPages,
                      job'[p].do = "dead", job[p].do # "dead"
               PROVE  \/ <<job[p].box, Head(job[p].old)>> \in told.deleted
                      \/ Between(job[p].box, Head(job[p].old)) \/ ~up
    BY DEF Between
  <2>1. job[p].do = "showBody" /\ job[p].old # <<>> /\ body[job[p].box][Head(job[p].old)] = None
    BY PageDies
  <2>2. Head(job[p].old) \in Range(job[p].old)
    BY <2>1, JobFacts, TailRange
  <2> QED
    BY <2>1, <2>2 DEF BodyInv, Known
<1>2. Init => BodyInv
  <2> SUFFICES ASSUME Init PROVE BodyInv
    OBVIOUS
  <2>1. \A p \in Pages : job[p].do # "showBody"
    BY NoJobType DEF Init
  <2>2. ASSUME NEW b \in Boxes, list[b] # None, NEW h \in Range(list[b]) PROVE body[b][h] # None
    <3>1. list[b] \in Seq(Texts) /\ h \in Texts
      BY <2>2, MailAssumption DEF Init, Range
    <3>2. body[b][h] = 0
      BY <2>2, <3>1 DEF Init, OldMails
    <3> QED
      BY <3>2, MailAssumption
  <2> QED
    BY <2>1, <2>2 DEF BodyInv, Known
<1> QED
  BY <1>1, <1>2, MailRoles, NextBody, PTL DEF Spec, PageEndsOnlyIf

-----------------------------------------------------------------------------
(* Counting mails *)

LEMMA CountNat ==
  ASSUME NEW T, NEW q \in Seq(T), NEW n
  PROVE  /\ IsFiniteSet({i \in DOMAIN q : q[i] = n}) /\ Copies(q, n) \in Nat
         /\ q = <<>> => Copies(q, n) = 0
<1>1. Len(q) \in Nat /\ DOMAIN q = 1 .. Len(q)
  OBVIOUS
<1>2. IsFiniteSet(1 .. Len(q))
  BY <1>1, FS_Interval
<1>3. IsFiniteSet({i \in DOMAIN q : q[i] = n})
  BY <1>1, <1>2, FS_Subset
<1>4. q = <<>> => {i \in DOMAIN q : q[i] = n} = {}
  BY <1>1
<1> QED
  BY <1>3, <1>4, FS_CardinalityType, FS_EmptySet DEF Copies

LEMMA CountAppend ==
  ASSUME NEW T, NEW q \in Seq(T), NEW e \in T, NEW n
  PROVE  Copies(Append(q, e), n) = Copies(q, n) + (IF e = n THEN 1 ELSE 0)
<1> DEFINE S == {i \in DOMAIN q : q[i] = n}
           R == {i \in DOMAIN Append(q, e) : Append(q, e)[i] = n}
           N == Len(q)
<1>1. /\ N \in Nat /\ DOMAIN q = 1 .. N /\ DOMAIN Append(q, e) = 1 .. N + 1
      /\ Append(q, e)[N + 1] = e /\ \A i \in 1 .. N : Append(q, e)[i] = q[i]
  OBVIOUS
<1>2. IsFiniteSet(S) /\ Cardinality(S) \in Nat
  BY CountNat DEF Copies
<1> HIDE DEF N
<1>3. /\ \A i \in 1 .. N + 1 : i \in 1 .. N \/ i = N + 1
      /\ \A i \in 1 .. N : i \in 1 .. N + 1
      /\ N + 1 \in 1 .. N + 1 /\ N + 1 \notin 1 .. N
  BY <1>1
<1>4. R = IF e = n THEN S \cup {N + 1} ELSE S
  BY <1>1, <1>3
<1>5. N + 1 \notin S
  BY <1>1, <1>3
<1> HIDE DEF S, R
<1>6. Cardinality(R) = Cardinality(S) + (IF e = n THEN 1 ELSE 0)
  <2>1. Cardinality(S \cup {N + 1}) = Cardinality(S) + 1
    BY <1>2, <1>5, FS_AddElement
  <2> QED
    BY <1>2, <1>4, <2>1
<1> QED
  BY <1>6 DEF Copies, S, R

LEMMA CountTail ==
  ASSUME NEW T, NEW q \in Seq(T), q # <<>>, NEW n
  PROVE  Copies(q, n) = Copies(Tail(q), n) + (IF Head(q) = n THEN 1 ELSE 0)
<1> DEFINE S == {i \in DOMAIN Tail(q) : Tail(q)[i] = n}
           R == {i \in DOMAIN q : q[i] = n}
           M == {i + 1 : i \in S}
           N == Len(q) - 1
           f == [i \in S |-> i + 1]
<1>1. /\ N \in Nat /\ DOMAIN q = 1 .. N + 1 /\ DOMAIN Tail(q) = 1 .. N /\ Tail(q) \in Seq(T)
      /\ Head(q) = q[1] /\ \A i \in 1 .. N : Tail(q)[i] = q[i + 1]
  OBVIOUS
<1>2. IsFiniteSet(S) /\ Cardinality(S) \in Nat
  BY <1>1, CountNat DEF Copies
<1> HIDE DEF N
<1>3. S \subseteq 1 .. N
  BY <1>1
<1>4. R = IF Head(q) = n THEN M \cup {1} ELSE M
  <2>1. \A i \in 1 .. N + 1 : i = 1 \/ (i - 1 \in 1 .. N /\ (i - 1) + 1 = i)
    BY <1>1
  <2>2. \A i \in 1 .. N : i + 1 \in 1 .. N + 1
    BY <1>1
  <2>3. 1 \in 1 .. N + 1
    BY <1>1
  <2>4. \A i \in R : i = 1 \/ i \in M
    <3>1. ASSUME NEW i \in R, i # 1 PROVE i \in M
      <4>1. i - 1 \in 1 .. N /\ (i - 1) + 1 = i /\ q[i] = n
        BY <1>1, <2>1, <3>1
      <4>2. i - 1 \in S
        BY <1>1, <4>1
      <4> QED
        BY <4>1, <4>2
    <3> QED
      BY <3>1
  <2>5. M \subseteq R
    BY <1>1, <2>2
  <2>6. 1 \in R <=> Head(q) = n
    BY <1>1, <2>3
  <2> HIDE DEF R, M
  <2>7. CASE Head(q) = n
    BY <2>4, <2>5, <2>6, <2>7
  <2>8. CASE Head(q) # n
    <3>1. 1 \notin R
      BY <2>6, <2>8
    <3>2. R = M
      BY <2>4, <2>5, <3>1
    <3> QED
      BY <2>8, <3>2
  <2> QED
    BY <2>7, <2>8
<1>5. 1 \notin M
  BY <1>1, <1>3
<1>6. f \in Bijection(S, M)
  <2>1. \A i, k \in S : i + 1 = k + 1 => i = k
    BY <1>1, <1>3
  <2>2. f \in [S -> M] /\ \A i \in S : f[i] = i + 1
    OBVIOUS
  <2>3. \A k \in M : \E i \in S : f[i] = k
    OBVIOUS
  <2> HIDE DEF f, S, M
  <2> QED
    BY <2>1, <2>2, <2>3 DEF Bijection, Injection, Surjection, IsInjective
<1> HIDE DEF S, R, M, f
<1>7. IsFiniteSet(M) /\ Cardinality(M) = Cardinality(S)
  BY <1>2, <1>6, FS_Bijection DEF ExistsBijection
<1>8. Cardinality(R) = Cardinality(S) + (IF Head(q) = n THEN 1 ELSE 0)
  <2>1. Cardinality(M \cup {1}) = Cardinality(M) + 1
    BY <1>5, <1>7, FS_AddElement
  <2> QED
    BY <1>2, <1>4, <1>7, <2>1
<1> QED
  BY <1>8 DEF Copies, S, R

-----------------------------------------------------------------------------
(* What is owed to other hosts *)

\* The steps of handle_data that deal with a part of a recipient.
LEMMA SamePart ==
  ASSUME MailInv, NEW s \in Sessions,
         \/ ListGet(s) \/ ListInit(s) \/ ListCput(s) \/ BodyPut(s) \/ QueueMail(s) \/ ReadMqueue(s)
         \/ HandleForward(s) \/ HangRelay(s) \/ TruncMqueue(s) \/ WriteMqueue(s) \/ Hang(s) \/ SigPipe(s)
  PROVE  /\ rcpts' = rcpts /\ loc'[s].todo = loc[s].todo /\ loc'[s].mail = loc[s].mail
         /\ told'.acked = told.acked /\ told'.given = told.given
<1>0. loc \in [Sessions -> Locals] /\ loc[s] \in Locals
  BY SessionFacts DEF MailInv, MailType
<1>1. rcpts' = rcpts
  BY DEF ListGet, ListInit, ListCput, BodyPut, QueueMail, ReadMqueue, HandleForward, HangRelay,
         TruncMqueue, WriteMqueue, Hang, SigPipe, sessionVars
<1>2. told'.acked = told.acked /\ told'.given = told.given
  <2>1. HangRelay(s) \/ told' = told
        \/ \E x : \/ told' = [told EXCEPT !.wiped = x] \/ told' = [told EXCEPT !.overlap = x]
                  \/ told' = [told EXCEPT !.sent = x] \/ told' = [told EXCEPT !.refused = x]
    BY DEF ListGet, ListInit, ListCput, BodyPut, QueueMail, ReadMqueue, HandleForward,
       TruncMqueue, WriteMqueue, Hang, SigPipe
  <2> QED
    BY <2>1, HangRelayFacts, MailTypes DEF Told
<1>3. \E m, l : \/ loc' = loc \/ loc' = [loc EXCEPT ![s].msgs = m, ![s].left = l] \/ loc' = [loc EXCEPT ![s].old = l]
                \/ loc' = [loc EXCEPT ![s].left = l] \/ loc' = [loc EXCEPT ![s].msgs = m]
  <2>1. CASE \/ QueueMail(s) \/ HangRelay(s) \/ TruncMqueue(s) \/ ListInit(s) \/ ListCput(s)
             \/ BodyPut(s) \/ Hang(s) \/ SigPipe(s)
    BY <2>1 DEF HangRelay, QueueMail, TruncMqueue, ListInit, ListCput, BodyPut, Hang, SigPipe, sessionVars
  <2>2. CASE ReadMqueue(s) \/ WriteMqueue(s) \/ ListGet(s)
    BY <2>2 DEF ReadMqueue, WriteMqueue, ListGet
  <2>3. CASE HandleForward(s)
    <3>1. \/ loc' = [loc EXCEPT ![s].msgs = Tail(loc[s].msgs)]
          \/ loc' = [loc EXCEPT ![s].msgs = Tail(loc[s].msgs), ![s].left = Append(@, Head(loc[s].msgs))]
      BY <2>3 DEF HandleForward
    <3> QED
      BY <3>1
  <2> QED
    BY <2>1, <2>2, <2>3
<1>4. loc'[s].todo = loc[s].todo /\ loc'[s].mail = loc[s].mail
  BY <1>0, <1>3 DEF Locals
<1> QED
  BY <1>1, <1>2, <1>4

\* A step that neither queues nor acknowledges a mail owes what was owed.
LEMMA OwedStep ==
  ASSUME MailInv, NEW s \in Sessions, Only(s), told'.acked = told.acked,
         Queued(s)' <=> Queued(s), Queued(s) => loc'[s].mail = loc[s].mail
  PROVE  \A n : Owed(n)' <=> Owed(n)
<1>1. ASSUME NEW t \in Sessions
      PROVE  (Queued(t)' <=> Queued(t)) /\ (Queued(t) => loc'[t].mail = loc[t].mail)
  BY <1>1 DEF Only, Queued
<1> QED
  BY <1>1 DEF Owed

LEMMA PartOwed ==
  ASSUME MailInv, NEW s \in Sessions,
         \/ ListGet(s) \/ ListInit(s) \/ ListCput(s) \/ BodyPut(s) \/ ReadMqueue(s)
         \/ HandleForward(s) \/ TruncMqueue(s) \/ WriteMqueue(s) \/ HangRelay(s) \/ Hang(s) \/ SigPipe(s)
  PROVE  \A n : Owed(n)' <=> Owed(n)
<1>1. pc \in [Sessions -> Places] /\ cut \subseteq {t \in Sessions : pc[t] \in KvPlaces}
  BY DEF MailInv, MailType
<1>2. pc'[s] = pc[s] \/ (pc[s] \notin {"ready", "queue"} /\ pc'[s] \notin {"ready", "queue"})
  <2>1. CASE ListGet(s) \/ ListInit(s) \/ ListCput(s) \/ BodyPut(s)
    BY <1>1, <2>1 DEF ListGet, ListInit, ListCput, BodyPut, From, To
  <2>2. CASE ReadMqueue(s) \/ HandleForward(s) \/ HangRelay(s) \/ TruncMqueue(s) \/ WriteMqueue(s)
    BY <1>1, <2>2 DEF ReadMqueue, HandleForward, HangRelay, TruncMqueue, WriteMqueue, From, To
  <2>3. CASE Hang(s) \/ SigPipe(s)
    BY <1>1, <2>3 DEF Hang, SigPipe, KvPlaces, sessionVars
  <2> QED
    BY <2>1, <2>2, <2>3
<1>3. Only(s)
  BY SessionOnly DEF Deliver
<1>4. Queued(s)' <=> Queued(s)
  BY <1>2, SamePart DEF Queued
<1> QED
  BY <1>3, <1>4, SamePart, OwedStep

LEMMA ConverseOwed ==
  ASSUME MailInv, NEW s \in Sessions, Converse(s)
  PROVE  \A n : Owed(n)' <=> Owed(n)
<1>1. pc[s] = "ready" /\ pc \in [Sessions -> Places] /\ loc \in [Sessions -> Locals] /\ loc[s] \in Locals
  BY SessionFacts DEF Converse, Helo, MailFrom, RcptTo, DataStart, DataLine, DataEnd, Rset, Quit,
     Command, Ready, MailInv, MailType
<1>2. pc'[s] = "ready" \/ (rcpts' = rcpts /\ loc'[s].todo = rcpts[s])
  <2>1. CASE DataEnd(s)
    BY <1>1, <2>1 DEF DataEnd, Locals
  <2>2. CASE pc' = pc
    BY <1>1, <2>2
  <2> QED
    BY <2>1, <2>2 DEF Converse, Helo, MailFrom, RcptTo, DataStart, DataLine, Rset, Quit
<1>3. ~Queued(s) /\ ~Queued(s)'
  BY <1>1, <1>2 DEF Queued
<1>4. told'.acked = told.acked
  BY MailTypes DEF Converse, Helo, MailFrom, RcptTo, DataStart, DataLine, DataEnd, Rset, Quit, Told
<1> QED
  BY <1>3, <1>4, SessionOnly, OwedStep

\* What a session owed, the acknowledgement of its mail owes.
LEMMA NextRcptOwed ==
  ASSUME MailInv, NEW s \in Sessions, NextRcpt(s)
  PROVE  \A n : Owed(n)' <=> Owed(n)
<1>0. /\ pc[s] = "rcpt" /\ pc \in [Sessions -> Places] /\ loc \in [Sessions -> Locals] /\ loc[s] \in Locals
      /\ From(s, "rcpt") /\ rcpts[s] = told.given[s]
  BY SessionFacts, HandleFacts DEF NextRcpt, From, MailInv, MailType
<1>1. Only(s)
  BY SessionOnly DEF Deliver
<1>2. ASSUME NEW r \in loc[s].todo,
             loc' = [loc EXCEPT ![s].todo = @ \ {r}, ![s].box = "inbox"],
             To(s, IF r = "local" THEN "listGet" ELSE "queue"), UNCHANGED <<rcpts, data, told>>
      PROVE  \A n : Owed(n)' <=> Owed(n)
  <2>1. loc'[s].todo = loc[s].todo \ {r} /\ loc'[s].mail = loc[s].mail
    BY <1>0, <1>2 DEF Locals
  <2>2. pc'[s] = IF r = "local" THEN "listGet" ELSE "queue"
    BY <1>0, <1>2 DEF To
  <2>3. r \in {"local", "remote"}
    BY SessionFacts DEF Rcpts
  <2>4. Queued(s)' <=> Queued(s)
    BY <1>0, <1>2, <2>1, <2>2, <2>3 DEF Queued
  <2> QED
    BY <1>1, <1>2, <2>1, <2>4, OwedStep
<1>3. ASSUME loc[s].todo = {}, To(s, "ready"),
             told' = [told EXCEPT !.acked = @ \cup {[mail |-> loc[s].mail, hash |-> data[s], to |-> told.given[s]]}]
      PROVE  \A n : Owed(n)' <=> Owed(n)
  <2>1. PICK m : m = [mail |-> loc[s].mail, hash |-> data[s], to |-> told.given[s]]
    OBVIOUS
  <2>2. told'.acked = told.acked \cup {m} /\ m.mail = loc[s].mail /\ m.to = rcpts[s]
    BY <1>0, <1>3, <2>1, MailTypes DEF Told
  <2>3. pc'[s] = "ready" /\ ~Queued(s)'
    BY <1>0, <1>3 DEF To, Queued
  <2>4. Queued(s) <=> "remote" \in m.to
    BY <1>0, <1>3, <2>2 DEF Queued
  <2>5. \A t \in Sessions \ {s} : (Queued(t)' <=> Queued(t)) /\ loc'[t].mail = loc[t].mail
    BY <1>1 DEF Only, Queued
  <2> QED
    BY <2>2, <2>3, <2>4, <2>5 DEF Owed
<1> QED
  BY <1>2, <1>3 DEF NextRcpt

-----------------------------------------------------------------------------
(* A mail for another host is queued or sent once *)

\* The mails a step neither sends nor sends again.
SameGone == told'.sent = told.sent /\ told'.refused = told.refused /\ told'.unfinished = told.unfinished

LEMMA CountsNat ==
  ASSUME MailInv, NEW n
  PROVE  /\ Gone(told, n) \in Nat /\ Copies(mqueue, n) \in Nat
         /\ \A s \in Sessions : Held(loc[s], n) \in Nat
<1>1. told.sent \in Seq(MailNumbers) /\ told.refused \in Seq(MailNumbers)
  BY MailTypes DEF Told
<1>2. Gone(told, n) \in Nat
  <2>1. Copies(told.sent, n) \in Nat /\ Copies(told.refused, n) \in Nat
    BY <1>1, CountNat
  <2> QED
    BY <2>1 DEF Gone
<1>3. mqueue \in Seq(MailNumbers)
  BY MailTypes
<1>4. Copies(mqueue, n) \in Nat
  BY <1>3, CountNat
<1>5. ASSUME NEW s \in Sessions PROVE Held(loc[s], n) \in Nat
  <2>1. loc[s].msgs \in Seq(MailNumbers) /\ loc[s].left \in Seq(MailNumbers)
    BY SessionFacts
  <2>2. Copies(loc[s].msgs, n) \in Nat /\ Copies(loc[s].left, n) \in Nat
    BY <2>1, CountNat
  <2> QED
    BY <2>2 DEF Held
<1> QED
  BY <1>2, <1>4, <1>5

\* A step that moves no mail between the queue, a relay and the other hosts.
LEMMA RelayCalm ==
  ASSUME RelayInv, told'.overlap = told.overlap, SameGone, mqueue' = mqueue,
         \A s \in Sessions : Relaying(s)' <=> Relaying(s),
         \A s \in Sessions : Relaying(s) => /\ loc'[s].msgs = loc[s].msgs /\ loc'[s].left = loc[s].left
                                            /\ pc'[s] = pc[s],
         \A n : Owed(n)' <=> Owed(n)
  PROVE  RelayInv'
<1> SUFFICES ASSUME ~told.overlap PROVE /\ \A s, t \in Sessions : Relaying(s)' /\ Relaying(t)' => s = t
                                        /\ \A s \in Sessions : pc'[s] = "relWrite" => mqueue' = <<>>
                                        /\ \A n \in MailNumbers : Relayed(n)' /\ Single(n)'
  BY DEF RelayInv
<1>1. \A s, t \in Sessions : Relaying(s)' /\ Relaying(t)' => s = t
  BY DEF RelayInv
<1>2. \A s \in Sessions : pc'[s] = "relWrite" => mqueue' = <<>>
  <2>1. \A s \in Sessions : pc'[s] = "relWrite" => Relaying(s)'
    BY DEF Relaying
  <2> QED
    BY <2>1 DEF RelayInv
<1>3. ASSUME NEW n \in MailNumbers PROVE Relayed(n)' /\ Single(n)'
  <2>1. Relayed(n) /\ Single(n) /\ (Owed(n)' <=> Owed(n))
    BY DEF RelayInv
  <2>2. Gone(told', n) = Gone(told, n) /\ (n \in told'.unfinished <=> n \in told.unfinished)
    BY DEF Gone, SameGone
  <2>3. ASSUME NEW s \in Sessions, Relaying(s)'
        PROVE  Relaying(s) /\ Held(loc'[s], n) = Held(loc[s], n) /\ pc'[s] = pc[s]
    BY <2>3 DEF Held
  <2>4. ASSUME NEW c, Stands(n, c) PROVE Settled(Owed(n)', n \in told'.unfinished, c)
    BY <2>1, <2>2, <2>4 DEF Stands, Settled
  <2>5. Relayed(n)'
    <3>1. ASSUME NEW s \in Sessions, Relaying(s)'
          PROVE  Settled(Owed(n)', n \in told'.unfinished, Held(loc'[s], n) + Gone(told', n))
      BY <2>1, <2>2, <2>3, <2>4, <3>1 DEF Relayed
    <3>2. ASSUME \A s \in Sessions : ~Relaying(s)'
          PROVE  Settled(Owed(n)', n \in told'.unfinished, Copies(mqueue', n) + Gone(told', n))
      BY <2>1, <2>2, <2>4, <3>2 DEF Relayed
    <3> QED
      BY <3>1, <3>2 DEF Relayed, Stands
  <2>6. Single(n)'
    BY <2>1, <2>3 DEF Single
  <2> QED
    BY <2>5, <2>6
<1> QED
  BY <1>1, <1>2, <1>3

\* A session that does not relay.
LEMMA SessionCalm ==
  ASSUME MailInv, RelayInv, NEW s \in Sessions, Only(s), ~Relaying(s), ~Relaying(s)',
         told'.overlap = told.overlap, SameGone, mqueue' = mqueue,
         \A n : Owed(n)' <=> Owed(n)
  PROVE  RelayInv'
<1>1. ASSUME NEW t \in Sessions
      PROVE  /\ Relaying(t)' <=> Relaying(t)
             /\ Relaying(t) => loc'[t] = loc[t] /\ pc'[t] = pc[t]
  BY DEF Only, Relaying
<1> QED
  BY <1>1, RelayCalm

LEMMA ConverseRelay ==
  ASSUME MailInv, RelayInv, NEW s \in Sessions, Converse(s)
  PROVE  RelayInv'
<1>1. pc[s] = "ready" /\ pc \in [Sessions -> Places]
  BY DEF Converse, Helo, MailFrom, RcptTo, DataStart, DataLine, DataEnd, Rset, Quit,
     Command, Ready, MailInv, MailType
<1>2. pc'[s] \in {"ready", "listGet"}
  BY <1>1 DEF Converse, Helo, MailFrom, RcptTo, DataStart, DataLine, DataEnd, Rset, Quit
<1>3. mqueue' = mqueue
  BY DEF Converse, Helo, MailFrom, RcptTo, DataStart, DataLine, DataEnd, Rset, Quit, storeVars
<1>4. told'.overlap = told.overlap /\ SameGone
  BY MailTypes DEF Converse, Helo, MailFrom, RcptTo, DataStart, DataLine, DataEnd, Rset, Quit, Told, SameGone
<1> QED
  BY <1>1, <1>2, <1>3, <1>4, SessionOnly, ConverseOwed, SessionCalm DEF Relaying

LEMMA StoreRelay ==
  ASSUME MailInv, RelayInv, NEW s \in Sessions,
         ListGet(s) \/ ListInit(s) \/ ListCput(s) \/ BodyPut(s) \/ NextRcpt(s)
  PROVE  RelayInv'
<1>1. pc \in [Sessions -> Places]
  BY DEF MailInv, MailType
<1>2. pc[s] \in KvPlaces \cup {"rcpt"} /\ pc'[s] \in KvPlaces \cup {"rcpt", "relRead", "ready", "queue"}
  BY <1>1 DEF ListGet, ListInit, ListCput, BodyPut, NextRcpt, From, To, KvPlaces
<1>3. mqueue' = mqueue
  BY DEF ListGet, ListInit, ListCput, BodyPut, NextRcpt
<1>4. told'.overlap = told.overlap /\ SameGone
  <2>1. told' = told \/ \E x : told' = [told EXCEPT !.wiped = x] \/ told' = [told EXCEPT !.acked = x]
    BY DEF ListGet, ListInit, ListCput, BodyPut, NextRcpt
  <2> QED
    BY <2>1, MailTypes DEF Told, SameGone
<1>5. Only(s)
  BY SessionOnly DEF Deliver
<1>6. \A n : Owed(n)' <=> Owed(n)
  BY PartOwed, NextRcptOwed
<1>7. ~Relaying(s) /\ ~Relaying(s)'
  BY <1>2 DEF Relaying, KvPlaces
<1> QED
  BY <1>3, <1>4, <1>5, <1>6, <1>7, SessionCalm

LEMMA StuckRelay ==
  ASSUME MailInv, RelayInv, NEW s \in Sessions, Hang(s)
  PROVE  RelayInv'
<1>1. pc \in [Sessions -> Places] /\ pc[s] \in KvPlaces
  BY DEF MailInv, MailType, Hang
<1>2. pc'[s] \in KvPlaces \cup {"stuck"}
  BY <1>1 DEF Hang
<1>3. mqueue' = mqueue /\ told' = told
  BY DEF Hang
<1>4. Only(s)
  BY SessionOnly DEF Deliver
<1>5. \A n : Owed(n)' <=> Owed(n)
  BY PartOwed
<1>6. ~Relaying(s) /\ ~Relaying(s)'
  BY <1>1, <1>2 DEF Relaying, KvPlaces
<1> QED
  BY <1>3, <1>4, <1>5, <1>6, SessionCalm DEF SameGone

LEMMA PipeRelay ==
  ASSUME MailInv, RelayInv, NEW s \in Sessions, SigPipe(s)
  PROVE  RelayInv'
<1>1. UNCHANGED <<mqueue, pc, loc, told>>
  BY DEF SigPipe, storeVars, sessionVars
<1>2. \A n : Owed(n)' <=> Owed(n)
  BY PartOwed
<1> QED
  BY <1>1, <1>2, RelayCalm DEF SameGone, Relaying

\* A mail is queued once: nothing with its number was owed before.
LEMMA QueueRelay ==
  ASSUME MailInv, RelayInv, NEW s \in Sessions, QueueMail(s)
  PROVE  RelayInv'
<1>1. /\ pc \in [Sessions -> Places] /\ From(s, "queue") /\ pc[s] = "queue" /\ Only(s)
      /\ At(s, "queue", loc[s]) /\ loc[s].mail \in MailNumbers /\ Active(s)
      /\ loc' = loc /\ rcpts' = rcpts
      /\ told' = [told EXCEPT !.overlap = Overlap(s)] /\ pc' = [pc EXCEPT ![s] = "relRead"]
      /\ mqueue \in Seq(MailNumbers)
  BY SessionOnly, HandleFacts, MailTypes DEF QueueMail, To, MailInv, MailType, Deliver
<1>2. PICK m : m = loc[s].mail
  OBVIOUS
<1>3. mqueue' = Append(mqueue, m)
  BY <1>2 DEF QueueMail
<1>4. told'.overlap = Overlap(s) /\ SameGone /\ told'.acked = told.acked
  BY <1>1, MailTypes DEF Told, SameGone
<1> SUFFICES ASSUME ~told'.overlap PROVE RelayInv'
  BY DEF RelayInv
<1>5. ~told.overlap /\ \A t \in Sessions : ~Relaying(t)
  BY <1>1, <1>4 DEF Overlap, Relaying
<1>6. \A t \in Sessions : ~Relaying(t)'
  BY <1>1, <1>5 DEF Only, Relaying
<1>7. ~Queued(s) /\ Queued(s)'
  BY <1>1 DEF Queued, At
<1>8. \A t \in Sessions \ {s} : (Queued(t)' <=> Queued(t)) /\ loc'[t].mail = loc[t].mail
  BY <1>1 DEF Queued, Only
<1>9. ~Owed(m) /\ Owed(m)'
  <2>1. \A k \in told.acked : k.mail # m
    BY <1>1, <1>2 DEF MailInv, Numbered
  <2>2. \A t \in Sessions : Queued(t) => Active(t)
    BY DEF Queued, Active
  <2>3. \A t \in Sessions \ {s} : Queued(t) => loc[t].mail # m
    BY <1>1, <1>2, <2>2 DEF MailInv, Numbered
  <2>4. ~Owed(m)
    BY <1>7, <2>1, <2>3 DEF Owed
  <2>5. Owed(m)'
    BY <1>1, <1>2, <1>7 DEF Owed
  <2> QED
    BY <2>4, <2>5
<1>10. ASSUME NEW n, n # m PROVE Owed(n)' <=> Owed(n)
  BY <1>1, <1>2, <1>4, <1>7, <1>8, <1>10 DEF Owed
<1>11. ASSUME NEW n \in MailNumbers PROVE Relayed(n)' /\ Single(n)'
  <2>1. Stands(n, Copies(mqueue, n) + Gone(told, n)) /\ Single(n)
    BY <1>5 DEF RelayInv, Relayed
  <2>2. Copies(mqueue', n) = Copies(mqueue, n) + (IF m = n THEN 1 ELSE 0)
    BY <1>1, <1>2, <1>3, CountAppend
  <2>3. Copies(mqueue, n) \in Nat /\ Gone(told, n) \in Nat
    BY CountsNat
  <2>4. Gone(told', n) = Gone(told, n) /\ (n \in told'.unfinished <=> n \in told.unfinished)
    BY <1>4 DEF Gone, SameGone
  <2>5. /\ Settled(Owed(n)', n \in told'.unfinished, Copies(mqueue', n) + Gone(told', n))
        /\ Copies(mqueue', n) <= 1 /\ (~Owed(n)' => Copies(mqueue', n) = 0)
    <3>1. CASE n = m
      BY <1>9, <2>1, <2>2, <2>3, <2>4, <3>1 DEF Stands, Settled, Single
    <3>2. CASE n # m
      BY <1>10, <2>1, <2>2, <2>3, <2>4, <3>2 DEF Stands, Settled, Single
    <3> QED
      BY <3>1, <3>2
  <2> QED
    BY <1>6, <2>5 DEF Relayed, Stands, Single
<1> QED
  BY <1>6, <1>11 DEF RelayInv, Relaying

LEMMA ReadRelay ==
  ASSUME MailInv, RelayInv, NEW s \in Sessions, ReadMqueue(s)
  PROVE  RelayInv'
<1> DEFINE a == IF mqueue = <<>> THEN "relTrunc" ELSE "relSend"
<1>1. /\ pc \in [Sessions -> Places] /\ loc \in [Sessions -> Locals] /\ loc[s] \in Locals
      /\ pc[s] = "relRead" /\ Only(s) /\ mqueue' = mqueue
      /\ loc' = [loc EXCEPT ![s].msgs = mqueue, ![s].left = <<>>]
      /\ told' = [told EXCEPT !.overlap = Overlap(s)] /\ pc' = [pc EXCEPT ![s] = a]
      /\ mqueue \in Seq(MailNumbers)
  BY SessionOnly, SessionFacts, MailTypes DEF ReadMqueue, From, To, MailInv, MailType, Deliver
<1>2. told'.overlap = Overlap(s) /\ SameGone
  BY <1>1, MailTypes DEF Told, SameGone
<1> SUFFICES ASSUME ~told'.overlap PROVE RelayInv'
  BY DEF RelayInv
<1>3. ~told.overlap /\ \A t \in Sessions : ~Relaying(t)
  BY <1>1, <1>2 DEF Overlap, Relaying
<1>4. \A t \in Sessions \ {s} : ~Relaying(t)'
  BY <1>1, <1>3 DEF Only, Relaying
<1>5. pc'[s] = a /\ loc'[s].msgs = mqueue /\ loc'[s].left = <<>>
  BY <1>1 DEF Locals
<1>6. Relaying(s)' /\ pc'[s] # "relWrite"
  BY <1>5 DEF Relaying
<1>7. \A n : Owed(n)' <=> Owed(n)
  BY PartOwed
<1>8. ASSUME NEW n \in MailNumbers PROVE Relayed(n)' /\ Single(n)'
  <2>1. Stands(n, Copies(mqueue, n) + Gone(told, n)) /\ Single(n)
    BY <1>3 DEF RelayInv, Relayed
  <2>2. <<>> \in Seq(MailNumbers)
    OBVIOUS
  <2>3. Copies(<<>>, n) = 0 /\ Copies(mqueue, n) \in Nat /\ Gone(told, n) \in Nat
    BY <2>2, CountNat, CountsNat
  <2>4. Held(loc'[s], n) = Copies(mqueue, n)
    BY <1>5, <2>3 DEF Held
  <2>5. Gone(told', n) = Gone(told, n) /\ (n \in told'.unfinished <=> n \in told.unfinished)
    BY <1>2 DEF Gone, SameGone
  <2>6. Settled(Owed(n)', n \in told'.unfinished, Held(loc'[s], n) + Gone(told', n))
    BY <1>7, <2>1, <2>4, <2>5 DEF Stands, Settled
  <2>7. /\ Copies(mqueue', n) <= 1 /\ (~Owed(n)' => Copies(mqueue', n) = 0)
        /\ Held(loc'[s], n) <= 1 /\ Held(loc'[s], n) <= Copies(mqueue', n)
    BY <1>1, <1>7, <2>1, <2>3, <2>4 DEF Single
  <2>8. Relayed(n)'
    BY <1>4, <1>6, <2>6 DEF Relayed, Stands
  <2>9. Single(n)'
    BY <1>4, <2>7 DEF Single
  <2> QED
    BY <2>8, <2>9
<1>9. \A t \in Sessions : pc'[t] = "relWrite" => Relaying(t)'
  BY DEF Relaying
<1> QED
  BY <1>4, <1>6, <1>8, <1>9 DEF RelayInv

\* A relay moves a mail out of its hands to the other host, or to what it will
\* write back; then it empties the file and writes what is left.
LEMMA RelayingStep ==
  ASSUME MailInv, RelayInv, NEW s \in Sessions, HandleForward(s) \/ TruncMqueue(s),
         told'.overlap = told.overlap, told'.unfinished = told.unfinished,
         Only(s), Relaying(s), Relaying(s)', pc'[s] = "relWrite" => mqueue' = <<>>,
         pc'[s] = "relSend" => pc[s] = "relSend" /\ mqueue' = mqueue,
         mqueue' = mqueue \/ mqueue' = <<>>,
         \A n \in MailNumbers :
           /\ Held(loc'[s], n) \in Nat /\ Held(loc'[s], n) <= Held(loc[s], n)
           /\ Held(loc'[s], n) + Gone(told', n) = Held(loc[s], n) + Gone(told, n)
  PROVE  RelayInv'
<1> SUFFICES ASSUME ~told.overlap PROVE RelayInv'
  BY DEF RelayInv
<1>1. \A t \in Sessions \ {s} : ~Relaying(t)
  BY DEF RelayInv
<1>2. \A t \in Sessions \ {s} : ~Relaying(t)'
  BY <1>1 DEF Only, Relaying
<1>3. \A n : Owed(n)' <=> Owed(n)
  BY PartOwed
<1>4. ASSUME NEW n \in MailNumbers PROVE Relayed(n)' /\ Single(n)'
  <2>1. Stands(n, Held(loc[s], n) + Gone(told, n)) /\ Single(n)
    BY DEF RelayInv, Relayed
  <2>2. Settled(Owed(n)', n \in told'.unfinished, Held(loc'[s], n) + Gone(told', n))
    BY <1>3, <2>1 DEF Stands, Settled
  <2>3. /\ Held(loc'[s], n) \in Nat /\ Held(loc'[s], n) <= Held(loc[s], n)
        /\ Held(loc[s], n) \in Nat /\ Copies(mqueue, n) \in Nat
    BY CountsNat
  <2>4. <<>> \in Seq(MailNumbers)
    OBVIOUS
  <2>5. mqueue' = mqueue \/ Copies(mqueue', n) = 0
    BY <2>4, CountNat
  <2>6. /\ Copies(mqueue', n) <= 1 /\ (~Owed(n)' => Copies(mqueue', n) = 0)
        /\ Held(loc'[s], n) <= 1 /\ (pc'[s] = "relSend" => Held(loc'[s], n) <= Copies(mqueue', n))
    BY <1>3, <2>1, <2>3, <2>5 DEF Single
  <2>7. Relayed(n)'
    BY <1>2, <2>2 DEF Relayed, Stands
  <2>8. Single(n)'
    BY <1>2, <2>6 DEF Single
  <2> QED
    BY <2>7, <2>8
<1>5. \A t \in Sessions : pc'[t] = "relWrite" => Relaying(t)'
  BY DEF Relaying
<1> QED
  BY <1>2, <1>4, <1>5 DEF RelayInv

LEMMA ForwardRelay ==
  ASSUME MailInv, RelayInv, NEW s \in Sessions, HandleForward(s)
  PROVE  RelayInv'
<1>1. PICK m, rest : m = Head(loc[s].msgs) /\ rest = Tail(loc[s].msgs)
  OBVIOUS
<1>2. /\ pc \in [Sessions -> Places] /\ loc \in [Sessions -> Locals] /\ loc[s] \in Locals
      /\ From(s, "relSend") /\ pc[s] = "relSend" /\ Only(s) /\ mqueue' = mqueue
      /\ loc[s].msgs \in Seq(MailNumbers) /\ loc[s].left \in Seq(MailNumbers)
      /\ pc' = [pc EXCEPT ![s] = IF rest = <<>> THEN "relTrunc" ELSE "relSend"]
  BY <1>1, SessionOnly, SessionFacts DEF HandleForward, From, To, MailInv, MailType, Deliver
<1>3. \/ told' = [told EXCEPT !.sent = Append(@, m)] /\ loc' = [loc EXCEPT ![s].msgs = rest]
      \/ told' = [told EXCEPT !.refused = Append(@, m)] /\ loc' = [loc EXCEPT ![s].msgs = rest]
      \/ told' = told /\ loc' = [loc EXCEPT ![s].msgs = rest, ![s].left = Append(@, m)]
  BY <1>1 DEF HandleForward
<1>4. loc[s].msgs # <<>>
  BY <1>2, HandleFacts DEF At
<1>5. m \in MailNumbers /\ rest \in Seq(MailNumbers)
  BY <1>1, <1>2, <1>4, TailRange
<1>6. /\ told.sent \in Seq(MailNumbers) /\ told.refused \in Seq(MailNumbers)
      /\ told'.overlap = told.overlap /\ told'.unfinished = told.unfinished
  BY <1>3, MailTypes DEF Told
<1>7. /\ loc'[s].msgs = rest
      /\ \/ /\ loc'[s].left = loc[s].left
            /\ told'.sent = Append(told.sent, m) /\ told'.refused = told.refused
         \/ /\ loc'[s].left = loc[s].left
            /\ told'.sent = told.sent /\ told'.refused = Append(told.refused, m)
         \/ /\ loc'[s].left = Append(loc[s].left, m)
            /\ told'.sent = told.sent /\ told'.refused = told.refused
  BY <1>2, <1>3, MailTypes DEF Locals, Told
<1>8. ASSUME NEW n \in MailNumbers
      PROVE  /\ Held(loc'[s], n) \in Nat /\ Held(loc'[s], n) <= Held(loc[s], n)
             /\ Held(loc'[s], n) + Gone(told', n) = Held(loc[s], n) + Gone(told, n)
  <2> DEFINE one == IF m = n THEN 1 ELSE 0
  <2>1. Copies(loc[s].msgs, n) = Copies(rest, n) + one
    BY <1>1, <1>2, <1>4, CountTail
  <2>2. /\ Copies(Append(told.sent, m), n) = Copies(told.sent, n) + one
        /\ Copies(Append(told.refused, m), n) = Copies(told.refused, n) + one
    BY <1>5, <1>6, CountAppend
  <2>3. Copies(Append(loc[s].left, m), n) = Copies(loc[s].left, n) + one
    BY <1>2, <1>5, CountAppend
  <2>4. /\ Copies(rest, n) \in Nat /\ Copies(loc[s].left, n) \in Nat /\ Copies(told.sent, n) \in Nat
        /\ Copies(told.refused, n) \in Nat /\ one \in Nat
    BY <1>2, <1>5, <1>6, CountNat
  <2> HIDE DEF one
  <2>5. CASE loc'[s].left = loc[s].left /\ told'.sent = Append(told.sent, m) /\ told'.refused = told.refused
    BY <1>7, <2>1, <2>2, <2>4, <2>5 DEF Held, Gone
  <2>6. CASE loc'[s].left = loc[s].left /\ told'.sent = told.sent /\ told'.refused = Append(told.refused, m)
    BY <1>7, <2>1, <2>2, <2>4, <2>6 DEF Held, Gone
  <2>7. CASE loc'[s].left = Append(loc[s].left, m) /\ told'.sent = told.sent /\ told'.refused = told.refused
    BY <1>7, <2>1, <2>3, <2>4, <2>7 DEF Held, Gone
  <2> QED
    BY <1>7, <2>5, <2>6, <2>7
<1>9. Relaying(s) /\ Relaying(s)' /\ pc'[s] # "relWrite"
  BY <1>2 DEF Relaying
<1> QED
  BY <1>2, <1>6, <1>8, <1>9, RelayingStep

\* What is neither left nor still to be sent has been dealt with, or was not
\* in the file.
LEMMA DealtCounts ==
  ASSUME MailInv, NEW s \in Sessions, loc[s].msgs # <<>>, NEW n
  PROVE  /\ n \in Range(mqueue) <=> Copies(mqueue, n) # 0
         /\ n \in Range(loc[s].left) <=> Copies(loc[s].left, n) # 0
         /\ n \in Range(Tail(loc[s].msgs)) <=> Copies(Tail(loc[s].msgs), n) # 0
<1>1. ASSUME NEW q \in Seq(MailNumbers) PROVE n \in Range(q) <=> Copies(q, n) # 0
  <2> DEFINE S == {i \in DOMAIN q : q[i] = n}
  <2>1. IsFiniteSet(S)
    BY CountNat
  <2>2. Copies(q, n) = 0 <=> S = {}
    BY <2>1, FS_EmptySet DEF Copies
  <2> QED
    BY <2>2 DEF Range
<1>2. /\ mqueue \in Seq(MailNumbers) /\ loc[s].left \in Seq(MailNumbers)
      /\ Tail(loc[s].msgs) \in Seq(MailNumbers)
  BY MailTypes, SessionFacts, TailRange
<1> QED
  BY <1>1, <1>2

\* The file still has what the relay has dealt with: it is sent again.
LEMMA HangRelayRelay ==
  ASSUME MailInv, RelayInv, NEW s \in Sessions, HangRelay(s)
  PROVE  RelayInv'
<1>1. PICK m, rest : m = Head(loc[s].msgs) /\ rest = Tail(loc[s].msgs)
  OBVIOUS
<1>2. /\ From(s, "relSend") /\ mqueue' = mqueue /\ loc' = loc /\ loc[s].msgs # <<>>
      /\ pc' = [pc EXCEPT ![s] = "relStuck"] /\ told'.overlap = told.overlap
      /\ told'.refused = told.refused /\ told'.unfinished = told.unfinished \cup Dealt(s)
      /\ told'.sent = told.sent \/ told'.sent = Append(told.sent, m)
  BY <1>1, HangRelayFacts
<1>3. pc[s] = "relSend" /\ pc \in [Sessions -> Places] /\ Only(s)
  BY <1>2, SessionOnly DEF From, MailInv, MailType, Deliver
<1> SUFFICES ASSUME ~told.overlap PROVE RelayInv'
  BY <1>2 DEF RelayInv
<1>4. Relaying(s) /\ \A t \in Sessions \ {s} : ~Relaying(t)
  BY <1>3 DEF RelayInv, Relaying
<1>5. \A t \in Sessions : ~Relaying(t)' /\ pc'[t] # "relWrite"
  BY <1>2, <1>3, <1>4 DEF Only, Relaying
<1>6. \A n : Owed(n)' <=> Owed(n)
  BY PartOwed
<1>7. ASSUME NEW n \in MailNumbers PROVE Relayed(n)' /\ Single(n)'
  <2> DEFINE one == IF m = n THEN 1 ELSE 0
             c == Copies(rest, n)
             d == Copies(loc[s].left, n)
             q == Copies(mqueue, n)
  <2>1. Stands(n, Held(loc[s], n) + Gone(told, n)) /\ Single(n)
    BY <1>4 DEF RelayInv, Relayed
  <2>2. /\ loc[s].msgs \in Seq(MailNumbers) /\ loc[s].left \in Seq(MailNumbers)
        /\ told.sent \in Seq(MailNumbers) /\ told.refused \in Seq(MailNumbers)
    BY SessionFacts, MailTypes DEF Told
  <2>3. m \in MailNumbers /\ rest \in Seq(MailNumbers)
    BY <1>1, <1>2, <2>2, TailRange
  <2>4. Copies(loc[s].msgs, n) = c + one
    BY <1>1, <1>2, <2>2, CountTail
  <2>5. Held(loc[s], n) = c + one + d
    <3>1. c \in Nat /\ d \in Nat
      BY <2>2, <2>3, CountNat
    <3> QED
      BY <2>4, <3>1 DEF Held
  <2>6. c \in Nat /\ d \in Nat /\ q \in Nat /\ Gone(told, n) \in Nat /\ one \in {0, 1}
    BY <2>2, <2>3, CountNat, CountsNat
  <2>7. Gone(told', n) = Gone(told, n) \/ Gone(told', n) = Gone(told, n) + one
    <3>1. Copies(Append(told.sent, m), n) = Copies(told.sent, n) + one
      BY <2>2, <2>3, CountAppend
    <3>2. Copies(told.sent, n) \in Nat /\ Copies(told.refused, n) \in Nat
      BY <2>2, CountNat
    <3>3. told'.refused = told.refused /\ (told'.sent = told.sent \/ told'.sent = Append(told.sent, m))
      BY <1>2
    <3> HIDE DEF one
    <3>4. CASE told'.sent = told.sent
      BY <3>3, <3>4 DEF Gone
    <3>5. CASE told'.sent = Append(told.sent, m)
      <4>1. Gone(told', n) = Copies(told.sent, n) + one + Copies(told.refused, n)
        BY <3>1, <3>3, <3>5 DEF Gone
      <4> QED
        BY <2>6, <3>2, <4>1 DEF Gone
    <3> QED
      BY <3>3, <3>4, <3>5
  <2>8. n \notin told'.unfinished => n \notin told.unfinished /\ (q = 0 \/ c # 0 \/ d # 0)
    BY <1>1, <1>2, DealtCounts DEF Dealt
  <2> HIDE DEF one, c, d, q
  <2>9. Settled(Owed(n)', n \in told'.unfinished, q + Gone(told', n))
    <3>1. q <= 1 /\ (~Owed(n) => q = 0) /\ c + one + d <= 1 /\ c + one + d <= q
      BY <1>3, <1>4, <2>1, <2>5 DEF Single, q
    <3>2. Settled(Owed(n), n \in told.unfinished, c + one + d + Gone(told, n))
      BY <2>1, <2>5 DEF Stands
    <3>3. CASE ~Owed(n)
      <4>1. c + one + d + Gone(told, n) = 0
        BY <3>2, <3>3 DEF Settled
      <4>2. q = 0
        BY <2>6, <3>1, <3>3
      <4>3. Gone(told', n) = 0
        BY <2>6, <2>7, <4>1
      <4>4. q + Gone(told', n) = 0
        BY <4>2, <4>3
      <4>5. ~Owed(n)'
        BY <1>6, <3>3
      <4> QED
        BY <4>4, <4>5 DEF Settled
    <3>4. CASE Owed(n)
      <4>1. q + Gone(told', n) >= 1
        BY <2>6, <2>7, <3>1, <3>2, <3>4 DEF Settled
      <4>2. n \notin told'.unfinished => q + Gone(told', n) = 1
        BY <2>6, <2>7, <2>8, <3>1, <3>2, <3>4 DEF Settled
      <4> QED
        BY <1>6, <3>4, <4>1, <4>2 DEF Settled
    <3> QED
      BY <3>3, <3>4
  <2>10. Relayed(n)'
    BY <1>2, <1>5, <2>9 DEF Relayed, Stands, q
  <2>11. Single(n)'
    BY <1>2, <1>5, <1>6, <2>1 DEF Single
  <2> QED
    BY <2>10, <2>11
<1> QED
  BY <1>5, <1>7 DEF RelayInv

LEMMA TruncRelay ==
  ASSUME MailInv, RelayInv, NEW s \in Sessions, TruncMqueue(s)
  PROVE  RelayInv'
<1>1. /\ pc \in [Sessions -> Places] /\ pc[s] = "relTrunc" /\ Only(s) /\ loc' = loc /\ told' = told
      /\ mqueue' = <<>> /\ pc' = [pc EXCEPT ![s] = "relWrite"]
  BY SessionOnly DEF TruncMqueue, From, To, MailInv, MailType, Deliver
<1>2. Relaying(s) /\ Relaying(s)' /\ pc'[s] # "relSend"
  BY <1>1 DEF Relaying
<1>3. \A n : Held(loc[s], n) \in Nat
  BY CountsNat
<1> QED
  BY <1>1, <1>2, <1>3, RelayingStep

LEMMA WriteRelay ==
  ASSUME MailInv, RelayInv, NEW s \in Sessions, WriteMqueue(s)
  PROVE  RelayInv'
<1>1. /\ pc \in [Sessions -> Places] /\ From(s, "relWrite") /\ pc[s] = "relWrite" /\ Only(s) /\ told' = told
      /\ pc' = [pc EXCEPT ![s] = "rcpt"] /\ loc[s].left \in Seq(MailNumbers)
      /\ mqueue' = loc[s].left \o SubSeq(mqueue, Len(loc[s].left) + 1, Len(mqueue))
  BY SessionOnly, SessionFacts DEF WriteMqueue, From, To, MailInv, MailType, Deliver
<1> SUFFICES ASSUME ~told.overlap PROVE RelayInv'
  BY <1>1 DEF RelayInv
<1>2. loc[s].msgs = <<>> /\ mqueue = <<>> /\ Relaying(s)
  BY <1>1, HandleFacts DEF At, RelayInv, Relaying
<1>3. mqueue' = loc[s].left
  <2>1. PICK l \in Seq(MailNumbers) : l = loc[s].left
    BY <1>1
  <2>2. SubSeq(<<>>, Len(l) + 1, 0) = <<>>
    OBVIOUS
  <2>3. l \o <<>> = l /\ Len(<<>>) = 0
    OBVIOUS
  <2> QED
    BY <1>1, <1>2, <2>1, <2>2, <2>3
<1>4. \A t \in Sessions : ~Relaying(t)'
  <2>1. \A t \in Sessions \ {s} : ~Relaying(t)
    BY <1>2 DEF RelayInv
  <2> QED
    BY <1>1, <2>1 DEF Only, Relaying
<1>5. \A n : Owed(n)' <=> Owed(n)
  BY PartOwed
<1>6. ASSUME NEW n \in MailNumbers PROVE Relayed(n)' /\ Single(n)'
  <2>1. Stands(n, Held(loc[s], n) + Gone(told, n)) /\ Single(n)
    BY <1>2 DEF RelayInv, Relayed
  <2>2. <<>> \in Seq(MailNumbers)
    OBVIOUS
  <2>3. Copies(<<>>, n) = 0 /\ Copies(loc[s].left, n) \in Nat /\ Gone(told, n) \in Nat
    BY <1>1, <2>2, CountNat, CountsNat
  <2>4. Held(loc[s], n) = Copies(mqueue', n)
    BY <1>2, <1>3, <2>3 DEF Held
  <2>5. Settled(Owed(n)', n \in told'.unfinished, Copies(mqueue', n) + Gone(told', n))
    BY <1>1, <1>5, <2>1, <2>4 DEF Stands, Settled
  <2>6. Copies(mqueue', n) <= 1 /\ (~Owed(n)' => Copies(mqueue', n) = 0)
    BY <1>2, <1>3, <1>5, <2>1, <2>3, <2>4 DEF Single, Stands, Settled
  <2> QED
    BY <1>4, <2>5, <2>6 DEF Relayed, Stands, Single
<1> QED
  BY <1>4, <1>6 DEF RelayInv, Relaying

LEMMA NextRelay == MailInv /\ RelayInv /\ [Next]_vars => RelayInv'
<1> SUFFICES ASSUME MailInv, RelayInv, [Next]_vars PROVE RelayInv'
  OBVIOUS
<1>1. ASSUME NEW s \in Sessions, Converse(s) PROVE RelayInv'
  BY <1>1, ConverseRelay
<1>2. ASSUME NEW s \in Sessions, Deliver(s) PROVE RelayInv'
  BY <1>2, StoreRelay, StuckRelay, PipeRelay, QueueRelay, ReadRelay, ForwardRelay, HangRelayRelay,
     TruncRelay, WriteRelay DEF Deliver
<1>3. ASSUME UNCHANGED <<mqueue, rcpts, pc, loc>>, told'.acked = told.acked,
             told'.overlap = told.overlap, SameGone
      PROVE  RelayInv'
  <2>1. \A s \in Sessions : (Queued(s)' <=> Queued(s)) /\ (Relaying(s)' <=> Relaying(s))
    BY <1>3 DEF Queued, Relaying
  <2>2. \A n : Owed(n)' <=> Owed(n)
    BY <1>3, <2>1 DEF Owed
  <2> QED
    BY <1>3, <2>1, <2>2, RelayCalm
<1>4. ASSUME NEW p \in Pages, ShowMail(p) \/ DeleteMail(p) \/ Serve(p) PROVE RelayInv'
  BY <1>3, <1>4, PageOnly DEF SameGone
<1>5. CASE PrimaryDies \/ UNCHANGED vars
  <2>1. UNCHANGED <<mqueue, rcpts, pc, loc, told>>
    BY <1>5 DEF PrimaryDies, sessionVars, vars
  <2> QED
    BY <1>3, <2>1 DEF SameGone
<1> QED
  BY <1>1, <1>2, <1>4, <1>5 DEF Next

\* A mail that was answered 250 OK and goes to another host is in the queue, or
\* another host has taken or refused it, and only one of these unless a relay
\* was left after it had dealt with it, and no other mail is, once the relays
\* are done and as long as none started, and no mail was queued, while another
\* ran.
THEOREM MailRelayedOnce == Spec => []RelayedOnce
<1>1. Init => RelayInv
  <2> SUFFICES ASSUME Init, NEW n \in MailNumbers
               PROVE  Relayed(n) /\ Single(n) /\ \A s \in Sessions : pc[s] = "ready" /\ ~Relaying(s)
    BY DEF RelayInv, Init, Relaying
  <2>1. \A s \in Sessions : pc[s] = "ready" /\ ~Relaying(s)
    BY DEF Init, Relaying
  <2>2. ~Owed(n)
    BY <2>1 DEF Init, Owed, Queued
  <2>3. <<>> \in Seq(MailNumbers)
    OBVIOUS
  <2>4. Copies(<<>>, n) = 0
    BY <2>3, CountNat
  <2>5. mqueue = <<>> /\ told.sent = <<>> /\ told.refused = <<>>
    BY DEF Init
  <2> QED
    BY <2>1, <2>2, <2>4, <2>5 DEF Relayed, Stands, Settled, Gone, Single
<1>2. MailInv /\ RelayInv => RelayedOnce
  <2> SUFFICES ASSUME MailInv, RelayInv, ~told.overlap, \A s \in Sessions : ~Relaying(s), NEW m \in told.acked
               PROVE  LET c == Copies(mqueue, m.mail) + Copies(told.sent, m.mail) + Copies(told.refused, m.mail)
                      IN  IF "remote" \in m.to THEN c >= 1 /\ (m.mail \notin told.unfinished => c = 1)
                                               ELSE c = 0
    BY DEF RelayedOnce
  <2>1. m.mail \in MailNumbers
    BY MailTypes DEF Told
  <2>2. Owed(m.mail) <=> "remote" \in m.to
    <3>1. \A s \in Sessions : Queued(s) => Active(s)
      BY DEF Queued, Active
    <3> QED
      BY <3>1 DEF Owed, MailInv, Numbered
  <2>3. Stands(m.mail, Copies(mqueue, m.mail) + Gone(told, m.mail))
    BY <2>1 DEF RelayInv, Relayed
  <2>4. Copies(mqueue, m.mail) + Gone(told, m.mail)
          = Copies(mqueue, m.mail) + Copies(told.sent, m.mail) + Copies(told.refused, m.mail)
    <3>1. /\ mqueue \in Seq(MailNumbers) /\ told.sent \in Seq(MailNumbers) /\ told.refused \in Seq(MailNumbers)
      BY MailTypes DEF Told
    <3>2. /\ Copies(mqueue, m.mail) \in Nat /\ Copies(told.sent, m.mail) \in Nat
          /\ Copies(told.refused, m.mail) \in Nat
      BY <3>1, CountNat
    <3> QED
      BY <3>2 DEF Gone
  <2> QED
    BY <2>2, <2>3, <2>4 DEF Stands, Settled
<1> QED
  BY <1>1, <1>2, MailRoles, NextRelay, PTL DEF Spec
=============================================================================
