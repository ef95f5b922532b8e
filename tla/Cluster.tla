------------------------------- MODULE Cluster -------------------------------
(***************************************************************************)
(* One storage node of PennCloud: its two data servers (rep 0 and rep 1 of *)
(* a line of kvstore/serverlist.txt), the master that watches and promotes *)
(* them (kvstore/master/master.h), the BackStore through which the primary *)
(* forwards its updates (kvstore/backStore.cc), and the recovery of a      *)
(* server that is started again with -r (kvstore/dataserver.cc).  Servers  *)
(* may be killed and restarted at any moment.  The master does not fail.   *)
(*                                                                         *)
(* A PUT is one step at a server (module DataServer has its threads); the  *)
(* push to the other server is a step of its own because it happens after  *)
(* the lock is released.  A connection delivers in order; when its sender  *)
(* dies, what is in flight is cut to some prefix.                          *)
(***************************************************************************)
EXTENDS Integers, Sequences, FiniteSets, Functions

CONSTANTS
  Keys,        \* <<row, col>> pairs, as model values
  ParsedSeq,   \* what stol makes of an address: 127 for "127.0.0.1:8000"
  MaxPuts,     \* bound: PUTs sent by clients
  MaxPending,  \* bound: client threads of a primary between unlock and push
  MaxFlight,   \* bound: updates pushed to the backup and not yet read by it
  MaxKills,    \* bound: processes killed from outside
  MaxRestarts  \* bound: servers started again with -r

ASSUME ClusterAssumption ==
  /\ ParsedSeq \in Nat /\ MaxPuts \in Nat /\ MaxPending \in Nat \ {0}
  /\ MaxFlight \in Nat \ {0}
  /\ MaxKills \in Nat /\ MaxRestarts \in Nat

Reps == {0, 1}
Peer(r) == 1 - r

VARIABLES
  phase,    \* per server: "new", "off", "serving", "hung" or a step of recoverProcess
  prim,     \* ServerState::primary
  promo,    \* setPrimary is done, the BackStore not yet constructed
  tab,      \* the table: key -> value
  seqID,    \* ServerState::seqID
  log,      \* log.txt
  ckpt,     \* checkpoint.txt
  canCkpt,  \* ServerState::canCheckpoint
  ckptGo,   \* the checkpointing thread has found canCheckpoint true
  target,   \* ServerState::primary_addr
  link,     \* Replicate::state of the peer; "none" while backStore is NULL
  wire,     \* the BackStore's connection to the peer
  chan,     \* updates sent on that connection and not yet applied
  left,     \* set of the same, of connections whose sender has died
  hold,     \* Replicate::holdBack
  pend,     \* updates in the table and not yet pushed
  rdy,      \* a READY of the peer that has not been handled
  mPc, mRun, mPrim, mCand, mTo, mWire,  \* class node of the master
  puts, kills, restarts,                \* counters for the bounds
  acked,    \* history: PUTs answered +OK
  dropped,  \* history: updates that were not applied by the server they were meant for
  inOrder   \* history: rep 0 was started before rep 1, as in the README

serverVars == <<tab, seqID, log, ckpt, canCkpt, ckptGo, target>>
storeVars  == <<link, wire, chan, left, hold, pend, rdy>>
masterVars == <<mPc, mRun, mPrim, mCand, mTo, mWire>>
boundVars  == <<puts, kills, restarts>>
histVars   == <<acked, dropped, inOrder>>
vars == <<phase, prim, promo, serverVars, storeVars, masterVars, boundVars, histVars>>

-----------------------------------------------------------------------------
(* Data *)

\* The data of the n-th PUT of the clients.  "cut": its last newline is gone;
\* "junk": it was taken from the wrong place of the message.
Val(n, f) == [id |-> n, form |-> f]
Nothing   == Val(0, "none")
Empty     == [k \in Keys |-> Nothing]

\* A log entry; "own" is written by a primary, "copy" by a replica, which ends
\* an entry with ".\n" where a primary writes "\n.\n".
Entry(s, k, v, by) == [seq |-> s, key |-> k, val |-> v, by |-> by]

\* replayLogCommand reads the data of an entry up to "\n.\n": the data of a
\* "copy" loses the newline it ends with.
Replayed(e) == IF e.by = "copy" /\ e.val.form = "ok" THEN Val(e.val.id, "cut") ELSE e.val

\* recoverLog
Replay(t, l) ==
  LET after[i \in 0 .. Len(l)] ==
        IF i = 0 THEN t ELSE [after[i-1] EXCEPT ![l[i].key] = Replayed(l[i])]
  IN  after[Len(l)]

-----------------------------------------------------------------------------
Running(r)   == phase[r] \notin {"new", "off"}   \* the process exists and listens
Accepting(r) == phase[r] = "serving"             \* main has reached its accept loop
Fetching     == {"replayLocal", "fetchCkpt", "fetchLog"}

Init ==
  /\ phase = [r \in Reps |-> "new"]
  /\ prim = [r \in Reps |-> FALSE]
  /\ promo = [r \in Reps |-> FALSE]
  /\ tab = [r \in Reps |-> Empty]
  /\ seqID = [r \in Reps |-> 0]
  /\ log = [r \in Reps |-> <<>>]
  /\ ckpt = [r \in Reps |-> [version |-> 0, snap |-> Empty]]
  /\ canCkpt = [r \in Reps |-> TRUE]
  /\ ckptGo = [r \in Reps |-> FALSE]
  /\ target = [r \in Reps |-> 0]
  /\ link = [r \in Reps |-> "none"]
  /\ wire = [r \in Reps |-> "closed"]
  /\ chan = [r \in Reps |-> <<>>]
  /\ left = [r \in Reps |-> {}]
  /\ hold = [r \in Reps |-> <<>>]
  /\ pend = [r \in Reps |-> {}]
  /\ rdy = [r \in Reps |-> FALSE]
  /\ mPc = "beat" /\ mRun = FALSE /\ mPrim = 0 /\ mCand = 0 /\ mTo = 0
  /\ mWire = "closed"
  /\ puts = 0 /\ kills = 0 /\ restarts = 0
  /\ acked = {} /\ dropped = {} /\ inOrder = TRUE

-----------------------------------------------------------------------------
(* The end of a server process, whatever its cause *)

\* Whoever waits for an answer of r reads end-of-file for ever: do_read does
\* not return when read yields 0.
Bereft(q, r) == CASE target[q] = r /\ phase[q] \in Fetching  -> {"hung"}
                  [] target[q] = r /\ phase[q] = "contact" -> {"hung", "contact"}
                  [] target[q] = r /\ phase[q] = "ready"   -> {"lost"}
                  [] OTHER -> {phase[q]}

\* So does the master when r had read PROMOTE.  Otherwise it may read a reset
\* instead, of which do_read returns false and contactServer makes nothing:
\* promoteNewPrimary goes on as if it had been answered.
Answer(r) == IF mPc # "told" \/ mTo # r THEN {mPc}
                                        ELSE {"hung"} \cup (IF promo[r] THEN {} ELSE {"done"})

\* The peer of r keeps what it has received, a prefix of what r had sent.  The
\* connection of the master's heartbeat is reset at once if r had not read all.
Dies(r) ==
  LET q == Peer(r) IN
  /\ \E ph \in Bereft(q, r) : phase' = [phase EXCEPT ![r] = "off", ![q] = ph]
  /\ prim' = [prim EXCEPT ![r] = FALSE]
  /\ promo' = [promo EXCEPT ![r] = FALSE]
  /\ link' = [link EXCEPT ![r] = "none"]
  /\ wire' = [wire EXCEPT ![r] = "closed", ![q] = IF @ = "ok" THEN "closed" ELSE @]
  /\ chan' = [p \in Reps |-> <<>>]
  /\ \E n \in 0 .. Len(chan[r]) :
       /\ left' = [left EXCEPT ![r] = IF n = 0 THEN @ ELSE @ \cup {SubSeq(chan[r], 1, n)},
                               ![q] = {}]
       /\ dropped' = dropped \cup Range(SubSeq(chan[r], n + 1, Len(chan[r])))
                             \cup Range(hold[r]) \cup pend[r]
                             \cup Range(chan[q]) \cup UNION {Range(l) : l \in left[q]}
  /\ hold' = [hold EXCEPT ![r] = <<>>]
  /\ pend' = [pend EXCEPT ![r] = {}]
  /\ rdy' = [rdy EXCEPT ![r] = FALSE]
  /\ mPc' \in Answer(r)
  /\ mWire' \in IF mWire = "ok" /\ mCand = r THEN {"closed", "reset"} ELSE {mWire}
  /\ UNCHANGED <<mRun, mPrim, mCand, mTo, acked, inOrder>>

Kill(r) ==
  /\ Running(r) /\ kills < MaxKills
  /\ kills' = kills + 1
  /\ Dies(r)
  /\ UNCHANGED <<serverVars, puts, restarts>>

-----------------------------------------------------------------------------
(* Starting *)

\* main without -r: old log and checkpoint files are deleted.
Start(r) ==
  /\ phase[r] = "new"
  /\ phase' = [phase EXCEPT ![r] = "serving"]
  /\ inOrder' = (inOrder /\ ~(r = 1 /\ phase[0] = "new"))
  /\ UNCHANGED <<prim, promo, serverVars, storeVars, masterVars, boundVars, acked, dropped>>

\* main with -r: memory is new, the files are those of the last run.
Restart(r) ==
  /\ phase[r] = "off" /\ restarts < MaxRestarts
  /\ restarts' = restarts + 1
  /\ phase' = [phase EXCEPT ![r] = "ask"]
  /\ tab' = [tab EXCEPT ![r] = Empty]
  /\ seqID' = [seqID EXCEPT ![r] = 0]
  /\ canCkpt' = [canCkpt EXCEPT ![r] = TRUE]
  /\ ckptGo' = [ckptGo EXCEPT ![r] = FALSE]
  /\ UNCHANGED <<prim, promo, log, ckpt, target, storeVars, masterVars, puts, kills, histVars>>

-----------------------------------------------------------------------------
(* The master's heartbeat thread *)

\* The first ALIVE after the server's death is still accepted by the kernel.
AliveAccepted ==
  /\ mPc = "beat" /\ mRun /\ mWire = "closed"
  /\ mWire' = "reset"
  /\ UNCHANGED <<phase, prim, promo, serverVars, storeVars, mPc, mRun, mPrim, mCand,
                 mTo, boundVars, histVars>>

\* heartbeat with no running primary, or whose ALIVE fails: promoteNewPrimary
\* connects to the first server that listens.
First(S) == CHOOSE r \in S : \A q \in S : r <= q

\* MUTANT: promotion does not wait for an ALIVE to fail.
PromoteNewPrimary_Eager ==
  /\ mPc = "beat"
  /\ \E r \in Reps : Running(r) /\ mCand' = r
  /\ mRun' = FALSE
  /\ mWire' = "ok"
  /\ mPc' = "multicast"
  /\ UNCHANGED <<phase, prim, promo, serverVars, storeVars, mPrim, mTo, boundVars, histVars>>

\* MUTANT: a failed ALIVE is not acted upon.
PromoteNewPrimary_Once ==
  /\ mPc = "beat" /\ ~mRun
  /\ \E r \in Reps : Running(r) /\ (\A q \in Reps : Running(q) => r <= q) /\ mCand' = r
  /\ mWire' = "ok"
  /\ mPc' = "multicast"
  /\ UNCHANGED <<phase, prim, promo, serverVars, storeVars, mRun, mPrim, mTo, boundVars, histVars>>

PromoteNewPrimary ==
  /\ mPc = "beat" /\ (mRun => mWire = "reset")
  /\ LET S == {r \in Reps : Running(r)}
     IN  IF S = {}
           THEN /\ mRun /\ mRun' = FALSE
                /\ UNCHANGED <<mPc, mCand, mWire>>
           ELSE /\ mRun' = FALSE
                /\ mCand' = First(S)
                /\ mWire' = "ok"
                /\ mPc' = "multicast"
  /\ UNCHANGED <<phase, prim, promo, serverVars, storeVars, mPrim, mTo, boundVars, histVars>>

\* MUTANT: PROMOTE goes to the last server that listens.
MulticastNodes_Last ==
  /\ mPc = "multicast"
  /\ LET S == {r \in Reps : Running(r)}
     IN  IF S = {} THEN mPc' = "done" /\ UNCHANGED mTo
                   ELSE mPc' = "told" /\ mTo' = CHOOSE r \in S : \A q \in S : q <= r
  /\ UNCHANGED <<phase, prim, promo, serverVars, storeVars, mRun, mPrim, mCand, mWire,
                 boundVars, histVars>>

\* multicastNodes.  The socket is closed when the first contactServer is over,
\* so PROMOTE reaches only the first server that listens now.
MulticastNodes ==
  /\ mPc = "multicast"
  /\ LET S == {r \in Reps : Running(r)}
     IN  IF S = {} THEN mPc' = "done" /\ UNCHANGED mTo
                   ELSE mPc' = "told" /\ mTo' = First(S)
  /\ UNCHANGED <<phase, prim, promo, serverVars, storeVars, mRun, mPrim, mCand, mWire,
                 boundVars, histVars>>

\* The end of promoteNewPrimary: node::primary_addr, conn and running are set.
Promoted ==
  /\ mPc = "done"
  /\ mPc' = "beat" /\ mPrim' = mCand /\ mRun' = TRUE
  /\ UNCHANGED <<phase, prim, promo, serverVars, storeVars, mCand, mTo, mWire,
                 boundVars, histVars>>

-----------------------------------------------------------------------------
(* parse_PROMOTE *)

\* MUTANT: setPrimary is forgotten.
PromoteSelf_NotPrimary(r) ==
  /\ mPc = "told" /\ mTo = r /\ mCand = r /\ Accepting(r) /\ ~promo[r]
  /\ promo' = [promo EXCEPT ![r] = TRUE]
  /\ UNCHANGED <<phase, prim, serverVars, storeVars, masterVars, boundVars, histVars>>

PromoteSelf(r) ==
  /\ mPc = "told" /\ mTo = r /\ mCand = r /\ Accepting(r) /\ ~promo[r]
  /\ prim' = [prim EXCEPT ![r] = TRUE]
  /\ promo' = [promo EXCEPT ![r] = TRUE]
  /\ UNCHANGED <<phase, serverVars, storeVars, masterVars, boundVars, histVars>>

\* new BackStore: a peer that does not listen now is state 3, failed.
PromoteConnect(r) ==
  /\ promo[r]
  /\ promo' = [promo EXCEPT ![r] = FALSE]
  /\ link' = [link EXCEPT ![r] = IF Running(Peer(r)) THEN "running" ELSE "failed"]
  /\ wire' = [wire EXCEPT ![r] = IF Running(Peer(r)) THEN "ok" ELSE "closed"]
  /\ chan' = [chan EXCEPT ![r] = <<>>]
  /\ hold' = [hold EXCEPT ![r] = <<>>]
  /\ mPc' = "done"
  /\ UNCHANGED <<phase, prim, serverVars, left, pend, rdy, mRun, mPrim, mCand, mTo, mWire,
                 boundVars, histVars>>

PromoteOther(r) ==
  /\ mPc = "told" /\ mTo = r /\ mCand # r /\ Accepting(r)
  /\ target' = [target EXCEPT ![r] = mCand]
  /\ mPc' = "done"
  /\ UNCHANGED <<phase, prim, promo, tab, seqID, log, ckpt, canCkpt, ckptGo, storeVars, mRun, mPrim,
                 mCand, mTo, mWire, boundVars, histVars>>

-----------------------------------------------------------------------------
(* Updates *)

\* A number, a log entry and the table, under the map lock; the push follows.
ApplyAsPrimary(r, k, v) ==
  LET e == Entry(seqID[r] + 1, k, v, "own") IN
  /\ seqID' = [seqID EXCEPT ![r] = @ + 1]
  /\ log' = [log EXCEPT ![r] = Append(@, e)]
  /\ tab' = [tab EXCEPT ![r][k] = v]
  /\ pend' = [pend EXCEPT ![r] = @ \cup {e}]
  /\ UNCHANGED <<ckpt, canCkpt, ckptGo, target>>

\* A client asks the master WHERE the row is, and sends its PUT there.
ClientPut(k) ==
  /\ puts < MaxPuts /\ Accepting(mPrim) /\ prim[mPrim]
  /\ Cardinality(pend[mPrim]) < MaxPending
  /\ Cardinality(pend[mPrim]) + Len(chan[mPrim]) < MaxFlight
  /\ puts' = puts + 1
  /\ ApplyAsPrimary(mPrim, k, Val(puts + 1, "ok"))
  /\ UNCHANGED <<phase, prim, promo, link, wire, chan, left, hold, rdy, masterVars,
                 kills, restarts, histVars>>

\* At a server that is not primary, parse_PUT takes the first line of the data
\* for the primary's sequence number; stol throws and the process ends.
ClientPutAtReplica ==
  /\ puts < MaxPuts /\ Accepting(mPrim) /\ ~prim[mPrim]
  /\ puts' = puts + 1
  /\ Dies(mPrim)
  /\ UNCHANGED <<serverVars, kills, restarts>>

\* BackStore::push and the +OK.  A write on a connection whose peer is gone is
\* accepted once, or fails with ECONNRESET.
PushDone(r, e) ==
  /\ pend' = [pend EXCEPT ![r] = @ \ {e}]
  /\ acked' = IF e.val.form = "ok" THEN acked \cup {e} ELSE acked
  /\ UNCHANGED <<phase, prim, promo, serverVars, left, rdy, masterVars, boundVars, inOrder>>

Push(r, e) ==
  /\ e \in pend[r] /\ link[r] # "none"
  /\ \/ /\ link[r] = "running" /\ wire[r] = "ok"
        /\ chan' = [chan EXCEPT ![r] = Append(@, e)]
        /\ UNCHANGED <<link, wire, hold, dropped>>
     \/ /\ link[r] = "running" /\ wire[r] = "closed"
        /\ wire' = [wire EXCEPT ![r] = "reset"]
        /\ dropped' = dropped \cup {e}
        /\ UNCHANGED <<link, chan, hold>>
     \/ /\ link[r] = "running" /\ wire[r] = "closed"
        /\ link' = [link EXCEPT ![r] = "failed"]
        /\ dropped' = dropped \cup {e}
        /\ UNCHANGED <<wire, chan, hold>>
     \/ /\ link[r] \in {"recovering", "failed"}
        /\ hold' = [hold EXCEPT ![r] = IF link[r] = "recovering" THEN Append(@, e) ELSE @]
        /\ dropped' = IF link[r] = "failed" THEN dropped \cup {e} ELSE dropped
        /\ UNCHANGED <<link, wire, chan>>
  /\ PushDone(r, e)

\* backStore is still NULL, or the write raises SIGPIPE, which only the master
\* ignores.  Or parse_PUT, which tests isPrimary twice, began as a replica and
\* pushes as a primary whose backStore is still NULL.
PushFatal(r) ==
  /\ \/ /\ pend[r] # {}
        /\ link[r] = "none" \/ (link[r] = "running" /\ wire[r] = "reset")
     \/ promo[r] /\ seqID[r] > 0
  /\ Dies(r)
  /\ UNCHANGED <<serverVars, boundVars>>

\* MUTANT: a replica logs the update and does not store it.
Apply_LogOnly(r, e) ==
  IF prim[r]
    THEN ApplyAsPrimary(r, e.key, Val(e.val.id, "junk"))
    ELSE /\ seqID' = [seqID EXCEPT ![r] = IF e.seq > @ THEN e.seq ELSE @]
         /\ log' = [log EXCEPT ![r] = Append(@, Entry(e.seq, e.key, e.val, "copy"))]
         /\ UNCHANGED <<tab, ckpt, canCkpt, ckptGo, target, pend>>

\* parse_PUT of an update from the peer.  At a server that has become primary
\* the update is taken for a client's PUT: "DATA\r\n" is not found in it, and
\* the data is read from a wrong offset.
Apply(r, e) ==
  IF prim[r]
    THEN ApplyAsPrimary(r, e.key, Val(e.val.id, "junk"))
    ELSE /\ seqID' = [seqID EXCEPT ![r] = IF e.seq > @ THEN e.seq ELSE @]
         /\ log' = [log EXCEPT ![r] = Append(@, Entry(e.seq, e.key, e.val, "copy"))]
         /\ tab' = [tab EXCEPT ![r][e.key] = e.val]
         /\ UNCHANGED <<ckpt, canCkpt, ckptGo, target, pend>>

\* What is left of a stream after its first update.  When more had been read
\* with it, parse_PUT keeps buffer.substr(data_end + 6), one byte too few: the
\* next update starts with "UT" and is answered -ERR line by line.
Rests(s) == (IF Len(s) > 0 THEN {Tail(s)} ELSE {})
       \cup (IF Len(s) > 1 THEN {Tail(Tail(s))} ELSE {})

\* What of the stream s is not applied by server r when rest remains of it.
Skipped(r, s, rest) ==
  (IF Len(rest) + 1 < Len(s) THEN {s[2]} ELSE {}) \cup (IF prim[r] THEN {s[1]} ELSE {})

Deliver(r) ==
  /\ Accepting(r)
  /\ \/ \E s \in Rests(chan[Peer(r)]) :
        /\ Apply(r, Head(chan[Peer(r)]))
        /\ chan' = [chan EXCEPT ![Peer(r)] = s]
        /\ dropped' = dropped \cup Skipped(r, chan[Peer(r)], s)
        /\ UNCHANGED left
     \/ \E l \in left[Peer(r)] : \E s \in Rests(l) :
        /\ Apply(r, Head(l))
        /\ left' = [left EXCEPT ![Peer(r)] = (@ \ {l}) \cup ({s} \ {<<>>})]
        /\ dropped' = dropped \cup Skipped(r, l, s)
        /\ UNCHANGED chan
  /\ UNCHANGED <<phase, prim, promo, link, wire, hold, rdy, masterVars, boundVars, acked, inOrder>>

\* checkPointingThread: the test of canCheckpoint, and later writeToDisk.
CheckpointTest(r) ==
  /\ Accepting(r) /\ canCkpt[r] /\ ~ckptGo[r]
  /\ ckptGo' = [ckptGo EXCEPT ![r] = TRUE]
  /\ UNCHANGED <<phase, prim, promo, tab, seqID, log, ckpt, canCkpt, target, storeVars,
                 masterVars, boundVars, histVars>>

\* MUTANT: the log is emptied although the snapshot was not written.
WriteToDisk_NoSnapshot(r) ==
  /\ Accepting(r) /\ ckptGo[r]
  /\ ckptGo' = [ckptGo EXCEPT ![r] = FALSE]
  /\ log' = [log EXCEPT ![r] = <<>>]
  /\ UNCHANGED <<phase, prim, promo, tab, seqID, ckpt, canCkpt, target, storeVars, masterVars,
                 boundVars, histVars>>

WriteToDisk(r) ==
  /\ Accepting(r) /\ ckptGo[r]
  /\ ckptGo' = [ckptGo EXCEPT ![r] = FALSE]
  /\ ckpt' = [ckpt EXCEPT ![r] = [version |-> seqID[r], snap |-> tab[r]]]
  /\ log' = [log EXCEPT ![r] = <<>>]
  /\ UNCHANGED <<phase, prim, promo, tab, seqID, canCkpt, target, storeVars, masterVars,
                 boundVars, histVars>>

-----------------------------------------------------------------------------
(* recoverProcess of server r, and its requests at the primary t *)

Move(r, ph) == phase' = [phase EXCEPT ![r] = ph]

AskMaster(r) ==
  /\ phase[r] = "ask"
  /\ target' = [target EXCEPT ![r] = mPrim]
  /\ Move(r, "contact")
  /\ UNCHANGED <<prim, promo, tab, seqID, log, ckpt, canCkpt, ckptGo, storeVars, masterVars,
                 boundVars, histVars>>

\* The connection is refused, and the process exits.
ContactRefused(r) ==
  /\ phase[r] = "contact" /\ ~Running(target[r])
  /\ Dies(r)
  /\ UNCHANGED <<serverVars, boundVars>>

\* A server that the master still names as primary connects to its own
\* listening socket and waits for an answer that only it could give.
ContactSelf(r) ==
  /\ phase[r] = "contact" /\ target[r] = r
  /\ Move(r, "hung")
  /\ UNCHANGED <<prim, promo, serverVars, storeVars, masterVars, boundVars, histVars>>

\* MUTANT: checkpoints are not paused.
ParseRecovery_NoPause(r) ==
  LET t == target[r] IN
  /\ phase[r] = "contact" /\ t # r /\ Accepting(t) /\ link[t] # "none"
  /\ Move(r, IF ckpt[t].version <= ParsedSeq THEN "replayLocal" ELSE "fetchCkpt")
  /\ UNCHANGED <<prim, promo, serverVars, storeVars, masterVars, boundVars, histVars>>

\* parse_RECOVERY.  RECOVERY carries "<seq> <address>" and is read as
\* "<address> <seq>": BackStore::recover finds no server of that name, and the
\* checkpoint's version is compared with the number the address starts with.
ParseRecovery(r) ==
  LET t == target[r] IN
  /\ phase[r] = "contact" /\ t # r /\ Accepting(t) /\ link[t] # "none"
  /\ canCkpt' = [canCkpt EXCEPT ![t] = FALSE]
  /\ Move(r, IF ckpt[t].version <= ParsedSeq THEN "replayLocal" ELSE "fetchCkpt")
  /\ UNCHANGED <<prim, promo, tab, seqID, log, ckpt, ckptGo, target, storeVars, masterVars,
                 boundVars, histVars>>

\* The same at a server whose backStore is NULL.
ParseRecoveryFatal(r) ==
  LET t == target[r] IN
  /\ phase[r] = "contact" /\ t # r /\ Accepting(t) /\ link[t] = "none"
  /\ Dies(t)
  /\ UNCHANGED <<serverVars, boundVars>>

ReplayLocal(r) ==
  /\ phase[r] = "replayLocal"
  /\ tab' = [tab EXCEPT ![r] = Replay(ckpt[r].snap, log[r])]
  /\ Move(r, "fetchLog")
  /\ UNCHANGED <<prim, promo, seqID, log, ckpt, canCkpt, ckptGo, target, storeVars, masterVars,
                 boundVars, histVars>>

FetchCheckpoint(r) ==
  /\ phase[r] = "fetchCkpt"
  /\ ckpt' = [ckpt EXCEPT ![r] = ckpt[target[r]]]
  /\ tab' = [tab EXCEPT ![r] = ckpt[target[r]].snap]
  /\ Move(r, "fetchLog")
  /\ UNCHANGED <<prim, promo, seqID, log, canCkpt, ckptGo, target, storeVars, masterVars,
                 boundVars, histVars>>

FetchLog(r) ==
  /\ phase[r] = "fetchLog"
  /\ log' = [log EXCEPT ![r] = log[target[r]]]
  /\ tab' = [tab EXCEPT ![r] = Replay(@, log[target[r]])]
  /\ Move(r, "ready")
  /\ UNCHANGED <<prim, promo, seqID, ckpt, canCkpt, ckptGo, target, storeVars, masterVars,
                 boundVars, histVars>>

\* READY is sent, not waited for; main goes on to its accept loop.
SendReady(r) ==
  /\ phase[r] = "ready"
  /\ Move(r, "serving")
  /\ rdy' = [rdy EXCEPT ![target[r]] = TRUE]
  /\ UNCHANGED <<prim, promo, serverVars, link, wire, chan, left, hold, pend, masterVars,
                 boundVars, histVars>>

\* The primary has gone: READY is lost, and the QUIT behind it may raise SIGPIPE.
ReadyLost(r) ==
  /\ phase[r] = "lost"
  /\ Move(r, "serving")
  /\ UNCHANGED <<prim, promo, serverVars, storeVars, masterVars, boundVars, histVars>>

ReadyFatal(r) ==
  /\ phase[r] = "lost"
  /\ Dies(r)
  /\ UNCHANGED <<serverVars, boundVars>>

\* parse_READY: BackStore::reconnect tries until the peer listens, sends what
\* was held back, and marks it running; checkpoints resume.
ParseReady(t) ==
  /\ Accepting(t) /\ rdy[t] /\ Running(Peer(t))
  /\ rdy' = [rdy EXCEPT ![t] = FALSE]
  /\ link' = [link EXCEPT ![t] = "running"]
  /\ wire' = [wire EXCEPT ![t] = "ok"]
  /\ chan' = [chan EXCEPT ![t] = hold[t]]
  /\ left' = [left EXCEPT ![t] = IF chan[t] = <<>> THEN @ ELSE @ \cup {chan[t]}]
  /\ hold' = [hold EXCEPT ![t] = <<>>]
  /\ canCkpt' = [canCkpt EXCEPT ![t] = TRUE]
  /\ UNCHANGED <<phase, prim, promo, tab, seqID, log, ckpt, ckptGo, target, pend, masterVars,
                 boundVars, histVars>>

-----------------------------------------------------------------------------
ServerStep(r) ==
  \/ PromoteSelf(r) \/ PromoteConnect(r) \/ PromoteOther(r)
  \/ \E e \in pend[r] : Push(r, e)
  \/ PushFatal(r) \/ Deliver(r)
  \/ AskMaster(r) \/ ContactRefused(r) \/ ContactSelf(r)
  \/ ParseRecovery(r) \/ ParseRecoveryFatal(r)
  \/ ReplayLocal(r) \/ FetchCheckpoint(r) \/ FetchLog(r)
  \/ SendReady(r) \/ ReadyLost(r) \/ ReadyFatal(r) \/ ParseReady(r)

MasterStep == AliveAccepted \/ PromoteNewPrimary \/ MulticastNodes \/ Promoted

Next ==
  \/ \E r \in Reps : Start(r) \/ Restart(r) \/ Kill(r) \/ ServerStep(r)
                    \/ CheckpointTest(r) \/ WriteToDisk(r)
  \/ MasterStep
  \/ \E k \in Keys : ClientPut(k)
  \/ ClientPutAtReplica

Spec == Init /\ [][Next]_vars

-----------------------------------------------------------------------------
(* Fairness: the threads of the running processes run; nothing is assumed of  *)
(* clients, of who is killed, or of whether an operator restarts a server.    *)

FairSpec ==
  /\ Spec
  /\ \A r \in Reps : WF_vars(Start(r)) /\ WF_vars(ServerStep(r))
  /\ WF_vars(MasterStep)

-----------------------------------------------------------------------------
(* Properties *)

Phases == {"new", "off", "serving", "hung", "ask", "contact", "ready", "lost"} \cup Fetching
ValType == [id : 0 .. MaxPuts, form : {"ok", "cut", "junk", "none"}]
EntryType == [seq : Nat, key : Keys, val : ValType, by : {"own", "copy"}]
Table == [Keys -> ValType]

TypeOK ==
  /\ phase \in [Reps -> Phases]
  /\ prim \in [Reps -> BOOLEAN] /\ promo \in [Reps -> BOOLEAN]
  /\ tab \in [Reps -> Table] /\ seqID \in [Reps -> Nat]
  /\ \A r \in Reps : /\ log[r] \in Seq(EntryType) /\ chan[r] \in Seq(EntryType)
                     /\ hold[r] \in Seq(EntryType) /\ pend[r] \subseteq EntryType
                     /\ \A l \in left[r] : l \in Seq(EntryType)
  /\ ckpt \in [Reps -> [version : Nat, snap : Table]]
  /\ canCkpt \in [Reps -> BOOLEAN] /\ ckptGo \in [Reps -> BOOLEAN]
  /\ target \in [Reps -> Reps]
  /\ link \in [Reps -> {"none", "running", "recovering", "failed"}]
  /\ wire \in [Reps -> {"ok", "closed", "reset"}]
  /\ rdy \in [Reps -> BOOLEAN]
  /\ mPc \in {"beat", "multicast", "told", "done", "hung"}
  /\ mRun \in BOOLEAN /\ {mPrim, mCand, mTo} \subseteq Reps
  /\ mWire \in {"ok", "closed", "reset"}
  /\ acked \subseteq EntryType /\ dropped \subseteq EntryType /\ inOrder \in BOOLEAN

\* Killing and restarting servers never makes both of them primary, although
\* no server is ever demoted and the master asks nobody before it promotes.
AtMostOnePrimary == ~(prim[0] /\ prim[1])

\* Only a primary forwards updates: the other server has no BackStore, nothing
\* to push, and no live stream towards the primary.
OnlyPrimaryForwards ==
  \A r \in Reps : ~prim[r] => link[r] = "none" /\ pend[r] = {} /\ chan[r] = <<>>

\* The table t after the updates of es.
Updated(t, es) ==
  LET after[i \in 0 .. Len(es)] ==
        IF i = 0 THEN t ELSE [after[i-1] EXCEPT ![es[i].key] = es[i].val]
  IN  after[Len(es)]

\* The connections through which primary p keeps its peer up to date stand,
\* and nothing waits to be pushed or read from an older connection.
Linked(p) == /\ prim[p] /\ pend[p] = {} /\ left[p] = {}
             /\ link[p] = "running" /\ wire[p] = "ok" /\ Accepting(Peer(p))

\* A server that the primary's BackStore lists as running (state 1) lacks no
\* update: its table, with the updates still on the way, is the primary's.
Mirrored ==
  \A p \in Reps : Linked(p) =>
    \A k \in Keys : tab[p][k].id = Updated(tab[Peer(p)], chan[p])[k].id

\* The same, key by key, for the keys none of whose updates was dropped on the
\* way: nothing but a lost message makes primary and backup differ.
MirroredButDropped ==
  \A p \in Reps : Linked(p) =>
    \A k \in Keys : (\A e \in dropped : e.key # k) =>
      tab[p][k] = Updated(tab[Peer(p)], chan[p])[k]

\* The two files of a serving server account for every value in its table.
DiskMatches ==
  \A r \in Reps : Accepting(r) =>
    \A k \in Keys : Replay(ckpt[r].snap, log[r])[k].id = tab[r][k].id

\* The master takes a server for the primary that it has not told so: PROMOTE
\* went to the other one, which takes it for the address of a new primary, or
\* dies before it has read it.
Astray == mPc = "beat" /\ mRun /\ mWire = "ok" /\ mTo # mPrim

\* The server that PRIMARY and WHERE name, while the master's connection to it
\* stands, is one that acts as primary, unless PROMOTE went astray.  For that
\* rep 1 has to be started before rep 0, or rep 0 to come back between the two
\* connects of promoteNewPrimary, for which a server must have been restarted.
MasterAgrees ==
  /\ mPc = "beat" /\ mRun /\ mWire = "ok" /\ ~Astray => prim[mPrim]
  /\ Astray => ~inOrder \/ restarts > 0

\* After a failover the new primary serves every acknowledged PUT (or a later
\* one of that key) whose update was not dropped on the way to it.
AckedServed ==
  \A r \in Reps : (prim[r] /\ Accepting(r) /\ left[Peer(r)] = {}) =>
    \A e \in acked \ dropped : tab[r][e.key].id >= e.val.id

\* While a server fetches checkpoint and log, the two files belong together:
\* the primary takes no checkpoint, unless its checkpointing thread was already
\* past the test of canCheckpoint when RECOVERY came.  This is said of the first
\* recovery only: the READY of an earlier one may arrive late and end the pause.
CheckpointPaused ==
  [][\A r \in Reps :
       LET t == target[r] IN
       (restarts = 1 /\ phase[r] \in Fetching /\ phase[t] = "serving" /\ ~ckptGo[t])
         => ~ckptGo'[t] /\ ckpt'[t] = ckpt[t]]_vars

\* The death of the backup does not take the primary down: a promoted server
\* ends only if it is killed itself.
PrimaryEndsOnlyIfKilled ==
  [][\A r \in Reps : (prim[r] /\ ~promo[r] /\ phase'[r] = "off") => kills' > kills]_vars

\* Somebody waits for an answer that never comes, in do_read at end-of-file.
Stuck == mPc = "hung" \/ \E r \in Reps : phase[r] = "hung"

\* Two restarted servers ask each other for the log: neither accepts the other's
\* connection before its own recovery is over.
AskEachOther == \A r \in Reps : phase[r] = "contact" /\ target[r] # r

\* If some server stays up, the node gets a serving primary that the master
\* knows, whoever was killed before, unless somebody is stuck in do_read, two
\* restarted servers wait for each other, or a PROMOTE went astray and nobody
\* dies any more.
Failover ==
  <>[](\E r \in Reps : Running(r))
    => <>[](prim[mPrim] /\ Accepting(mPrim)) \/ <>[]Astray \/ <>(Stuck \/ AskEachOther)
=============================================================================
