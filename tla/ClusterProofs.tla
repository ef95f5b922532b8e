---------------------------- MODULE ClusterProofs ----------------------------
(***************************************************************************)
(* Proofs about a storage node (module Cluster). In this order:            *)
(*  - who is primary, for any number of updates, kills and restarts: there *)
(*    is never more than one primary, only a primary forwards updates, the *)
(*    master's idea of who is primary is right, and checkpoints pause      *)
(*    during a first recovery;                                             *)
(*  - the types of all variables, and lemmas about tables and what a       *)
(*    sequence of updates makes of them;                                   *)
(*  - as long as no server was restarted: its files account for a server's *)
(*    table, primary and backup differ only in keys of lost updates, and   *)
(*    a promoted backup serves what was acknowledged and not lost.         *)
(***************************************************************************)
EXTENDS Cluster, FiniteSetTheorems, SequenceTheorems, WellFoundedInduction, TLAPS

(* A restarted server in one of these needs a primary to become serving.   *)
Down == {"off", "ask", "contact", "hung"}

(* The types of the variables that decide who is primary.                  *)
ControlType ==
  /\ phase \in [Reps -> Phases]
  /\ prim \in [Reps -> BOOLEAN] /\ promo \in [Reps -> BOOLEAN]
  /\ canCkpt \in [Reps -> BOOLEAN] /\ ckptGo \in [Reps -> BOOLEAN]
  /\ target \in [Reps -> Reps]
  /\ link \in [Reps -> {"none", "running", "recovering", "failed"}]
  /\ rdy \in [Reps -> BOOLEAN]
  /\ DOMAIN pend = Reps /\ DOMAIN chan = Reps /\ DOMAIN ckpt = Reps
  /\ mPc \in {"beat", "multicast", "told", "done", "hung"}
  /\ mRun \in BOOLEAN /\ mPrim \in Reps /\ mCand \in Reps /\ mTo \in Reps
  /\ mWire \in {"ok", "closed", "reset"}
  /\ restarts \in Nat /\ inOrder \in BOOLEAN

(* A primary is the server that the master chose and whose connection to   *)
(* the master still stands; nobody is primary while the master looks for   *)
(* one, so it cannot choose a second one.                                  *)
Chosen ==
  /\ \A q \in Reps : prim[q] =>
       /\ mCand = q /\ mWire = "ok" /\ phase[q] = "serving"
       /\ \/ mPc = "told" /\ mTo = q /\ promo[q]
          \/ mPc = "done"
          \/ mPc = "beat" /\ mRun
  /\ \A q \in Reps : promo[q] => prim[q] /\ mPc = "told"

(* What a BackStore has belongs to a primary.                              *)
Forwarding ==
  /\ \A q \in Reps : link[q] # "none" => prim[q] /\ ~promo[q]
  /\ \A q \in Reps : rdy[q] => link[q] # "none"
  /\ \A q \in Reps : ~prim[q] => pend[q] = {} /\ chan[q] = <<>>

(* A server that fetches checkpoint and log does so from a primary.  One   *)
(* that died after the master chose it cannot be serving when PROMOTE      *)
(* arrives, although it may have been started again.                       *)
Recovering ==
  /\ \A q \in Reps : phase[q] \in Fetching \cup {"ready"} =>
       target[q] = Peer(q) /\ link[Peer(q)] # "none"
  /\ mPc \in {"multicast", "told"} /\ mWire # "ok" => phase[mCand] \in Down

(* PROMOTE reaches the server that the master chose.  If rep 0 was started *)
(* first it can reach another only if that one was restarted.              *)
Agreeing ==
  /\ mWire = "ok" => Running(mCand)
  /\ inOrder /\ phase[0] = "new" => phase[1] = "new"
  /\ mPc = "beat" /\ mRun => mPrim = mCand
  /\ inOrder /\ mPc \in {"multicast", "told"} /\ mWire = "ok" /\ mCand = 1 => phase[0] \in Down
  /\ mPc = "told" /\ mWire = "ok" /\ mTo # mCand => mCand = 1
  /\ mWire = "ok" /\ (mPc = "done" \/ (mPc = "beat" /\ mRun)) =>
       IF mTo = mCand THEN prim[mCand] ELSE ~inOrder \/ restarts > 0

(* During the first recovery no READY of an earlier one is under way.      *)
Asking == Fetching \cup {"ask", "contact", "ready"}

Paused ==
  /\ restarts = 0 => \A q \in Reps : phase[q] \notin Asking \cup {"hung", "lost"} /\ ~rdy[q]
  /\ restarts = 1 => \A q \in Reps : phase[q] \in Asking =>
       phase[Peer(q)] \notin Asking /\ \A t \in Reps : ~rdy[t]
  /\ restarts = 1 => \A q \in Reps : phase[q] \in Fetching => ~canCkpt[Peer(q)]

NodeInv == ControlType /\ Chosen /\ Forwarding /\ Recovering /\ Agreeing /\ Paused

-----------------------------------------------------------------------------
LEMMA InitNode == Init => NodeInv
<1> SUFFICES ASSUME Init PROVE NodeInv
  OBVIOUS
<1>1. ControlType
  BY DEF Init, ControlType, Phases, Reps
<1>2. Chosen /\ Forwarding
  BY DEF Init, Chosen, Forwarding
<1>3. Recovering /\ Agreeing /\ Paused
  BY DEF Init, Recovering, Agreeing, Paused, Fetching, Asking, Reps
<1> QED
  BY <1>1, <1>2, <1>3 DEF NodeInv

\* The end of a server, in terms of the variables above.
LEMMA DeathFacts ==
  ASSUME ControlType, NEW r \in Reps, Dies(r)
  PROVE  /\ phase'[r] = "off"
         /\ phase'[Peer(r)] \in Bereft(Peer(r), r)
         /\ phase' \in [Reps -> Phases]
         /\ \A q \in Reps : /\ prim'[q] = (prim[q] /\ q # r)
                            /\ promo'[q] = (promo[q] /\ q # r)
                            /\ rdy'[q] = (rdy[q] /\ q # r)
                            /\ link'[q] = IF q = r THEN "none" ELSE link[q]
                            /\ chan'[q] = <<>>
                            /\ pend'[q] = IF q = r THEN {} ELSE pend[q]
         /\ prim' \in [Reps -> BOOLEAN] /\ promo' \in [Reps -> BOOLEAN] /\ rdy' \in [Reps -> BOOLEAN]
         /\ link' \in [Reps -> {"none", "running", "recovering", "failed"}]
         /\ DOMAIN chan' = Reps /\ DOMAIN pend' = Reps
         /\ \/ mPc' = mPc /\ (mPc = "told" => mTo # r)
            \/ mPc = "told" /\ mTo = r /\ mPc' = "hung"
            \/ mPc = "told" /\ mTo = r /\ mPc' = "done" /\ ~promo[r]
         /\ mWire' \in IF mWire = "ok" /\ mCand = r THEN {"closed", "reset"} ELSE {mWire}
         /\ UNCHANGED <<mRun, mPrim, mCand, mTo, inOrder>>
<1>1. Peer(r) \in Reps /\ Peer(r) # r /\ \A q \in Reps : q = r \/ q = Peer(r)
  BY DEF Reps, Peer
<1>2. Bereft(Peer(r), r) \subseteq Phases
  BY <1>1 DEF Bereft, ControlType, Phases, Fetching
<1>3. PICK ph \in Bereft(Peer(r), r) : phase' = [phase EXCEPT ![r] = "off", ![Peer(r)] = ph]
  BY DEF Dies
<1>4. phase'[r] = "off" /\ phase'[Peer(r)] = ph /\ phase' \in [Reps -> Phases]
  BY <1>1, <1>2, <1>3 DEF ControlType, Phases
<1>5. /\ prim' = [prim EXCEPT ![r] = FALSE] /\ promo' = [promo EXCEPT ![r] = FALSE]
      /\ rdy' = [rdy EXCEPT ![r] = FALSE] /\ link' = [link EXCEPT ![r] = "none"]
      /\ chan' = [p \in Reps |-> <<>>] /\ pend' = [pend EXCEPT ![r] = {}]
      /\ mPc' \in Answer(r)
      /\ mWire' \in IF mWire = "ok" /\ mCand = r THEN {"closed", "reset"} ELSE {mWire}
      /\ UNCHANGED <<mRun, mPrim, mCand, mTo, inOrder>>
  BY DEF Dies
<1>6. \/ mPc' = mPc /\ (mPc = "told" => mTo # r)
      \/ mPc = "told" /\ mTo = r /\ mPc' = "hung"
      \/ mPc = "told" /\ mTo = r /\ mPc' = "done" /\ ~promo[r]
  BY <1>5 DEF Answer
<1> QED
  BY <1>1, <1>3, <1>4, <1>5, <1>6 DEF ControlType

LEMMA DeathNode ==
  ASSUME NodeInv, NEW r \in Reps, Dies(r), Running(r),
         UNCHANGED <<canCkpt, ckptGo, target, ckpt, restarts>>
  PROVE  NodeInv'
<1> USE DEF NodeInv
<1>1. Peer(r) \in Reps /\ Peer(r) # r /\ Peer(Peer(r)) = r /\ \A q \in Reps : q = r \/ q = Peer(r)
  BY DEF Reps, Peer
<1>2. \/ phase'[Peer(r)] = phase[Peer(r)]
         /\ (target[Peer(r)] = r => phase[Peer(r)] \notin Fetching \cup {"ready"})
      \/ phase'[Peer(r)] = "hung" /\ phase[Peer(r)] \in Fetching \cup {"contact"}
      \/ phase'[Peer(r)] = "lost" /\ phase[Peer(r)] = "ready"
  <2>1. phase'[Peer(r)] \in Bereft(Peer(r), r)
    BY DeathFacts
  <2> QED
    BY <2>1 DEF Bereft, Fetching
<1>3. ControlType'
  BY DeathFacts DEF ControlType
<1>4. Chosen'
  BY <1>1, <1>2, DeathFacts DEF Chosen, Fetching
<1>5. Forwarding'
  BY <1>1, DeathFacts DEF Forwarding
<1>6. Recovering'
  BY <1>1, <1>2, DeathFacts DEF Recovering, Fetching, Down, Forwarding, Chosen, ControlType
<1>7. Agreeing'
  BY <1>1, <1>2, DeathFacts DEF Agreeing, Running, Fetching, Down, Chosen, ControlType, Reps
<1>8. Paused'
  BY <1>1, <1>2, DeathFacts DEF Paused, Asking, Fetching
<1> QED
  BY <1>3, <1>4, <1>5, <1>6, <1>7, <1>8

\* Steps that leave the phases, the roles and the master alone.
LEMMA QuietNode ==
  ASSUME NodeInv,
         UNCHANGED <<phase, prim, promo, canCkpt, target, rdy, restarts, inOrder>>,
         UNCHANGED masterVars,
         ckptGo' \in [Reps -> BOOLEAN],
         link' \in [Reps -> {"none", "running", "recovering", "failed"}],
         \A q \in Reps : link'[q] = "none" <=> link[q] = "none",
         DOMAIN pend' = Reps, DOMAIN chan' = Reps, DOMAIN ckpt' = Reps,
         \A q \in Reps : ~prim[q] => pend'[q] = {} /\ chan'[q] = <<>>
  PROVE  NodeInv'
<1> USE DEF NodeInv, masterVars
<1>0. \A q \in Reps : Peer(q) \in Reps
  BY DEF Reps, Peer
<1>1. ControlType'
  BY DEF ControlType
<1>2. Chosen' /\ Forwarding'
  BY DEF Chosen, Forwarding
<1>3. Recovering'
  BY <1>0 DEF Recovering
<1>4. Agreeing' /\ Paused'
  BY DEF Agreeing, Paused, Running
<1> QED
  BY <1>1, <1>2, <1>3, <1>4

LEMMA StutterNode ==
  ASSUME NodeInv, UNCHANGED vars
  PROVE  NodeInv'
BY QuietNode DEF vars, serverVars, storeVars, boundVars, histVars, NodeInv, ControlType, Forwarding

LEMMA CheckpointNode ==
  ASSUME NodeInv, NEW r \in Reps, CheckpointTest(r) \/ WriteToDisk(r)
  PROVE  NodeInv'
<1>1. /\ UNCHANGED <<phase, prim, promo, canCkpt, target, rdy, restarts, inOrder, link, pend, chan>>
      /\ UNCHANGED masterVars
      /\ \E b \in BOOLEAN : ckptGo' = [ckptGo EXCEPT ![r] = b]
      /\ ckpt' = ckpt \/ \E c : ckpt' = [ckpt EXCEPT ![r] = c]
  BY DEF CheckpointTest, WriteToDisk, storeVars, boundVars, histVars
<1>2. ckptGo' \in [Reps -> BOOLEAN] /\ DOMAIN ckpt' = Reps
  BY <1>1 DEF NodeInv, ControlType
<1> QED
  BY <1>1, <1>2, QuietNode DEF NodeInv, ControlType, Forwarding

LEMMA ClientPutNode ==
  ASSUME NodeInv, NEW k \in Keys, ClientPut(k)
  PROVE  NodeInv'
<1>1. /\ UNCHANGED <<phase, prim, promo, canCkpt, ckptGo, ckpt, target, rdy, restarts, inOrder, link, chan>>
      /\ UNCHANGED masterVars
      /\ prim[mPrim] /\ \E x : pend' = [pend EXCEPT ![mPrim] = x]
  BY DEF ClientPut, ApplyAsPrimary, histVars
<1>2. DOMAIN pend' = Reps /\ \A q \in Reps : ~prim[q] => pend'[q] = pend[q]
  BY <1>1 DEF NodeInv, ControlType
<1> QED
  BY <1>1, <1>2, QuietNode DEF NodeInv, ControlType, Forwarding

LEMMA PushNode ==
  ASSUME NodeInv, NEW r \in Reps, NEW e \in pend[r], Push(r, e)
  PROVE  NodeInv'
<1>1. /\ UNCHANGED <<phase, prim, promo, canCkpt, ckptGo, ckpt, target, rdy, restarts, inOrder>>
      /\ UNCHANGED masterVars
      /\ link[r] # "none" /\ \E x : pend' = [pend EXCEPT ![r] = x]
      /\ link' = link \/ link' = [link EXCEPT ![r] = "failed"]
      /\ chan' = chan \/ \E x : chan' = [chan EXCEPT ![r] = x]
  BY DEF Push, PushDone, serverVars, boundVars
<1>2. /\ DOMAIN pend' = Reps /\ DOMAIN chan' = Reps
      /\ link' \in [Reps -> {"none", "running", "recovering", "failed"}]
      /\ \A q \in Reps : link'[q] = "none" <=> link[q] = "none"
  BY <1>1 DEF NodeInv, ControlType
<1>3. \A q \in Reps : ~prim[q] => q # r /\ pend'[q] = pend[q] /\ chan'[q] = chan[q]
  BY <1>1 DEF NodeInv, ControlType, Forwarding
<1> QED
  BY <1>1, <1>2, <1>3, QuietNode DEF NodeInv, ControlType, Forwarding

LEMMA DeliverNode ==
  ASSUME NodeInv, NEW r \in Reps, Deliver(r)
  PROVE  NodeInv'
<1>0. Peer(r) \in Reps
  BY DEF Reps, Peer
<1>1. /\ UNCHANGED <<phase, prim, promo, rdy, restarts, inOrder, link>>
      /\ UNCHANGED masterVars
  BY DEF Deliver, boundVars
<1>2. PICK e : Apply(r, e)
  BY DEF Deliver
<1>3. /\ UNCHANGED <<canCkpt, ckptGo, ckpt, target>>
      /\ pend' = pend \/ (prim[r] /\ \E x : pend' = [pend EXCEPT ![r] = x])
  BY <1>2 DEF Apply, ApplyAsPrimary
<1>4. \/ chan' = chan
      \/ chan[Peer(r)] # <<>> /\ \E x : chan' = [chan EXCEPT ![Peer(r)] = x]
  <2>1. Rests(<<>>) = {}
    BY DEF Rests
  <2> QED
    BY <2>1 DEF Deliver
<1>5. /\ DOMAIN pend' = Reps /\ DOMAIN chan' = Reps
      /\ \A q \in Reps : ~prim[q] => pend'[q] = pend[q] /\ chan'[q] = chan[q]
  BY <1>0, <1>3, <1>4 DEF NodeInv, ControlType, Forwarding
<1> QED
  BY <1>1, <1>3, <1>5, QuietNode DEF NodeInv, ControlType, Forwarding

-----------------------------------------------------------------------------
(* Starting and recovering.                                                *)

LEMMA StartNode ==
  ASSUME NodeInv, NEW r \in Reps, Start(r)
  PROVE  NodeInv'
<1> USE DEF NodeInv
<1>1. /\ phase[r] = "new" /\ phase' = [phase EXCEPT ![r] = "serving"]
      /\ inOrder' = (inOrder /\ ~(r = 1 /\ phase[0] = "new"))
      /\ UNCHANGED <<prim, promo, canCkpt, ckptGo, ckpt, target, rdy, restarts, link, pend, chan>>
      /\ UNCHANGED masterVars
  BY DEF Start, serverVars, storeVars, boundVars
<1>2. phase' \in [Reps -> Phases] /\ \A q \in Reps : phase'[q] = IF q = r THEN "serving" ELSE phase[q]
  BY <1>1 DEF ControlType, Phases
<1>3. ControlType'
  BY <1>1, <1>2 DEF ControlType, masterVars
<1>4. Chosen' /\ Forwarding'
  BY <1>1, <1>2 DEF Chosen, Forwarding, masterVars
<1>5. Recovering'
  BY <1>1, <1>2 DEF Recovering, Fetching, Down, ControlType, masterVars
<1>6. Agreeing'
  BY <1>1, <1>2 DEF Agreeing, Running, Down, ControlType, masterVars, Reps
<1>7. Paused'
  BY <1>1, <1>2 DEF Paused, Asking, Fetching, Reps, Peer
<1> QED
  BY <1>3, <1>4, <1>5, <1>6, <1>7

LEMMA RestartNode ==
  ASSUME NodeInv, NEW r \in Reps, Restart(r)
  PROVE  NodeInv'
<1> USE DEF NodeInv
<1>1. /\ phase[r] = "off" /\ phase' = [phase EXCEPT ![r] = "ask"] /\ restarts' = restarts + 1
      /\ canCkpt' = [canCkpt EXCEPT ![r] = TRUE] /\ ckptGo' = [ckptGo EXCEPT ![r] = FALSE]
      /\ UNCHANGED <<prim, promo, ckpt, target, rdy, link, pend, chan, inOrder>>
      /\ UNCHANGED masterVars
  BY DEF Restart, storeVars, histVars
<1>2. /\ phase' \in [Reps -> Phases] /\ \A q \in Reps : phase'[q] = IF q = r THEN "ask" ELSE phase[q]
      /\ restarts' \in Nat /\ (restarts' = 1 => restarts = 0) /\ restarts' # 0
  BY <1>1 DEF ControlType, Phases
<1>3. ControlType'
  BY <1>1, <1>2 DEF ControlType, masterVars
<1>4. Chosen' /\ Forwarding'
  BY <1>1, <1>2 DEF Chosen, Forwarding, masterVars
<1>5. Recovering'
  BY <1>1, <1>2 DEF Recovering, Fetching, Down, ControlType, masterVars
<1>6. Agreeing'
  BY <1>1, <1>2 DEF Agreeing, Running, Down, ControlType, masterVars, Reps
<1>7. Paused'
  BY <1>1, <1>2 DEF Paused, Asking, Fetching, Reps, Peer
<1> QED
  BY <1>3, <1>4, <1>5, <1>6, <1>7

\* A step of recoverProcess that gets no help from the primary.
LEMMA AloneNode ==
  ASSUME NodeInv, NEW r \in Reps, NEW ph \in {"contact", "hung", "serving"},
         phase' = [phase EXCEPT ![r] = ph],
         phase[r] \in {"ask", "contact", "lost"},
         phase[r] = "ask" <=> ph = "contact", phase[r] = "lost" <=> ph = "serving",
         target' = target \/ (ph = "contact" /\ target' = [target EXCEPT ![r] = mPrim]),
         UNCHANGED <<prim, promo, canCkpt, ckptGo, ckpt, rdy, restarts, inOrder, link, pend, chan>>,
         UNCHANGED masterVars
  PROVE  NodeInv'
<1> USE DEF NodeInv
<1>1. /\ phase' \in [Reps -> Phases] /\ \A q \in Reps : phase'[q] = IF q = r THEN ph ELSE phase[q]
      /\ target' \in [Reps -> Reps] /\ \A q \in Reps \ {r} : target'[q] = target[q]
  BY DEF ControlType, Phases
<1>2. ControlType'
  BY <1>1 DEF ControlType, masterVars
<1>3. Chosen' /\ Forwarding'
  BY <1>1 DEF Chosen, Forwarding, masterVars
<1>4. Recovering'
  BY <1>1 DEF Recovering, Fetching, Down, ControlType, masterVars
<1>5. Agreeing'
  BY <1>1 DEF Agreeing, Running, Down, ControlType, masterVars, Reps
<1>6. Paused'
  BY <1>1 DEF Paused, Asking, Fetching, Reps, Peer
<1> QED
  BY <1>2, <1>3, <1>4, <1>5, <1>6

LEMMA AskNode ==
  ASSUME NodeInv, NEW r \in Reps, AskMaster(r) \/ ContactSelf(r) \/ ReadyLost(r)
  PROVE  NodeInv'
<1>1. /\ UNCHANGED <<prim, promo, canCkpt, ckptGo, ckpt, rdy, restarts, inOrder, link, pend, chan>>
      /\ UNCHANGED masterVars
      /\ \/ /\ phase[r] = "ask" /\ phase' = [phase EXCEPT ![r] = "contact"]
            /\ target' = [target EXCEPT ![r] = mPrim]
         \/ phase[r] = "contact" /\ phase' = [phase EXCEPT ![r] = "hung"] /\ target' = target
         \/ phase[r] = "lost" /\ phase' = [phase EXCEPT ![r] = "serving"] /\ target' = target
  BY DEF AskMaster, ContactSelf, ReadyLost, Move, serverVars, storeVars, boundVars, histVars
<1> QED
  BY <1>1, AloneNode

\* parse_RECOVERY pauses the checkpoints of a server that is primary.
LEMMA RecoveryNode ==
  ASSUME NodeInv, NEW r \in Reps, ParseRecovery(r)
  PROVE  NodeInv'
<1> USE DEF NodeInv
<1>1. /\ phase[r] = "contact" /\ target[r] # r /\ link[target[r]] # "none"
      /\ \E ph \in Fetching : phase' = [phase EXCEPT ![r] = ph]
      /\ canCkpt' = [canCkpt EXCEPT ![target[r]] = FALSE]
      /\ UNCHANGED <<prim, promo, target, ckptGo, ckpt, rdy, restarts, inOrder, link, pend, chan>>
      /\ UNCHANGED masterVars
  BY DEF ParseRecovery, Move, storeVars, boundVars, histVars, Fetching
<1>2. /\ phase' \in [Reps -> Phases] /\ \A q \in Reps \ {r} : phase'[q] = phase[q]
      /\ phase'[r] \in Fetching
  BY <1>1 DEF ControlType, Phases
<1>3. target[r] \in Reps /\ target[r] = Peer(r) /\ prim[Peer(r)] /\ ~promo[Peer(r)]
  BY <1>1 DEF ControlType, Reps, Peer, Forwarding
<1>4. mPc \in {"done", "beat"} /\ mCand = Peer(r) /\ Peer(r) # r
  BY <1>3 DEF Chosen, Reps, Peer
<1>5. ControlType'
  BY <1>1, <1>2 DEF ControlType, masterVars
<1>6. Chosen' /\ Forwarding'
  BY <1>1, <1>2 DEF Chosen, Forwarding, masterVars, Fetching
<1>7. Recovering'
  BY <1>1, <1>2, <1>3, <1>4 DEF Recovering, Fetching, Down, ControlType, masterVars
<1>8. Agreeing'
  BY <1>1, <1>2, <1>4 DEF Agreeing, Running, Down, Fetching, ControlType, masterVars, Reps
<1>9. Paused'
  BY <1>1, <1>2, <1>3 DEF Paused, Asking, Fetching, Reps, Peer, ControlType
<1> QED
  BY <1>5, <1>6, <1>7, <1>8, <1>9

\* The steps of recoverProcess that follow.
LEMMA FetchNode ==
  ASSUME NodeInv, NEW r \in Reps,
         ReplayLocal(r) \/ FetchCheckpoint(r) \/ FetchLog(r)
  PROVE  NodeInv'
<1> USE DEF NodeInv
<1>1. /\ phase[r] \in Fetching /\ \E ph \in {"fetchLog", "ready"} : phase' = [phase EXCEPT ![r] = ph]
      /\ DOMAIN ckpt' = Reps
      /\ UNCHANGED <<prim, promo, target, canCkpt, ckptGo, rdy, restarts, inOrder, link, pend, chan>>
      /\ UNCHANGED masterVars
  BY DEF ReplayLocal, FetchCheckpoint, FetchLog, Move, storeVars, boundVars, histVars, Fetching, ControlType
<1>2. /\ phase' \in [Reps -> Phases] /\ \A q \in Reps \ {r} : phase'[q] = phase[q]
      /\ phase'[r] \in {"fetchLog", "ready"}
  BY <1>1 DEF ControlType, Phases, Fetching
<1>3. ControlType'
  BY <1>1, <1>2 DEF ControlType, masterVars
<1>4. Chosen' /\ Forwarding'
  BY <1>1, <1>2 DEF Chosen, Forwarding, masterVars, Fetching
<1>5. Recovering'
  BY <1>1, <1>2 DEF Recovering, Fetching, Down, ControlType, masterVars
<1>6. Agreeing'
  BY <1>1, <1>2 DEF Agreeing, Running, Down, Fetching, ControlType, masterVars, Reps
<1>7. Paused'
  BY <1>1, <1>2 DEF Paused, Asking, Fetching, Reps, Peer, ControlType
<1> QED
  BY <1>3, <1>4, <1>5, <1>6, <1>7

LEMMA SendReadyNode ==
  ASSUME NodeInv, NEW r \in Reps, SendReady(r)
  PROVE  NodeInv'
<1> USE DEF NodeInv
<1>1. /\ phase[r] = "ready" /\ phase' = [phase EXCEPT ![r] = "serving"]
      /\ rdy' = [rdy EXCEPT ![target[r]] = TRUE]
      /\ UNCHANGED <<prim, promo, target, canCkpt, ckptGo, ckpt, restarts, inOrder, link, pend, chan>>
      /\ UNCHANGED masterVars
  BY DEF SendReady, Move, serverVars, boundVars, histVars
<1>2. /\ phase' \in [Reps -> Phases] /\ \A q \in Reps : phase'[q] = IF q = r THEN "serving" ELSE phase[q]
  BY <1>1 DEF ControlType, Phases
<1>3. target[r] = Peer(r) /\ link[Peer(r)] # "none" /\ prim[Peer(r)] /\ ~promo[Peer(r)]
  BY <1>1 DEF Recovering, Forwarding, Reps, Peer
<1>4. mPc \in {"done", "beat"} /\ mCand = Peer(r) /\ Peer(r) # r
  BY <1>3 DEF Chosen, Reps, Peer
<1>5. ControlType'
  BY <1>1, <1>2 DEF ControlType, masterVars
<1>6. Chosen' /\ Forwarding'
  BY <1>1, <1>2, <1>3 DEF Chosen, Forwarding, masterVars, ControlType
<1>7. Recovering'
  BY <1>1, <1>2, <1>4 DEF Recovering, Fetching, Down, ControlType, masterVars
<1>8. Agreeing'
  BY <1>1, <1>2, <1>4 DEF Agreeing, Running, Down, ControlType, masterVars, Reps
<1>9. Paused'
  BY <1>1, <1>2 DEF Paused, Asking, Fetching, Reps, Peer, ControlType
<1> QED
  BY <1>5, <1>6, <1>7, <1>8, <1>9

LEMMA ParseReadyNode ==
  ASSUME NodeInv, NEW r \in Reps, ParseReady(r)
  PROVE  NodeInv'
<1> USE DEF NodeInv
<1>1. /\ rdy[r] /\ rdy' = [rdy EXCEPT ![r] = FALSE] /\ link' = [link EXCEPT ![r] = "running"]
      /\ chan' = [chan EXCEPT ![r] = hold[r]] /\ canCkpt' = [canCkpt EXCEPT ![r] = TRUE]
      /\ UNCHANGED <<phase, prim, promo, target, ckptGo, ckpt, restarts, inOrder, pend>>
      /\ UNCHANGED masterVars
  BY DEF ParseReady, boundVars, histVars
<1>2. prim[r] /\ link[r] # "none" /\ \A q \in Reps : Peer(q) \in Reps
  BY <1>1 DEF Forwarding, Reps, Peer
<1>3. ControlType'
  BY <1>1 DEF ControlType, masterVars
<1>4. Chosen' /\ Forwarding'
  BY <1>1, <1>2 DEF Chosen, Forwarding, masterVars, ControlType
<1>5. Recovering'
  BY <1>1, <1>2 DEF Recovering, ControlType, masterVars
<1>6. Agreeing'
  BY <1>1 DEF Agreeing, Running, masterVars
<1>7. Paused'
  BY <1>1 DEF Paused, Asking, ControlType
<1> QED
  BY <1>3, <1>4, <1>5, <1>6, <1>7

-----------------------------------------------------------------------------
(* The master, and parse_PROMOTE.                                          *)

LEMMA PromoteSelfNode ==
  ASSUME NodeInv, NEW r \in Reps, PromoteSelf(r)
  PROVE  NodeInv'
<1> USE DEF NodeInv
<1>1. /\ mPc = "told" /\ mTo = r /\ mCand = r /\ phase[r] = "serving" /\ ~promo[r]
      /\ prim' = [prim EXCEPT ![r] = TRUE] /\ promo' = [promo EXCEPT ![r] = TRUE]
      /\ UNCHANGED <<phase, target, canCkpt, ckptGo, ckpt, rdy, restarts, inOrder, link, pend, chan>>
      /\ UNCHANGED masterVars
  BY DEF PromoteSelf, Accepting, serverVars, storeVars, boundVars, histVars
<1>2. \A q \in Reps : ~prim[q] /\ ~promo[q]
  BY <1>1 DEF Chosen
<1>3. \A q \in Reps : prim'[q] = (q = r) /\ promo'[q] = (q = r)
  BY <1>1, <1>2 DEF ControlType
<1>4. mWire = "ok"
  BY <1>1 DEF Recovering, Down
<1>5. ControlType'
  BY <1>1 DEF ControlType, masterVars
<1>6. Chosen' /\ Forwarding'
  BY <1>1, <1>2, <1>3, <1>4 DEF Chosen, Forwarding, masterVars
<1>7. Recovering' /\ Paused'
  BY <1>1 DEF Recovering, Paused, masterVars
<1>8. Agreeing'
  BY <1>1, <1>2, <1>3 DEF Agreeing, Running, masterVars
<1> QED
  BY <1>5, <1>6, <1>7, <1>8

LEMMA PromoteConnectNode ==
  ASSUME NodeInv, NEW r \in Reps, PromoteConnect(r)
  PROVE  NodeInv'
<1> USE DEF NodeInv
<1>1. /\ promo[r] /\ promo' = [promo EXCEPT ![r] = FALSE]
      /\ \E l \in {"running", "failed"} : link' = [link EXCEPT ![r] = l]
      /\ chan' = [chan EXCEPT ![r] = <<>>] /\ mPc' = "done"
      /\ UNCHANGED <<phase, prim, target, canCkpt, ckptGo, ckpt, rdy, restarts, inOrder, pend>>
      /\ UNCHANGED <<mRun, mPrim, mCand, mTo, mWire>>
  BY DEF PromoteConnect, serverVars, boundVars, histVars
<1>2. prim[r] /\ mPc = "told" /\ mCand = r /\ mTo = r /\ \A q \in Reps : Peer(q) \in Reps /\ (prim[q] <=> q = r)
  BY <1>1 DEF Chosen, Reps, Peer
<1>3. \A q \in Reps : promo'[q] = FALSE
  BY <1>1, <1>2 DEF ControlType, Chosen
<1>4. ControlType'
  BY <1>1 DEF ControlType
<1>5. Chosen' /\ Forwarding'
  BY <1>1, <1>2, <1>3 DEF Chosen, Forwarding, ControlType
<1>6. Recovering' /\ Paused'
  BY <1>1, <1>2 DEF Recovering, Paused, ControlType
<1>7. Agreeing'
  BY <1>1, <1>2 DEF Agreeing, Running
<1> QED
  BY <1>4, <1>5, <1>6, <1>7

LEMMA PromoteOtherNode ==
  ASSUME NodeInv, NEW r \in Reps, PromoteOther(r)
  PROVE  NodeInv'
<1> USE DEF NodeInv
<1>1. /\ mPc = "told" /\ mTo = r /\ mCand # r /\ phase[r] = "serving"
      /\ target' = [target EXCEPT ![r] = mCand] /\ mPc' = "done"
      /\ UNCHANGED <<phase, prim, promo, canCkpt, ckptGo, ckpt, rdy, restarts, inOrder, link, pend, chan>>
      /\ UNCHANGED <<mRun, mPrim, mCand, mTo, mWire>>
  BY DEF PromoteOther, Accepting, storeVars, boundVars, histVars
<1>2. \A q \in Reps : ~prim[q] /\ ~promo[q]
  BY <1>1 DEF Chosen
<1>3. ControlType'
  BY <1>1 DEF ControlType
<1>4. Chosen' /\ Forwarding'
  BY <1>1, <1>2 DEF Chosen, Forwarding
<1>5. Recovering' /\ Paused'
  BY <1>1 DEF Recovering, Paused, Fetching, ControlType
<1>6. mTo # mCand /\ (inOrder => mWire # "ok")
  BY <1>1 DEF Agreeing, Down, Reps, ControlType
<1>7. Agreeing'
  BY <1>1, <1>6 DEF Agreeing, Running
<1> QED
  BY <1>3, <1>4, <1>5, <1>7

LEMMA AliveNode ==
  ASSUME NodeInv, AliveAccepted
  PROVE  NodeInv'
<1> USE DEF NodeInv
<1>1. /\ mPc = "beat" /\ mRun /\ mWire = "closed" /\ mWire' = "reset"
      /\ UNCHANGED <<phase, prim, promo, target, canCkpt, ckptGo, ckpt, rdy, restarts, inOrder, link, pend, chan>>
      /\ UNCHANGED <<mPc, mRun, mPrim, mCand, mTo>>
  BY DEF AliveAccepted, serverVars, storeVars, boundVars, histVars
<1>2. ControlType'
  BY <1>1 DEF ControlType
<1>3. Chosen' /\ Forwarding'
  BY <1>1 DEF Chosen, Forwarding
<1>4. Recovering' /\ Paused' /\ Agreeing'
  BY <1>1 DEF Recovering, Paused, Agreeing, Running
<1> QED
  BY <1>2, <1>3, <1>4

\* The first of the servers that listen.
LEMMA FirstRep ==
  ASSUME NEW S \in SUBSET Reps, S # {}
  PROVE  First(S) \in S /\ (First(S) = 1 => 0 \notin S)
<1>1. \E x \in S : \A q \in S : x <= q
  <2>1. CASE 0 \in S
    BY <2>1 DEF Reps
  <2>2. CASE 0 \notin S
    <3>1. S = {1}
      BY <2>2 DEF Reps
    <3> QED
      BY <3>1
  <2> QED
    BY <2>1, <2>2
<1>2. First(S) \in S /\ \A q \in S : First(S) <= q
  BY <1>1 DEF First
<1> QED
  BY <1>2

LEMMA PromoteNewNode ==
  ASSUME NodeInv, PromoteNewPrimary
  PROVE  NodeInv'
<1> USE DEF NodeInv
<1> DEFINE S == {q \in Reps : Running(q)}
<1>1. /\ mPc = "beat" /\ (mRun => mWire = "reset") /\ mRun' = FALSE
      /\ \/ S = {} /\ mRun /\ UNCHANGED <<mPc, mCand, mWire>>
         \/ S # {} /\ mCand' = First(S) /\ mWire' = "ok" /\ mPc' = "multicast"
      /\ UNCHANGED <<phase, prim, promo, target, canCkpt, ckptGo, ckpt, rdy, restarts, inOrder, link, pend, chan>>
      /\ UNCHANGED <<mPrim, mTo>>
  BY DEF PromoteNewPrimary, serverVars, storeVars, boundVars, histVars
<1>2. \A q \in Reps : ~prim[q] /\ ~promo[q]
  BY <1>1 DEF Chosen
<1>3. S # {} => First(S) \in Reps /\ Running(First(S)) /\ (First(S) = 1 => ~Running(0))
  BY FirstRep DEF Reps
<1> HIDE DEF S
<1>4. ControlType'
  BY <1>1, <1>3 DEF ControlType
<1>5. Chosen' /\ Forwarding'
  BY <1>1, <1>2 DEF Chosen, Forwarding
<1>6. Recovering' /\ Paused'
  BY <1>1 DEF Recovering, Paused
<1>7. Agreeing'
  BY <1>1, <1>3 DEF Agreeing, Running, Down
<1> QED
  BY <1>4, <1>5, <1>6, <1>7

LEMMA MulticastNode ==
  ASSUME NodeInv, MulticastNodes
  PROVE  NodeInv'
<1> USE DEF NodeInv
<1> DEFINE S == {q \in Reps : Running(q)}
<1>1. /\ mPc = "multicast"
      /\ \/ S = {} /\ mPc' = "done" /\ UNCHANGED mTo
         \/ S # {} /\ mPc' = "told" /\ mTo' = First(S)
      /\ UNCHANGED <<phase, prim, promo, target, canCkpt, ckptGo, ckpt, rdy, restarts, inOrder, link, pend, chan>>
      /\ UNCHANGED <<mRun, mPrim, mCand, mWire>>
  BY DEF MulticastNodes, serverVars, storeVars, boundVars, histVars
<1>2. \A q \in Reps : ~prim[q] /\ ~promo[q]
  BY <1>1 DEF Chosen
<1>3. S # {} => First(S) \in Reps /\ (First(S) = 1 => ~Running(0))
  BY FirstRep DEF Reps
<1>4. /\ mWire = "ok" => mCand \in S
      /\ S # {} /\ mWire = "ok" /\ First(S) # mCand => mCand = 1
  BY <1>3 DEF Agreeing, ControlType, Reps
<1> HIDE DEF S
<1>5. ControlType'
  BY <1>1, <1>3 DEF ControlType
<1>6. Chosen' /\ Forwarding'
  BY <1>1, <1>2 DEF Chosen, Forwarding
<1>7. Recovering' /\ Paused'
  BY <1>1 DEF Recovering, Paused
<1>8. Agreeing'
  BY <1>1, <1>4 DEF Agreeing, Running, Down
<1> QED
  BY <1>5, <1>6, <1>7, <1>8

LEMMA PromotedNode ==
  ASSUME NodeInv, Promoted
  PROVE  NodeInv'
<1> USE DEF NodeInv
<1>1. /\ mPc = "done" /\ mPc' = "beat" /\ mPrim' = mCand /\ mRun' = TRUE
      /\ UNCHANGED <<phase, prim, promo, target, canCkpt, ckptGo, ckpt, rdy, restarts, inOrder, link, pend, chan>>
      /\ UNCHANGED <<mCand, mTo, mWire>>
  BY DEF Promoted, serverVars, storeVars, boundVars, histVars
<1>2. ControlType'
  BY <1>1 DEF ControlType
<1>3. Chosen' /\ Forwarding'
  BY <1>1 DEF Chosen, Forwarding
<1>4. Recovering' /\ Paused' /\ Agreeing'
  BY <1>1 DEF Recovering, Paused, Agreeing, Running
<1> QED
  BY <1>2, <1>3, <1>4

-----------------------------------------------------------------------------
\* A death, whatever its cause.
LEMMA DeathsNode ==
  ASSUME NodeInv,
         \/ \E r \in Reps : \/ Kill(r) \/ PushFatal(r) \/ ContactRefused(r)
                            \/ ParseRecoveryFatal(r) \/ ReadyFatal(r)
         \/ ClientPutAtReplica
  PROVE  NodeInv'
<1>1. ASSUME NEW r \in Reps, Kill(r) \/ PushFatal(r) \/ ContactRefused(r) \/ ReadyFatal(r)
      PROVE  NodeInv'
  <2>1. Dies(r) /\ UNCHANGED <<canCkpt, ckptGo, target, ckpt, restarts>>
    BY <1>1 DEF Kill, PushFatal, ContactRefused, ReadyFatal, serverVars, boundVars
  <2>2. Running(r)
    <3>1. pend[r] # {} \/ promo[r] => phase[r] = "serving"
      BY DEF NodeInv, Forwarding, Chosen
    <3> QED
      BY <1>1, <3>1 DEF Kill, PushFatal, ContactRefused, ReadyFatal, Running
  <2> QED
    BY <2>1, <2>2, DeathNode
<1>2. ASSUME NEW r \in Reps, ParseRecoveryFatal(r) PROVE NodeInv'
  <2>1. /\ target[r] \in Reps /\ Running(target[r]) /\ Dies(target[r])
        /\ UNCHANGED <<canCkpt, ckptGo, target, ckpt, restarts>>
    BY <1>2 DEF ParseRecoveryFatal, Accepting, Running, serverVars, boundVars, NodeInv, ControlType
  <2> DEFINE t == target[r]
  <2>2. t \in Reps /\ Running(t) /\ Dies(t)
    BY <2>1
  <2> HIDE DEF t
  <2> QED
    BY <2>1, <2>2, DeathNode
<1>3. CASE ClientPutAtReplica
  <2>1. /\ mPrim \in Reps /\ Running(mPrim) /\ Dies(mPrim)
        /\ UNCHANGED <<canCkpt, ckptGo, target, ckpt, restarts>>
    BY <1>3 DEF ClientPutAtReplica, Accepting, Running, serverVars, NodeInv, ControlType
  <2> DEFINE t == mPrim
  <2>2. t \in Reps /\ Running(t) /\ Dies(t)
    BY <2>1
  <2> HIDE DEF t
  <2> QED
    BY <2>1, <2>2, DeathNode
<1> QED
  BY <1>1, <1>2, <1>3

LEMMA NextNode == NodeInv /\ [Next]_vars => NodeInv'
<1> SUFFICES ASSUME NodeInv, [Next]_vars PROVE NodeInv'
  OBVIOUS
<1>1. ASSUME NEW r \in Reps, ServerStep(r) PROVE NodeInv'
  BY <1>1, PromoteSelfNode, PromoteConnectNode, PromoteOtherNode, PushNode, DeliverNode, AskNode,
     RecoveryNode, FetchNode, SendReadyNode, ParseReadyNode, DeathsNode DEF ServerStep
<1> QED
  BY <1>1, StutterNode, StartNode, RestartNode, CheckpointNode, ClientPutNode, AliveNode,
     PromoteNewNode, MulticastNode, PromotedNode, DeathsNode DEF Next, MasterStep

(* The inductive invariant holds in every reachable state.                 *)
THEOREM NodeInvariance == Spec => []NodeInv
BY InitNode, NextNode, PTL DEF Spec

(* Kills, restarts and promotions never make both servers primary, although *)
(* promoteNewPrimary asks nobody and parse_PROMOTE demotes nobody.         *)
THEOREM NodeOnePrimary == Spec => []AtMostOnePrimary
<1>1. NodeInv => AtMostOnePrimary
  BY DEF NodeInv, Chosen, AtMostOnePrimary, Reps
<1> QED
  BY <1>1, NodeInvariance, PTL

(* A server that is not primary has no BackStore, nothing to push and no   *)
(* stream towards its peer.                                                *)
THEOREM NodeOnlyPrimaryForwards == Spec => []OnlyPrimaryForwards
<1>1. NodeInv => OnlyPrimaryForwards
  BY DEF NodeInv, Forwarding, OnlyPrimaryForwards
<1> QED
  BY <1>1, NodeInvariance, PTL

(* What PRIMARY and WHERE answer is the primary, once the master is back   *)
(* to its heartbeats, unless PROMOTE went astray, which takes a start in   *)
(* the wrong order or a restart.                                           *)
THEOREM NodeMasterAgrees == Spec => []MasterAgrees
<1>1. ASSUME NodeInv, mPc = "beat", mRun, mWire = "ok"
      PROVE  mPrim = mCand /\ IF mTo = mCand THEN prim[mCand] ELSE ~inOrder \/ restarts > 0
  BY <1>1 DEF NodeInv, Agreeing
<1>2. NodeInv => MasterAgrees
  BY <1>1 DEF MasterAgrees, Astray
<1> QED
  BY <1>2, NodeInvariance, PTL

(* While a server fetches the two files of the primary in the first        *)
(* recovery, the primary's checkpointing thread leaves them alone.         *)
THEOREM NodeCheckpointPaused == Spec => CheckpointPaused
<1>1. ASSUME NodeInv, [Next]_vars, NEW r \in Reps,
             restarts = 1, phase[r] \in Fetching, phase[target[r]] = "serving", ~ckptGo[target[r]]
      PROVE  ~ckptGo'[target[r]] /\ ckpt'[target[r]] = ckpt[target[r]]
  <2> DEFINE t == target[r]
  <2>1. t \in Reps /\ t # r /\ ~canCkpt[t] /\ phase[t] = "serving" /\ ~ckptGo[t]
    BY <1>1 DEF NodeInv, Recovering, Paused, ControlType, Reps, Peer
  <2>2. DOMAIN ckpt = Reps /\ DOMAIN ckptGo = Reps
    BY <1>1 DEF NodeInv, ControlType
  <2> HIDE DEF t
  <2>3. ASSUME NEW q \in Reps, \/ Start(q) \/ Restart(q) \/ Kill(q)
                               \/ CheckpointTest(q) \/ WriteToDisk(q)
        PROVE  ~ckptGo'[t] /\ ckpt'[t] = ckpt[t]
    BY <2>1, <2>2, <2>3 DEF Start, Restart, Kill, CheckpointTest, WriteToDisk, serverVars
  <2>4. ASSUME NEW q \in Reps, ServerStep(q)
        PROVE  ~ckptGo'[t] /\ ckpt'[t] = ckpt[t]
    <3>1. CASE \/ PromoteSelf(q) \/ PromoteConnect(q) \/ PromoteOther(q)
               \/ (\E e \in pend[q] : Push(q, e)) \/ PushFatal(q)
               \/ AskMaster(q) \/ ContactRefused(q) \/ ContactSelf(q)
               \/ ParseRecovery(q) \/ ParseRecoveryFatal(q)
               \/ ReplayLocal(q) \/ FetchLog(q)
               \/ SendReady(q) \/ ReadyLost(q) \/ ReadyFatal(q) \/ ParseReady(q)
      BY <2>1, <3>1 DEF PromoteSelf, PromoteConnect, PromoteOther, Push, PushDone, PushFatal,
           AskMaster, ContactRefused, ContactSelf, ParseRecovery, ParseRecoveryFatal,
           ReplayLocal, FetchLog, SendReady, ReadyLost, ReadyFatal, ParseReady, serverVars
    <3>2. CASE Deliver(q)
      <4>1. \E e : Apply(q, e)
        BY <3>2 DEF Deliver
      <4> QED
        BY <2>1, <4>1 DEF Apply, ApplyAsPrimary
    <3>3. CASE FetchCheckpoint(q)
      BY <2>1, <2>2, <3>3 DEF FetchCheckpoint
    <3> QED
      BY <2>4, <3>1, <3>2, <3>3 DEF ServerStep
  <2>5. ASSUME MasterStep PROVE ~ckptGo'[t] /\ ckpt'[t] = ckpt[t]
    BY <2>1, <2>5 DEF MasterStep, AliveAccepted, PromoteNewPrimary, MulticastNodes, Promoted, serverVars
  <2>6. ASSUME (\E k \in Keys : ClientPut(k)) \/ ClientPutAtReplica
        PROVE  ~ckptGo'[t] /\ ckpt'[t] = ckpt[t]
    BY <2>1, <2>6 DEF ClientPut, ApplyAsPrimary, ClientPutAtReplica, serverVars
  <2>7. ASSUME UNCHANGED vars PROVE ~ckptGo'[t] /\ ckpt'[t] = ckpt[t]
    BY <2>1, <2>7 DEF vars, serverVars
  <2>8. ~ckptGo'[t] /\ ckpt'[t] = ckpt[t]
    BY <1>1, <2>3, <2>4, <2>5, <2>6, <2>7 DEF Next
  <2> QED
    BY <2>8 DEF t
<1>2. NodeInv /\ [Next]_vars =>
        [\A r \in Reps :
           LET t == target[r] IN
           (restarts = 1 /\ phase[r] \in Fetching /\ phase[t] = "serving" /\ ~ckptGo[t])
             => ~ckptGo'[t] /\ ckpt'[t] = ckpt[t]]_vars
  BY <1>1
<1> QED
  BY <1>2, NodeInvariance, PTL DEF Spec, CheckpointPaused

-----------------------------------------------------------------------------
(* Tables, and what a sequence of updates makes of them.                   *)

\* Every set of numbers has a least one.
LEMMA LeastNumber ==
  ASSUME NEW T, T \subseteq Nat, T # {}
  PROVE  \E x \in T : \A y \in T : x <= y
<1> DEFINE R == {ss \in Nat \X Nat : ss[1] < ss[2]}
<1>1. R = OpToRel(<, Nat)
  BY DEF OpToRel
<1>2. IsWellFoundedOn(R, Nat)
  BY <1>1, NatLessThanWellFounded
<1>3. PICK x \in T : \A y \in T : <<y, x>> \notin R
  <2> HIDE DEF R
  <2> QED
    BY <1>2, WFMin
<1>4. ASSUME NEW y \in T PROVE x <= y
  <2>1. x \in Nat /\ y \in Nat
    OBVIOUS
  <2>2. y < x => <<y, x>> \in R
    BY <2>1
  <2> QED
    BY <1>3, <2>1, <2>2
<1> QED
  BY <1>4

\* Induction up to N, with the set of the numbers for which the claim holds.
LEMMA InductionTo ==
  ASSUME NEW N \in Nat, NEW S, 0 \in S, \A n \in 0 .. N - 1 : n \in S => n + 1 \in S
  PROVE  N \in S
<1>1. SUFFICES ASSUME (0 .. N) \ S # {} PROVE FALSE
  OBVIOUS
<1>2. PICK x \in (0 .. N) \ S : \A y \in (0 .. N) \ S : x <= y
  <2>1. (0 .. N) \ S \subseteq Nat
    OBVIOUS
  <2> QED
    BY <1>1, <2>1, LeastNumber
<1>3. x # 0 /\ x - 1 \in 0 .. N - 1 /\ x - 1 \in S
  BY <1>2
<1> QED
  BY <1>2, <1>3

\* The equation of the functions in Replay and Updated, for the keys and the
\* values that are written one after the other.
WriteStep(g, t, ks, vs, i) == IF i = 0 THEN t ELSE [g[i-1] EXCEPT ![ks[i]] = vs[i]]

\* There is such a function, because each of its values depends on an earlier one.
LEMMA WritesExist ==
  ASSUME NEW N \in Nat, NEW t, NEW ks, NEW vs
  PROVE  \E g : g = [i \in 0 .. N |-> WriteStep(g, t, ks, vs, i)]
<1> DEFINE S == {n \in 0 .. N : \E g : g = [i \in 0 .. n |-> WriteStep(g, t, ks, vs, i)]}
<1>1. 0 \in S
  <2> DEFINE g == [i \in 0 .. 0 |-> t]
  <2>1. g = [i \in 0 .. 0 |-> WriteStep(g, t, ks, vs, i)]
    BY DEF WriteStep
  <2> HIDE DEF g
  <2> QED
    BY <2>1
<1>2. ASSUME NEW n \in 0 .. N - 1, n \in S PROVE n + 1 \in S
  <2>1. PICK g : g = [i \in 0 .. n |-> WriteStep(g, t, ks, vs, i)]
    BY <1>2
  <2> DEFINE last == [g[n] EXCEPT ![ks[n + 1]] = vs[n + 1]]
             h == [i \in 0 .. n + 1 |-> IF i <= n THEN g[i] ELSE last]
  <2>2. \A i \in 0 .. n : h[i] = g[i] /\ g[i] = WriteStep(g, t, ks, vs, i)
    BY <2>1
  <2>3. h[n + 1] = last /\ h[n] = g[n] /\ n + 1 # 0 /\ (n + 1) - 1 = n
    OBVIOUS
  <2>4. ASSUME NEW i \in 0 .. n + 1 PROVE h[i] = WriteStep(h, t, ks, vs, i)
    <3>1. CASE i = n + 1
      <4> HIDE DEF h
      <4> QED
        BY <2>3, <3>1 DEF WriteStep
    <3>2. CASE i # n + 1
      <4>1. i \in 0 .. n /\ (i # 0 => i - 1 \in 0 .. n)
        BY <3>2
      <4> QED
        BY <2>2, <4>1 DEF WriteStep
    <3> QED
      BY <3>1, <3>2
  <2>5. h = [i \in 0 .. n + 1 |-> WriteStep(h, t, ks, vs, i)]
    <3>1. h = [i \in 0 .. n + 1 |-> h[i]]
      OBVIOUS
    <3> HIDE DEF h
    <3> QED
      BY <2>4, <3>1
  <2> HIDE DEF h
  <2>6. n + 1 \in 0 .. N
    OBVIOUS
  <2> QED
    BY <2>5, <2>6
<1> HIDE DEF S
<1>3. \A n \in 0 .. N - 1 : n \in S => n + 1 \in S
  BY <1>2
<1>4. N \in S
  BY <1>1, <1>3, InductionTo
<1> QED
  BY <1>4 DEF S

\* f builds, from f[0], by writing the values vs under the keys ks.
Writes(f, n, ks, vs) == \A i \in 1 .. n : f[i] = [f[i-1] EXCEPT ![ks[i]] = vs[i]]

KeysOf(es) == [i \in 1 .. Len(es) |-> es[i].key]
ValsOf(es) == [i \in 1 .. Len(es) |-> es[i].val]
ReplayedOf(l) == [i \in 1 .. Len(l) |-> Replayed(l[i])]

LEMMA UpdatedWrites ==
  ASSUME NEW t, NEW es, Len(es) \in Nat
  PROVE  \E f : Updated(t, es) = f[Len(es)] /\ f[0] = t /\ Writes(f, Len(es), KeysOf(es), ValsOf(es))
<1> DEFINE N == Len(es)
           f == CHOOSE g : g = [i \in 0 .. N |-> IF i = 0 THEN t ELSE [g[i-1] EXCEPT ![es[i].key] = es[i].val]]
<1>0. /\ N \in Nat /\ 0 \in 0 .. N
      /\ \A i \in 1 .. N : i \in 0 .. N /\ i # 0 /\ KeysOf(es)[i] = es[i].key /\ ValsOf(es)[i] = es[i].val
  BY DEF KeysOf, ValsOf
<1>1. Updated(t, es) = f[N]
  BY DEF Updated
<1>2. f = [i \in 0 .. N |-> IF i = 0 THEN t ELSE [f[i-1] EXCEPT ![es[i].key] = es[i].val]]
  <2>1. PICK g : g = [i \in 0 .. N |-> WriteStep(g, t, KeysOf(es), ValsOf(es), i)]
    <3> DEFINE ks == KeysOf(es)  vs == ValsOf(es)
    <3>1. N \in Nat
      BY <1>0
    <3> HIDE DEF N, ks, vs
    <3>2. \E g : g = [i \in 0 .. N |-> WriteStep(g, t, ks, vs, i)]
      BY <3>1, WritesExist
    <3> QED
      BY <3>2 DEF ks, vs
  <2>2. \A i \in 0 .. N : WriteStep(g, t, KeysOf(es), ValsOf(es), i) =
                            IF i = 0 THEN t ELSE [g[i-1] EXCEPT ![es[i].key] = es[i].val]
    BY DEF WriteStep, KeysOf, ValsOf
  <2>3. g = [i \in 0 .. N |-> IF i = 0 THEN t ELSE [g[i-1] EXCEPT ![es[i].key] = es[i].val]]
    BY <2>1, <2>2
  <2> QED
    BY <2>3
<1> HIDE DEF f, N
<1>3. \A i \in 0 .. N : f[i] = IF i = 0 THEN t ELSE [f[i-1] EXCEPT ![es[i].key] = es[i].val]
  BY <1>2
<1>4. f[0] = t /\ Writes(f, N, KeysOf(es), ValsOf(es))
  <2>1. ASSUME NEW i \in 1 .. N
        PROVE  f[i] = [f[i-1] EXCEPT ![KeysOf(es)[i]] = ValsOf(es)[i]]
    BY <1>0, <1>3
  <2> QED
    BY <1>0, <1>3, <2>1 DEF Writes
<1> QED
  BY <1>1, <1>4 DEF N

LEMMA ReplayWrites ==
  ASSUME NEW t, NEW l, Len(l) \in Nat
  PROVE  \E f : Replay(t, l) = f[Len(l)] /\ f[0] = t /\ Writes(f, Len(l), KeysOf(l), ReplayedOf(l))
<1> DEFINE N == Len(l)
           f == CHOOSE g : g = [i \in 0 .. N |-> IF i = 0 THEN t ELSE [g[i-1] EXCEPT ![l[i].key] = Replayed(l[i])]]
<1>0. /\ N \in Nat /\ 0 \in 0 .. N
      /\ \A i \in 1 .. N : i \in 0 .. N /\ i # 0 /\ KeysOf(l)[i] = l[i].key /\ ReplayedOf(l)[i] = Replayed(l[i])
  BY DEF KeysOf, ReplayedOf
<1>1. Replay(t, l) = f[N]
  BY DEF Replay
<1>2. f = [i \in 0 .. N |-> IF i = 0 THEN t ELSE [f[i-1] EXCEPT ![l[i].key] = Replayed(l[i])]]
  <2>1. PICK g : g = [i \in 0 .. N |-> WriteStep(g, t, KeysOf(l), ReplayedOf(l), i)]
    <3> DEFINE ks == KeysOf(l)  vs == ReplayedOf(l)
    <3>1. N \in Nat
      BY <1>0
    <3> HIDE DEF N, ks, vs
    <3>2. \E g : g = [i \in 0 .. N |-> WriteStep(g, t, ks, vs, i)]
      BY <3>1, WritesExist
    <3> QED
      BY <3>2 DEF ks, vs
  <2>2. \A i \in 0 .. N : WriteStep(g, t, KeysOf(l), ReplayedOf(l), i) =
                            IF i = 0 THEN t ELSE [g[i-1] EXCEPT ![l[i].key] = Replayed(l[i])]
    BY DEF WriteStep, KeysOf, ReplayedOf
  <2>3. g = [i \in 0 .. N |-> IF i = 0 THEN t ELSE [g[i-1] EXCEPT ![l[i].key] = Replayed(l[i])]]
    BY <2>1, <2>2
  <2> QED
    BY <2>3
<1> HIDE DEF f, N
<1>3. \A i \in 0 .. N : f[i] = IF i = 0 THEN t ELSE [f[i-1] EXCEPT ![l[i].key] = Replayed(l[i])]
  BY <1>2
<1>4. f[0] = t /\ Writes(f, N, KeysOf(l), ReplayedOf(l))
  <2>1. ASSUME NEW i \in 1 .. N
        PROVE  f[i] = [f[i-1] EXCEPT ![KeysOf(l)[i]] = ReplayedOf(l)[i]]
    BY <1>0, <1>3
  <2> QED
    BY <1>0, <1>3, <2>1 DEF Writes
<1> QED
  BY <1>1, <1>4 DEF N

\* Two tables to which the same is written agree on a key if they did before.
LEMMA WritesAgree ==
  ASSUME NEW N \in Nat, NEW f, NEW g, NEW ks, NEW vs, NEW ls, NEW us,
         Writes(f, N, ks, vs), Writes(g, N, ls, us),
         \A i \in 1 .. N : ks[i] = ls[i] /\ vs[i] = us[i],
         NEW k, k \in DOMAIN f[0], k \in DOMAIN g[0], f[0][k] = g[0][k]
  PROVE  k \in DOMAIN f[N] /\ f[N][k] = g[N][k]
<1> DEFINE S == {n \in 0 .. N : k \in DOMAIN f[n] /\ k \in DOMAIN g[n] /\ f[n][k] = g[n][k]}
<1>1. 0 \in S
  OBVIOUS
<1>2. ASSUME NEW n \in 0 .. N - 1, n \in S PROVE n + 1 \in S
  <2>1. n + 1 \in 1 .. N /\ (n + 1) - 1 = n /\ n + 1 \in 0 .. N
    OBVIOUS
  <2>2. /\ f[n + 1] = [f[n] EXCEPT ![ks[n + 1]] = vs[n + 1]]
        /\ g[n + 1] = [g[n] EXCEPT ![ks[n + 1]] = vs[n + 1]]
    BY <2>1 DEF Writes
  <2>3. k \in DOMAIN f[n] /\ k \in DOMAIN g[n] /\ f[n][k] = g[n][k]
    BY <1>2
  <2> QED
    BY <2>1, <2>2, <2>3
<1> HIDE DEF S
<1>3. N \in S
  BY <1>1, <1>2, InductionTo
<1> QED
  BY <1>3 DEF S

LEMMA UpdatedAgree ==
  ASSUME NEW es, Len(es) \in Nat, NEW t, NEW u, NEW k, k \in DOMAIN t, k \in DOMAIN u, t[k] = u[k]
  PROVE  Updated(t, es)[k] = Updated(u, es)[k]
<1>1. PICK f : Updated(t, es) = f[Len(es)] /\ f[0] = t /\ Writes(f, Len(es), KeysOf(es), ValsOf(es))
  BY UpdatedWrites
<1>2. PICK g : Updated(u, es) = g[Len(es)] /\ g[0] = u /\ Writes(g, Len(es), KeysOf(es), ValsOf(es))
  BY UpdatedWrites
<1>3. f[Len(es)][k] = g[Len(es)][k]
  BY <1>1, <1>2, WritesAgree
<1> QED
  BY <1>1, <1>2, <1>3

LEMMA UpdatedAppend ==
  ASSUME NEW S, NEW es \in Seq(S), NEW e \in S, NEW t, NEW k, k \in DOMAIN t
  PROVE  Updated(t, Append(es, e))[k] = IF k = e.key THEN e.val ELSE Updated(t, es)[k]
<1> DEFINE N == Len(es)
           more == Append(es, e)
<1>1. /\ N \in Nat /\ Len(more) = N + 1 /\ N + 1 \in 1 .. N + 1 /\ (N + 1) - 1 = N
      /\ more[N + 1] = e /\ \A i \in 1 .. N : more[i] = es[i]
      /\ \A i \in 1 .. N : i \in 1 .. N + 1
  OBVIOUS
<1> HIDE DEF N, more
<1> DEFINE ks == KeysOf(more)  vs == ValsOf(more)
<1>2. PICK f : Updated(t, more) = f[N + 1] /\ f[0] = t /\ Writes(f, N + 1, ks, vs)
  BY <1>1, UpdatedWrites
<1>3. PICK g : Updated(t, es) = g[N] /\ g[0] = t /\ Writes(g, N, KeysOf(es), ValsOf(es))
  BY <1>1, UpdatedWrites DEF N
<1>4. /\ ks[N + 1] = e.key /\ vs[N + 1] = e.val
      /\ \A i \in 1 .. N : ks[i] = KeysOf(es)[i] /\ vs[i] = ValsOf(es)[i]
  BY <1>1 DEF KeysOf, ValsOf, N
<1> HIDE DEF ks, vs
<1>5. Writes(f, N, ks, vs) /\ f[N + 1] = [f[N] EXCEPT ![e.key] = e.val]
  BY <1>1, <1>2, <1>4 DEF Writes
<1>6. k \in DOMAIN f[N] /\ f[N][k] = g[N][k]
  <2>1. N \in Nat /\ k \in DOMAIN f[0] /\ k \in DOMAIN g[0] /\ f[0][k] = g[0][k]
    BY <1>1, <1>2, <1>3
  <2> QED
    BY <1>3, <1>4, <1>5, <2>1, WritesAgree
<1> QED
  BY <1>2, <1>3, <1>5, <1>6 DEF more

\* The log that one more entry is written to.
LEMMA ReplayAppend ==
  ASSUME NEW S, NEW l \in Seq(S), NEW e \in S, NEW t, NEW k, k \in DOMAIN t
  PROVE  Replay(t, Append(l, e))[k] = IF k = e.key THEN Replayed(e) ELSE Replay(t, l)[k]
<1> DEFINE N == Len(l)
           more == Append(l, e)
<1>1. /\ N \in Nat /\ Len(more) = N + 1 /\ N + 1 \in 1 .. N + 1 /\ (N + 1) - 1 = N
      /\ more[N + 1] = e /\ \A i \in 1 .. N : more[i] = l[i]
      /\ \A i \in 1 .. N : i \in 1 .. N + 1
  OBVIOUS
<1> HIDE DEF N, more
<1> DEFINE ks == KeysOf(more)  vs == ReplayedOf(more)
<1>2. PICK f : Replay(t, more) = f[N + 1] /\ f[0] = t /\ Writes(f, N + 1, ks, vs)
  BY <1>1, ReplayWrites
<1>3. PICK g : Replay(t, l) = g[N] /\ g[0] = t /\ Writes(g, N, KeysOf(l), ReplayedOf(l))
  BY <1>1, ReplayWrites DEF N
<1>4. /\ ks[N + 1] = e.key /\ vs[N + 1] = Replayed(e)
      /\ \A i \in 1 .. N : ks[i] = KeysOf(l)[i] /\ vs[i] = ReplayedOf(l)[i]
  BY <1>1 DEF KeysOf, ReplayedOf, N
<1> HIDE DEF ks, vs
<1>5. Writes(f, N, ks, vs) /\ f[N + 1] = [f[N] EXCEPT ![e.key] = Replayed(e)]
  BY <1>1, <1>2, <1>4 DEF Writes
<1>6. k \in DOMAIN f[N] /\ f[N][k] = g[N][k]
  <2>1. N \in Nat /\ k \in DOMAIN f[0] /\ k \in DOMAIN g[0] /\ f[0][k] = g[0][k]
    BY <1>1, <1>2, <1>3
  <2> QED
    BY <1>3, <1>4, <1>5, <2>1, WritesAgree
<1> QED
  BY <1>2, <1>3, <1>5, <1>6 DEF more

\* The table once the first update of the stream is applied to it.
LEMMA UpdatedHead ==
  ASSUME NEW S, NEW es \in Seq(S), es # <<>>, NEW t, NEW k, k \in DOMAIN t
  PROVE  Updated(t, es)[k] = Updated([t EXCEPT ![es[1].key] = es[1].val], Tail(es))[k]
<1> DEFINE N == Len(es) - 1
           rest == Tail(es)
           u == [t EXCEPT ![es[1].key] = es[1].val]
<1>1. /\ N \in Nat /\ Len(es) = N + 1 /\ Len(rest) = N /\ 1 \in 1 .. N + 1
      /\ \A i \in 1 .. N : rest[i] = es[i + 1]
  OBVIOUS
<1>2. k \in DOMAIN u
  OBVIOUS
<1> HIDE DEF N, rest
<1>3. PICK f : Updated(t, es) = f[N + 1] /\ f[0] = t /\ Writes(f, N + 1, KeysOf(es), ValsOf(es))
  BY <1>1, UpdatedWrites
<1>4. f[1] = u
  <2>1. KeysOf(es)[1] = es[1].key /\ ValsOf(es)[1] = es[1].val
    BY <1>1 DEF KeysOf, ValsOf
  <2>2. f[1] = [f[0] EXCEPT ![KeysOf(es)[1]] = ValsOf(es)[1]]
    <3>1. f[1] = [f[1 - 1] EXCEPT ![KeysOf(es)[1]] = ValsOf(es)[1]]
      BY <1>1, <1>3 DEF Writes
    <3>2. 1 - 1 = 0
      OBVIOUS
    <3> QED
      BY <3>1, <3>2
  <2> QED
    BY <1>3, <2>1, <2>2
<1> HIDE DEF u
<1>5. PICK g : Updated(u, rest) = g[N] /\ g[0] = u /\ Writes(g, N, KeysOf(rest), ValsOf(rest))
  BY <1>1, UpdatedWrites
<1> DEFINE h == [i \in 0 .. N |-> f[i + 1]]
<1>6. Writes(h, N, KeysOf(rest), ValsOf(rest))
  <2> SUFFICES ASSUME NEW i \in 1 .. N
               PROVE  h[i] = [h[i-1] EXCEPT ![KeysOf(rest)[i]] = ValsOf(rest)[i]]
    BY DEF Writes
  <2>1. i \in 0 .. N /\ i - 1 \in 0 .. N /\ i + 1 \in 1 .. N + 1 /\ (i + 1) - 1 = i /\ (i - 1) + 1 = i
    BY <1>1
  <2>2. h[i] = f[i + 1] /\ h[i-1] = f[i]
    BY <2>1
  <2> HIDE DEF h
  <2>3. f[i + 1] = [f[i] EXCEPT ![KeysOf(es)[i + 1]] = ValsOf(es)[i + 1]]
    BY <1>3, <2>1 DEF Writes
  <2>4. KeysOf(rest)[i] = KeysOf(es)[i + 1] /\ ValsOf(rest)[i] = ValsOf(es)[i + 1]
    BY <1>1, <2>1 DEF KeysOf, ValsOf
  <2> QED
    BY <2>2, <2>3, <2>4
<1>7. h[0] = u /\ h[N] = f[N + 1]
  BY <1>1, <1>4
<1> HIDE DEF h
<1>8. g[N][k] = h[N][k]
  BY <1>1, <1>2, <1>5, <1>6, <1>7, WritesAgree
<1> QED
  BY <1>3, <1>5, <1>7, <1>8 DEF u, rest

\* Nothing changes for a key when an update of another is lost.
LEMMA UpdatedSkip ==
  ASSUME NEW S, NEW es \in Seq(S), es # <<>>, NEW t, NEW k, k \in DOMAIN t, es[1].key # k
  PROVE  Updated(t, es)[k] = Updated(t, Tail(es))[k]
<1> DEFINE u == [t EXCEPT ![es[1].key] = es[1].val]
<1>1. k \in DOMAIN u /\ u[k] = t[k]
  OBVIOUS
<1>2. Updated(t, es)[k] = Updated(u, Tail(es))[k]
  BY UpdatedHead
<1>3. Len(Tail(es)) \in Nat
  OBVIOUS
<1> DEFINE rest == Tail(es)
<1> HIDE DEF u, rest
<1>4. Updated(u, rest)[k] = Updated(t, rest)[k]
  BY <1>1, <1>3, UpdatedAgree DEF rest
<1> QED
  BY <1>2, <1>4 DEF rest

LEMMA NoUpdates ==
  ASSUME NEW t
  PROVE  Updated(t, <<>>) = t /\ Replay(t, <<>>) = t
<1>1. Len(<<>>) = 0
  OBVIOUS
<1> QED
  BY <1>1, UpdatedWrites, ReplayWrites

\* What is read from a log has the types of what was written to it.
LEMMA ReplayTable ==
  ASSUME NEW t \in Table, NEW l \in Seq(EntryType)
  PROVE  Replay(t, l) \in Table
<1> DEFINE N == Len(l)
<1>1. N \in Nat /\ \A i \in 1 .. N : l[i] \in EntryType
  OBVIOUS
<1> HIDE DEF N
<1>2. PICK f : Replay(t, l) = f[N] /\ f[0] = t /\ Writes(f, N, KeysOf(l), ReplayedOf(l))
  BY <1>1, ReplayWrites DEF N
<1> DEFINE S == {n \in 0 .. N : f[n] \in Table}
<1>3. 0 \in S
  BY <1>1, <1>2
<1>4. ASSUME NEW n \in 0 .. N - 1, n \in S PROVE n + 1 \in S
  <2>1. n + 1 \in 1 .. N /\ (n + 1) - 1 = n /\ n + 1 \in 0 .. N
    BY <1>1
  <2>2. /\ l[n + 1] \in EntryType /\ l[n + 1].key \in Keys /\ Replayed(l[n + 1]) \in ValType
        /\ KeysOf(l)[n + 1] = l[n + 1].key /\ ReplayedOf(l)[n + 1] = Replayed(l[n + 1])
    BY <1>1, <2>1 DEF EntryType, ValType, Replayed, Val, KeysOf, ReplayedOf, N
  <2>3. f[n + 1] = [f[n] EXCEPT ![l[n + 1].key] = Replayed(l[n + 1])]
    BY <1>2, <2>1, <2>2 DEF Writes
  <2>4. [f[n] EXCEPT ![l[n + 1].key] = Replayed(l[n + 1])] \in Table
    BY <1>4, <2>2 DEF Table
  <2> QED
    BY <2>1, <2>3, <2>4
<1> HIDE DEF S
<1>5. N \in S
  BY <1>1, <1>3, <1>4, InductionTo
<1> QED
  BY <1>2, <1>5 DEF S

-----------------------------------------------------------------------------
(* The types of tables, files and streams.                                 *)

DataType ==
  /\ tab \in [Reps -> Table] /\ seqID \in [Reps -> Nat]
  /\ ckpt \in [Reps -> [version : Nat, snap : Table]]
  /\ log \in [Reps -> Seq(EntryType)] /\ chan \in [Reps -> Seq(EntryType)]
  /\ hold \in [Reps -> Seq(EntryType)] /\ left \in [Reps -> SUBSET Seq(EntryType)]
  /\ pend \in [Reps -> SUBSET EntryType] /\ \A r \in Reps : IsFiniteSet(pend[r])
  /\ wire \in [Reps -> {"ok", "closed", "reset"}]
  /\ acked \subseteq EntryType /\ dropped \subseteq EntryType
  /\ puts \in 0 .. MaxPuts

LEMMA InitData == Init => DataType
<1> SUFFICES ASSUME Init PROVE DataType
  OBVIOUS
<1>1. Empty \in Table
  BY ClusterAssumption DEF Empty, Nothing, Val, Table, ValType
<1>2. <<>> \in Seq(EntryType) /\ IsFiniteSet({}) /\ 0 \in 0 .. MaxPuts
  BY ClusterAssumption, FS_EmptySet
<1> QED
  BY <1>1, <1>2 DEF Init, DataType

LEMMA PeerFacts ==
  \A r \in Reps : /\ Peer(r) \in Reps /\ Peer(r) # r /\ Peer(Peer(r)) = r
                  /\ \A q \in Reps : q = r \/ q = Peer(r)
BY DEF Reps, Peer

LEMMA RangeType ==
  ASSUME NEW S, NEW s \in Seq(S)
  PROVE  Range(s) \subseteq S
BY DEF Range

LEMMA PrefixType ==
  ASSUME NEW S, NEW s \in Seq(S), NEW n \in 0 .. Len(s)
  PROVE  /\ SubSeq(s, 1, n) \in Seq(S) /\ SubSeq(s, n + 1, Len(s)) \in Seq(S)
         /\ Len(SubSeq(s, 1, n)) = n /\ \A i \in 1 .. n : SubSeq(s, 1, n)[i] = s[i]
         /\ Range(SubSeq(s, 1, n)) \cup Range(SubSeq(s, n + 1, Len(s))) = Range(s)
<1>1. Len(s) \in Nat /\ \A i \in 1 .. Len(s) : s[i] \in S
  OBVIOUS
<1> DEFINE N == Len(s)
           a == SubSeq(s, 1, n)
           b == SubSeq(s, n + 1, N)
<1>2. a \in Seq(S) /\ Len(a) = n /\ \A i \in 1 .. n : a[i] = s[i]
  OBVIOUS
<1>3. b \in Seq(S) /\ Len(b) = N - n /\ \A i \in 1 .. N - n : b[i] = s[n + i]
  OBVIOUS
<1>4. DOMAIN a = 1 .. n /\ DOMAIN b = 1 .. N - n /\ DOMAIN s = 1 .. N
  BY <1>2, <1>3
<1> HIDE DEF N, a, b
<1>5. ASSUME NEW x \in Range(a) PROVE x \in Range(s)
  BY <1>1, <1>2, <1>4, <1>5 DEF Range, N
<1>6. ASSUME NEW x \in Range(b) PROVE x \in Range(s)
  <2>1. PICK i \in 1 .. N - n : x = b[i]
    BY <1>4, <1>6 DEF Range
  <2>2. n + i \in 1 .. N /\ x = s[n + i]
    BY <1>1, <1>3, <2>1 DEF N
  <2> QED
    BY <1>4, <2>2 DEF Range
<1>7. ASSUME NEW x \in Range(s) PROVE x \in Range(a) \cup Range(b)
  <2>1. PICK i \in 1 .. N : x = s[i]
    BY <1>4, <1>7 DEF Range
  <2>2. CASE i <= n
    BY <1>1, <1>2, <1>4, <2>1, <2>2 DEF Range, N
  <2>3. CASE i > n
    <3>1. i - n \in 1 .. N - n /\ n + (i - n) = i
      BY <1>1, <2>1, <2>3 DEF N
    <3>2. b[i - n] = s[i]
      BY <1>3, <3>1
    <3> QED
      BY <1>4, <2>1, <3>1, <3>2 DEF Range
  <2> QED
    BY <1>1, <2>1, <2>2, <2>3 DEF N
<1>8. Range(a) \cup Range(b) = Range(s)
  BY <1>5, <1>6, <1>7
<1> QED
  BY <1>2, <1>3, <1>8 DEF a, b, N

LEMMA DeathData ==
  ASSUME DataType, NEW r \in Reps, Dies(r),
         UNCHANGED serverVars, puts' \in 0 .. MaxPuts
  PROVE  DataType'
<1> DEFINE q == Peer(r)
<1>1. q \in Reps
  BY DEF Reps, Peer
<1>2. PICK n \in 0 .. Len(chan[r]) :
        /\ left' = [left EXCEPT ![r] = IF n = 0 THEN @ ELSE @ \cup {SubSeq(chan[r], 1, n)}, ![q] = {}]
        /\ dropped' = dropped \cup Range(SubSeq(chan[r], n + 1, Len(chan[r])))
                              \cup Range(hold[r]) \cup pend[r]
                              \cup Range(chan[q]) \cup UNION {Range(l) : l \in left[q]}
  BY DEF Dies
<1>3. /\ chan[r] \in Seq(EntryType) /\ hold[r] \in Seq(EntryType) /\ chan[q] \in Seq(EntryType)
      /\ left[q] \in SUBSET Seq(EntryType) /\ pend[r] \subseteq EntryType
  BY <1>1 DEF DataType
<1>4. /\ SubSeq(chan[r], 1, n) \in Seq(EntryType)
      /\ SubSeq(chan[r], n + 1, Len(chan[r])) \in Seq(EntryType)
  BY <1>3, PrefixType
<1> HIDE DEF q
<1>5. /\ Range(SubSeq(chan[r], n + 1, Len(chan[r]))) \subseteq EntryType
      /\ Range(hold[r]) \subseteq EntryType /\ Range(chan[q]) \subseteq EntryType
      /\ \A l \in left[q] : Range(l) \subseteq EntryType
  BY <1>3, <1>4, RangeType
<1>6. left' \in [Reps -> SUBSET Seq(EntryType)]
  BY <1>1, <1>2, <1>4 DEF DataType
<1>7. dropped' \subseteq EntryType
  BY <1>2, <1>3, <1>5 DEF DataType
<1>8. /\ chan' = [p \in Reps |-> <<>>] /\ hold' = [hold EXCEPT ![r] = <<>>]
      /\ pend' = [pend EXCEPT ![r] = {}] /\ acked' = acked
      /\ wire' = [wire EXCEPT ![r] = "closed", ![q] = IF @ = "ok" THEN "closed" ELSE @]
  BY DEF Dies, q
<1>9. /\ chan' \in [Reps -> Seq(EntryType)] /\ hold' \in [Reps -> Seq(EntryType)]
      /\ wire' \in [Reps -> {"ok", "closed", "reset"}]
  <2>1. <<>> \in Seq(EntryType)
    OBVIOUS
  <2>2. chan' \in [Reps -> Seq(EntryType)] /\ hold' \in [Reps -> Seq(EntryType)]
    BY <1>8, <2>1 DEF DataType
  <2>3. \E x \in {"ok", "closed", "reset"} : wire' = [wire EXCEPT ![r] = "closed", ![q] = x]
    BY <1>1, <1>8 DEF DataType
  <2> QED
    BY <1>1, <2>2, <2>3 DEF DataType
<1>10. pend' \in [Reps -> SUBSET EntryType] /\ \A p \in Reps : IsFiniteSet(pend'[p])
  BY <1>8, FS_EmptySet DEF DataType
<1> QED
  BY <1>6, <1>7, <1>8, <1>9, <1>10 DEF DataType, serverVars

LEMMA DeathsData ==
  ASSUME NodeInv, DataType,
         \/ \E r \in Reps : \/ Kill(r) \/ PushFatal(r) \/ ContactRefused(r)
                            \/ ParseRecoveryFatal(r) \/ ReadyFatal(r)
         \/ ClientPutAtReplica
  PROVE  DataType'
<1>1. /\ UNCHANGED serverVars
      /\ \E r \in Reps : Dies(r)
  BY DEF Kill, PushFatal, ContactRefused, ParseRecoveryFatal, ReadyFatal, ClientPutAtReplica,
     NodeInv, ControlType
<1>2. puts' \in 0 .. MaxPuts
  BY ClusterAssumption DEF Kill, PushFatal, ContactRefused, ParseRecoveryFatal, ReadyFatal,
     ClientPutAtReplica, boundVars, DataType
<1> QED
  BY <1>1, <1>2, DeathData

LEMMA PrimaryData ==
  ASSUME DataType, NEW r \in Reps, NEW k \in Keys, NEW v \in ValType, ApplyAsPrimary(r, k, v)
  PROVE  /\ tab' \in [Reps -> Table] /\ seqID' \in [Reps -> Nat]
         /\ log' \in [Reps -> Seq(EntryType)] /\ ckpt' = ckpt
         /\ pend' \in [Reps -> SUBSET EntryType] /\ \A q \in Reps : IsFiniteSet(pend'[q])
<1> DEFINE e == Entry(seqID[r] + 1, k, v, "own")
<1>1. e \in EntryType
  BY DEF Entry, EntryType, DataType
<1>2. /\ seqID' = [seqID EXCEPT ![r] = @ + 1] /\ log' = [log EXCEPT ![r] = Append(@, e)]
      /\ tab' = [tab EXCEPT ![r][k] = v] /\ pend' = [pend EXCEPT ![r] = @ \cup {e}]
      /\ ckpt' = ckpt
  BY DEF ApplyAsPrimary
<1> HIDE DEF e
<1>3. tab' \in [Reps -> Table]
  BY <1>2 DEF DataType, Table
<1>4. seqID' \in [Reps -> Nat] /\ log' \in [Reps -> Seq(EntryType)]
  BY <1>1, <1>2 DEF DataType
<1>5. pend' \in [Reps -> SUBSET EntryType]
  BY <1>1, <1>2 DEF DataType
<1>6. IsFiniteSet(pend[r] \cup {e})
  BY FS_AddElement DEF DataType
<1>7. \A q \in Reps : IsFiniteSet(pend'[q])
  BY <1>2, <1>6 DEF DataType
<1> QED
  BY <1>2, <1>3, <1>4, <1>5, <1>7

LEMMA ApplyData ==
  ASSUME DataType, NEW r \in Reps, NEW e \in EntryType, Apply(r, e)
  PROVE  /\ tab' \in [Reps -> Table] /\ seqID' \in [Reps -> Nat]
         /\ log' \in [Reps -> Seq(EntryType)] /\ ckpt' = ckpt
         /\ pend' \in [Reps -> SUBSET EntryType] /\ \A q \in Reps : IsFiniteSet(pend'[q])
<1>1. /\ e.key \in Keys /\ e.seq \in Nat /\ e.val \in ValType
      /\ Val(e.val.id, "junk") \in ValType
  BY DEF EntryType, ValType, Val
<1>2. CASE prim[r]
  BY <1>1, <1>2, PrimaryData DEF Apply
<1>3. CASE ~prim[r]
  <2> DEFINE c == Entry(e.seq, e.key, e.val, "copy")
  <2>1. c \in EntryType
    BY <1>1 DEF Entry, EntryType
  <2>2. /\ seqID' = [seqID EXCEPT ![r] = IF e.seq > @ THEN e.seq ELSE @]
        /\ log' = [log EXCEPT ![r] = Append(@, c)]
        /\ tab' = [tab EXCEPT ![r][e.key] = e.val]
        /\ ckpt' = ckpt /\ pend' = pend
    BY <1>3 DEF Apply
  <2> HIDE DEF c
  <2>3. tab' \in [Reps -> Table]
    BY <1>1, <2>2 DEF DataType, Table
  <2>4. seqID' \in [Reps -> Nat]
    BY <1>1, <2>2 DEF DataType
  <2>5. log' \in [Reps -> Seq(EntryType)]
    BY <2>1, <2>2 DEF DataType
  <2> QED
    BY <2>2, <2>3, <2>4, <2>5 DEF DataType
<1> QED
  BY <1>2, <1>3

\* What Deliver takes from a stream, and what it leaves of it.
LEMMA RestsFacts ==
  ASSUME NEW S, NEW s \in Seq(S), NEW t \in Rests(s), NEW r
  PROVE  /\ s # <<>> /\ Head(s) = s[1] /\ s[1] \in S /\ Len(s) \in Nat \ {0}
         /\ t \in Seq(S) /\ Skipped(r, s, t) \subseteq S
         /\ \/ /\ t = Tail(s) /\ Skipped(r, s, t) = IF prim[r] THEN {s[1]} ELSE {}
            \/ /\ t = Tail(Tail(s)) /\ Len(s) > 1 /\ s[2] \in S
               /\ Skipped(r, s, t) = {s[2]} \cup (IF prim[r] THEN {s[1]} ELSE {})
<1>1. Len(s) \in Nat /\ ((t = Tail(s) /\ Len(s) > 0) \/ (t = Tail(Tail(s)) /\ Len(s) > 1))
  BY DEF Rests
<1>2. s # <<>> /\ Head(s) = s[1] /\ s[1] \in S /\ Len(s) \in Nat \ {0}
  BY <1>1
<1>3. CASE t = Tail(s) /\ Len(s) > 0
  <2>1. t \in Seq(S) /\ Len(t) = Len(s) - 1
    BY <1>3
  <2>2. ~(Len(t) + 1 < Len(s))
    BY <1>1, <2>1
  <2>3. Skipped(r, s, t) = IF prim[r] THEN {s[1]} ELSE {}
    BY <2>2 DEF Skipped
  <2> QED
    BY <1>2, <1>3, <2>1, <2>3
<1>4. CASE t = Tail(Tail(s)) /\ Len(s) > 1
  <2>1. Tail(s) \in Seq(S) /\ Len(Tail(s)) = Len(s) - 1
    BY <1>4
  <2>2. t \in Seq(S) /\ Len(t) = Len(s) - 2
    <3> DEFINE u == Tail(s)
    <3>1. u \in Seq(S) /\ Len(u) = Len(s) - 1 /\ t = Tail(u)
      BY <1>4, <2>1
    <3> HIDE DEF u
    <3>2. Len(u) \in Nat \ {0}
      BY <1>1, <1>4, <3>1
    <3>3. Len(t) = Len(u) - 1 /\ t \in Seq(S)
      BY <3>1, <3>2
    <3> QED
      BY <1>1, <3>1, <3>3
  <2>3. Len(t) + 1 < Len(s) /\ s[2] \in S
    BY <1>1, <1>4, <2>2
  <2>4. Skipped(r, s, t) = {s[2]} \cup (IF prim[r] THEN {s[1]} ELSE {})
    BY <2>3 DEF Skipped
  <2> QED
    BY <1>2, <1>4, <2>2, <2>3, <2>4
<1> QED
  BY <1>1, <1>3, <1>4

LEMMA DeliverApplies ==
  ASSUME DataType, NEW r \in Reps, Deliver(r)
  PROVE  \E e \in EntryType : Apply(r, e)
<1> DEFINE q == Peer(r)
<1>1. q \in Reps
  BY DEF Reps, Peer
<1>2. PICK s \in {chan[q]} \cup left[q] : Rests(s) # {} /\ Apply(r, Head(s))
  BY DEF Deliver
<1> HIDE DEF q
<1>3. s \in Seq(EntryType)
  BY <1>1, <1>2 DEF DataType
<1> QED
  BY <1>2, <1>3, RestsFacts

LEMMA DeliverData ==
  ASSUME DataType, NEW r \in Reps, Deliver(r)
  PROVE  DataType'
<1> DEFINE q == Peer(r)
<1>1. q \in Reps
  BY DEF Reps, Peer
<1>2. UNCHANGED <<wire, hold, acked, puts>>
  BY DEF Deliver, boundVars
<1>3. CASE \E s \in Rests(chan[q]) : /\ Apply(r, Head(chan[q]))
                                     /\ chan' = [chan EXCEPT ![q] = s]
                                     /\ dropped' = dropped \cup Skipped(r, chan[q], s)
                                     /\ UNCHANGED left
  <2> HIDE DEF q
  <2>1. PICK s \in Rests(chan[q]) : /\ Apply(r, Head(chan[q]))
                                    /\ chan' = [chan EXCEPT ![q] = s]
                                    /\ dropped' = dropped \cup Skipped(r, chan[q], s)
                                    /\ UNCHANGED left
    BY <1>3
  <2>2. chan[q] \in Seq(EntryType)
    BY <1>1 DEF DataType
  <2>3. Head(chan[q]) \in EntryType /\ s \in Seq(EntryType) /\ Skipped(r, chan[q], s) \subseteq EntryType
    BY <2>2, RestsFacts
  <2>4. /\ tab' \in [Reps -> Table] /\ seqID' \in [Reps -> Nat]
        /\ log' \in [Reps -> Seq(EntryType)] /\ ckpt' = ckpt
        /\ pend' \in [Reps -> SUBSET EntryType] /\ \A p \in Reps : IsFiniteSet(pend'[p])
    BY <2>1, <2>3, ApplyData
  <2>5. chan' \in [Reps -> Seq(EntryType)] /\ dropped' \subseteq EntryType
    BY <2>1, <2>3 DEF DataType
  <2> QED
    BY <1>2, <2>1, <2>4, <2>5 DEF DataType
<1>4. CASE \E l \in left[q] : \E s \in Rests(l) :
             /\ Apply(r, Head(l))
             /\ left' = [left EXCEPT ![q] = (@ \ {l}) \cup ({s} \ {<<>>})]
             /\ dropped' = dropped \cup Skipped(r, l, s)
             /\ UNCHANGED chan
  <2> HIDE DEF q
  <2>1. PICK l \in left[q] : \E s \in Rests(l) :
             /\ Apply(r, Head(l))
             /\ left' = [left EXCEPT ![q] = (@ \ {l}) \cup ({s} \ {<<>>})]
             /\ dropped' = dropped \cup Skipped(r, l, s)
             /\ UNCHANGED chan
    BY <1>4
  <2>2. l \in Seq(EntryType)
    BY <1>1 DEF DataType
  <2>3. PICK s \in Rests(l) : /\ Apply(r, Head(l))
             /\ left' = [left EXCEPT ![q] = (@ \ {l}) \cup ({s} \ {<<>>})]
             /\ dropped' = dropped \cup Skipped(r, l, s)
             /\ UNCHANGED chan
    BY <2>1
  <2>4. Head(l) \in EntryType /\ s \in Seq(EntryType) /\ Skipped(r, l, s) \subseteq EntryType
    BY <2>2, RestsFacts
  <2>5. /\ tab' \in [Reps -> Table] /\ seqID' \in [Reps -> Nat]
        /\ log' \in [Reps -> Seq(EntryType)] /\ ckpt' = ckpt
        /\ pend' \in [Reps -> SUBSET EntryType] /\ \A p \in Reps : IsFiniteSet(pend'[p])
    BY <2>3, <2>4, ApplyData
  <2>6. left' \in [Reps -> SUBSET Seq(EntryType)] /\ dropped' \subseteq EntryType
    BY <2>3, <2>4 DEF DataType
  <2> QED
    BY <1>2, <2>3, <2>5, <2>6 DEF DataType
<1> QED
  BY <1>3, <1>4 DEF Deliver

LEMMA ClientPutData ==
  ASSUME NodeInv, DataType, NEW k \in Keys, ClientPut(k)
  PROVE  DataType'
<1> DEFINE m == mPrim
<1>1. /\ m \in Reps /\ puts < MaxPuts /\ puts' = puts + 1
      /\ ApplyAsPrimary(m, k, Val(puts + 1, "ok"))
      /\ UNCHANGED <<wire, chan, left, hold, acked, dropped>>
  BY DEF ClientPut, NodeInv, ControlType, histVars
<1>2. puts' \in 0 .. MaxPuts /\ Val(puts + 1, "ok") \in ValType
  BY <1>1, ClusterAssumption DEF DataType, Val, ValType
<1> HIDE DEF m
<1>3. /\ tab' \in [Reps -> Table] /\ seqID' \in [Reps -> Nat]
      /\ log' \in [Reps -> Seq(EntryType)] /\ ckpt' = ckpt
      /\ pend' \in [Reps -> SUBSET EntryType] /\ \A q \in Reps : IsFiniteSet(pend'[q])
  BY <1>1, <1>2, PrimaryData
<1> QED
  BY <1>1, <1>2, <1>3 DEF DataType

LEMMA PushData ==
  ASSUME DataType, NEW r \in Reps, NEW e \in pend[r], Push(r, e)
  PROVE  DataType'
<1>1. e \in EntryType
  BY DEF DataType
<1>2. /\ pend' = [pend EXCEPT ![r] = @ \ {e}] /\ acked' \in {acked, acked \cup {e}}
      /\ UNCHANGED <<tab, seqID, log, ckpt, left, puts>>
  BY DEF Push, PushDone, serverVars, boundVars
<1>3. /\ chan' = chan \/ chan' = [chan EXCEPT ![r] = Append(@, e)]
      /\ wire' = wire \/ wire' = [wire EXCEPT ![r] = "reset"]
      /\ hold' = hold \/ hold' = [hold EXCEPT ![r] = IF link[r] = "recovering" THEN Append(@, e) ELSE @]
      /\ dropped' \in {dropped, dropped \cup {e}}
  BY DEF Push
<1>7. Append(chan[r], e) \in Seq(EntryType) /\ Append(hold[r], e) \in Seq(EntryType)
  BY <1>1 DEF DataType
<1>4. chan' \in [Reps -> Seq(EntryType)]
  BY <1>3, <1>7 DEF DataType
<1>5. hold' \in [Reps -> Seq(EntryType)]
  <2>1. hold' = hold \/ hold' = [hold EXCEPT ![r] = Append(hold[r], e)]
    BY <1>3 DEF DataType
  <2> QED
    BY <1>7, <2>1 DEF DataType
<1>6. pend' \in [Reps -> SUBSET EntryType] /\ \A q \in Reps : IsFiniteSet(pend'[q])
  <2>1. IsFiniteSet(pend[r] \ {e})
    BY FS_RemoveElement DEF DataType
  <2> QED
    BY <1>2, <2>1 DEF DataType
<1> QED
  BY <1>1, <1>2, <1>3, <1>4, <1>5, <1>6 DEF DataType

LEMMA RecoveryData ==
  ASSUME NodeInv, DataType, NEW r \in Reps,
         ReplayLocal(r) \/ FetchCheckpoint(r) \/ FetchLog(r)
  PROVE  DataType'
<1> DEFINE t == target[r]
<1>1. t \in Reps /\ UNCHANGED <<seqID, wire, chan, left, hold, pend, puts, acked, dropped>>
  BY DEF ReplayLocal, FetchCheckpoint, FetchLog, storeVars, boundVars, histVars, NodeInv, ControlType
<1>2. CASE ReplayLocal(r)
  <2>1. Replay(ckpt[r].snap, log[r]) \in Table
    BY ReplayTable DEF DataType
  <2>2. tab' = [tab EXCEPT ![r] = Replay(ckpt[r].snap, log[r])] /\ UNCHANGED <<log, ckpt>>
    BY <1>2 DEF ReplayLocal
  <2> QED
    BY <1>1, <2>1, <2>2 DEF DataType
<1>3. CASE FetchCheckpoint(r)
  <2>1. /\ ckpt' = [ckpt EXCEPT ![r] = ckpt[t]] /\ tab' = [tab EXCEPT ![r] = ckpt[t].snap]
        /\ UNCHANGED log
    BY <1>3 DEF FetchCheckpoint
  <2> HIDE DEF t
  <2> QED
    BY <1>1, <2>1 DEF DataType
<1>4. CASE FetchLog(r)
  <2>1. /\ log' = [log EXCEPT ![r] = log[t]] /\ tab' = [tab EXCEPT ![r] = Replay(tab[r], log[t])]
        /\ UNCHANGED ckpt
    BY <1>4 DEF FetchLog, DataType
  <2> HIDE DEF t
  <2>2. Replay(tab[r], log[t]) \in Table
    BY <1>1, ReplayTable DEF DataType
  <2> QED
    BY <1>1, <2>1, <2>2 DEF DataType
<1> QED
  BY <1>2, <1>3, <1>4

LEMMA ParseReadyData ==
  ASSUME DataType, NEW r \in Reps, ParseReady(r)
  PROVE  DataType'
<1>1. /\ wire' = [wire EXCEPT ![r] = "ok"] /\ chan' = [chan EXCEPT ![r] = hold[r]]
      /\ left' = [left EXCEPT ![r] = IF chan[r] = <<>> THEN @ ELSE @ \cup {chan[r]}]
      /\ hold' = [hold EXCEPT ![r] = <<>>]
      /\ UNCHANGED <<tab, seqID, log, ckpt, pend, puts, acked, dropped>>
  BY DEF ParseReady, boundVars, histVars
<1>2. <<>> \in Seq(EntryType)
  OBVIOUS
<1>3. chan' \in [Reps -> Seq(EntryType)] /\ hold' \in [Reps -> Seq(EntryType)]
  BY <1>1, <1>2 DEF DataType
<1>4. left' \in [Reps -> SUBSET Seq(EntryType)]
  BY <1>1 DEF DataType
<1> QED
  BY <1>1, <1>3, <1>4 DEF DataType

LEMMA StartData ==
  ASSUME DataType, NEW r \in Reps,
         Start(r) \/ Restart(r) \/ CheckpointTest(r) \/ WriteToDisk(r)
  PROVE  DataType'
<1>1. UNCHANGED <<wire, chan, left, hold, pend, puts, acked, dropped>>
  BY DEF Start, Restart, CheckpointTest, WriteToDisk, storeVars, boundVars, histVars
<1>2. CASE Start(r) \/ CheckpointTest(r)
  BY <1>1, <1>2 DEF Start, CheckpointTest, serverVars, DataType
<1>3. CASE Restart(r)
  <2>1. Empty \in Table
    BY ClusterAssumption DEF Empty, Nothing, Val, Table, ValType
  <2>2. tab' = [tab EXCEPT ![r] = Empty] /\ seqID' = [seqID EXCEPT ![r] = 0] /\ UNCHANGED <<log, ckpt>>
    BY <1>3 DEF Restart
  <2> QED
    BY <1>1, <2>1, <2>2 DEF DataType
<1>4. CASE WriteToDisk(r)
  <2>1. /\ ckpt' = [ckpt EXCEPT ![r] = [version |-> seqID[r], snap |-> tab[r]]]
        /\ log' = [log EXCEPT ![r] = <<>>] /\ UNCHANGED <<tab, seqID>>
    BY <1>4 DEF WriteToDisk
  <2>2. [version |-> seqID[r], snap |-> tab[r]] \in [version : Nat, snap : Table] /\ <<>> \in Seq(EntryType)
    BY DEF DataType
  <2> QED
    BY <1>1, <2>1, <2>2 DEF DataType
<1> QED
  BY <1>2, <1>3, <1>4

\* Steps that touch neither tables nor files nor streams.
LEMMA OtherData ==
  ASSUME NodeInv, DataType,
         \/ \E r \in Reps : \/ PromoteSelf(r) \/ PromoteOther(r) \/ AskMaster(r) \/ ContactSelf(r)
                            \/ ParseRecovery(r) \/ SendReady(r) \/ ReadyLost(r)
         \/ MasterStep \/ UNCHANGED vars
  PROVE  DataType'
<1>1. UNCHANGED <<tab, seqID, log, ckpt, wire, chan, left, hold, pend, puts, acked, dropped>>
  BY DEF PromoteSelf, PromoteOther, AskMaster, ContactSelf, ParseRecovery, SendReady, ReadyLost,
     MasterStep, AliveAccepted, PromoteNewPrimary, MulticastNodes, Promoted, vars,
     serverVars, storeVars, boundVars, histVars
<1> QED
  BY <1>1 DEF DataType

LEMMA PromoteConnectData ==
  ASSUME DataType, NEW r \in Reps, PromoteConnect(r)
  PROVE  DataType'
<1>1. /\ wire' = [wire EXCEPT ![r] = IF Running(Peer(r)) THEN "ok" ELSE "closed"]
      /\ chan' = [chan EXCEPT ![r] = <<>>] /\ hold' = [hold EXCEPT ![r] = <<>>]
      /\ UNCHANGED <<tab, seqID, log, ckpt, left, pend, puts, acked, dropped>>
  BY DEF PromoteConnect, serverVars, boundVars, histVars
<1>2. <<>> \in Seq(EntryType)
  OBVIOUS
<1>3. chan' \in [Reps -> Seq(EntryType)] /\ hold' \in [Reps -> Seq(EntryType)]
  BY <1>1, <1>2 DEF DataType
<1> QED
  BY <1>1, <1>3 DEF DataType

LEMMA NextData == NodeInv /\ DataType /\ [Next]_vars => DataType'
<1> SUFFICES ASSUME NodeInv, DataType, [Next]_vars PROVE DataType'
  OBVIOUS
<1>1. ASSUME NEW r \in Reps, ServerStep(r) PROVE DataType'
  BY <1>1, OtherData, PromoteConnectData, PushData, DeliverData, DeathsData, RecoveryData,
     ParseReadyData DEF ServerStep
<1> QED
  BY <1>1, OtherData, StartData, DeathsData, ClientPutData DEF Next

(* Tables, files and streams keep their types, through every recovery.     *)
THEOREM NodeTypes == Spec => []TypeOK
<1>1. Spec => [](NodeInv /\ DataType)
  BY InitNode, InitData, NextNode, NextData, PTL DEF Spec
<1>2. NodeInv /\ DataType => TypeOK
  BY DEF NodeInv, ControlType, DataType, TypeOK
<1> QED
  BY <1>1, <1>2, PTL

-----------------------------------------------------------------------------
(* As long as no server has been restarted: the files of a server.         *)

NeverRestarted ==
  \A r \in Reps :
    /\ phase[r] \in {"new", "serving", "off"}
    /\ phase[r] = "new" => tab[r] = Empty /\ log[r] = <<>> /\ ckpt[r].snap = Empty

DiskAt(r) == \A k \in Keys : Replay(ckpt[r].snap, log[r])[k].id = tab[r][k].id

DiskInv == restarts = 0 =>
  NeverRestarted /\ \A r \in Reps : phase[r] = "serving" => DiskAt(r)

\* The steps that can be taken then; a death is one of them, whatever its cause.
Death(r) == /\ phase[r] = "serving" /\ Dies(r)
            /\ UNCHANGED serverVars /\ puts' \in {puts, puts + 1}

FirstLifeStep ==
  \/ \E r \in Reps : \/ Start(r) \/ CheckpointTest(r) \/ WriteToDisk(r)
                     \/ PromoteSelf(r) \/ PromoteConnect(r) \/ PromoteOther(r)
                     \/ (\E e \in pend[r] : Push(r, e)) \/ Deliver(r) \/ Death(r)
  \/ MasterStep \/ (\E k \in Keys : ClientPut(k)) \/ UNCHANGED vars

LEMMA FirstLife ==
  ASSUME NodeInv, NeverRestarted, restarts = 0, restarts' = 0, [Next]_vars
  PROVE  FirstLifeStep
<1>1. \A r \in Reps : phase[r] \in {"new", "serving", "off"} /\ ~rdy[r]
  BY DEF NeverRestarted, NodeInv, Paused
<1>2. ASSUME NEW r \in Reps, Restart(r) PROVE FALSE
  BY <1>2 DEF Restart
<1>3. ASSUME NEW r \in Reps,
             \/ AskMaster(r) \/ ContactRefused(r) \/ ContactSelf(r)
             \/ ParseRecovery(r) \/ ParseRecoveryFatal(r)
             \/ ReplayLocal(r) \/ FetchCheckpoint(r) \/ FetchLog(r)
             \/ SendReady(r) \/ ReadyLost(r) \/ ReadyFatal(r) \/ ParseReady(r)
      PROVE  FALSE
  BY <1>1, <1>3 DEF AskMaster, ContactRefused, ContactSelf, ParseRecovery, ParseRecoveryFatal,
     ReplayLocal, FetchCheckpoint, FetchLog, SendReady, ReadyLost, ReadyFatal, ParseReady
<1>4. ASSUME NEW r \in Reps, Kill(r) \/ PushFatal(r) PROVE Death(r)
  <2>1. pend[r] # {} \/ promo[r] => phase[r] = "serving"
    BY DEF NodeInv, Forwarding, Chosen
  <2> QED
    BY <1>1, <1>4, <2>1 DEF Death, Kill, PushFatal, Running, boundVars
<1>5. ASSUME ClientPutAtReplica PROVE \E r \in Reps : Death(r)
  BY <1>5 DEF Death, ClientPutAtReplica, Accepting, NodeInv, ControlType
<1> QED
  BY <1>2, <1>3, <1>4, <1>5 DEF Next, ServerStep, FirstLifeStep

\* The phases and the memory of a server that was not started yet.
LEMMA NeverRestartedStep ==
  ASSUME NodeInv, DataType, NeverRestarted, FirstLifeStep
  PROVE  NeverRestarted'
<1>1. ASSUME NEW r \in Reps, Start(r) PROVE NeverRestarted'
  BY <1>1 DEF Start, serverVars, NeverRestarted, NodeInv, ControlType
<1>2. ASSUME NEW r \in Reps, Death(r) PROVE NeverRestarted'
  <2>1. Peer(r) \in Reps /\ phase'[r] = "off" /\ phase'[Peer(r)] \in Bereft(Peer(r), r)
    BY <1>2, DeathFacts, PeerFacts DEF Death, NodeInv
  <2>2. phase'[Peer(r)] = phase[Peer(r)]
    BY <2>1 DEF Bereft, NeverRestarted, Fetching
  <2> QED
    BY <1>2, <2>1, <2>2 DEF Death, serverVars, NeverRestarted, Reps, Peer
<1>3. ASSUME NEW r \in Reps, UNCHANGED phase, phase[r] = "serving",
             \A q \in Reps \ {r} : tab'[q] = tab[q] /\ log'[q] = log[q] /\ ckpt'[q] = ckpt[q]
      PROVE  NeverRestarted'
  BY <1>3 DEF NeverRestarted
<1>4. ASSUME NEW r \in Reps, WriteToDisk(r) PROVE NeverRestarted'
  BY <1>3, <1>4 DEF WriteToDisk, Accepting, DataType
<1>5. ASSUME NEW r \in Reps, Deliver(r) PROVE NeverRestarted'
  <2>1. phase[r] = "serving" /\ UNCHANGED phase /\ \E e : Apply(r, e)
    BY <1>5 DEF Deliver, Accepting
  <2>2. \A q \in Reps \ {r} : tab'[q] = tab[q] /\ log'[q] = log[q] /\ ckpt'[q] = ckpt[q]
    BY <2>1 DEF Apply, ApplyAsPrimary, DataType
  <2> QED
    BY <1>3, <2>1, <2>2
<1>6. ASSUME NEW k \in Keys, ClientPut(k) PROVE NeverRestarted'
  <2> DEFINE m == mPrim
  <2>1. /\ m \in Reps /\ phase[m] = "serving" /\ UNCHANGED phase
        /\ ApplyAsPrimary(m, k, Val(puts + 1, "ok"))
    BY <1>6 DEF ClientPut, Accepting, NodeInv, ControlType
  <2> HIDE DEF m
  <2>2. \A q \in Reps \ {m} : tab'[q] = tab[q] /\ log'[q] = log[q] /\ ckpt'[q] = ckpt[q]
    BY <2>1 DEF ApplyAsPrimary, DataType
  <2> QED
    BY <1>3, <2>1, <2>2
<1>7. ASSUME UNCHANGED <<phase, tab, log, ckpt>> PROVE NeverRestarted'
  BY <1>7 DEF NeverRestarted
<1>8. ASSUME \/ \E r \in Reps : \/ CheckpointTest(r) \/ PromoteSelf(r) \/ PromoteConnect(r)
                                \/ PromoteOther(r) \/ (\E e \in pend[r] : Push(r, e))
             \/ MasterStep \/ UNCHANGED vars
      PROVE  UNCHANGED <<phase, tab, log, ckpt>>
  BY <1>8 DEF CheckpointTest, PromoteSelf, PromoteConnect, PromoteOther, Push, PushDone,
     MasterStep, AliveAccepted, PromoteNewPrimary, MulticastNodes, Promoted, vars, serverVars
<1> QED
  BY <1>1, <1>2, <1>4, <1>5, <1>6, <1>7, <1>8 DEF FirstLifeStep

\* A log entry and the value in the table are written together.
LEMMA LoggedAndStored ==
  ASSUME DataType, NEW r \in Reps, NEW x \in EntryType, NEW v \in ValType, Replayed(x).id = v.id,
         log' = [log EXCEPT ![r] = Append(@, x)], tab' = [tab EXCEPT ![r][x.key] = v], ckpt' = ckpt
  PROVE  \A q \in Reps : DiskAt(q) => DiskAt(q)'
<1>1. ASSUME NEW q \in Reps, q # r, DiskAt(q) PROVE DiskAt(q)'
  BY <1>1 DEF DiskAt, DataType
<1>2. ASSUME DiskAt(r) PROVE DiskAt(r)'
  <2> DEFINE t == ckpt[r].snap
  <2>1. /\ log'[r] = Append(log[r], x) /\ log[r] \in Seq(EntryType)
        /\ \A k \in Keys : tab'[r][k] = IF k = x.key THEN v ELSE tab[r][k]
        /\ ckpt'[r].snap = t /\ DOMAIN t = Keys
    BY DEF DataType, Table
  <2> HIDE DEF t
  <2>2. ASSUME NEW k \in Keys PROVE Replay(t, Append(log[r], x))[k].id = tab'[r][k].id
    <3>1. Replay(t, Append(log[r], x))[k] = IF k = x.key THEN Replayed(x) ELSE Replay(t, log[r])[k]
      BY <2>1, ReplayAppend
    <3>2. Replay(t, log[r])[k].id = tab[r][k].id
      BY <1>2 DEF DiskAt, t
    <3> QED
      BY <2>1, <3>1, <3>2
  <2> QED
    BY <2>1, <2>2 DEF DiskAt
<1> QED
  BY <1>1, <1>2

LEMMA PrimaryDisk ==
  ASSUME DataType, NEW r \in Reps, NEW k \in Keys, NEW v \in ValType, ApplyAsPrimary(r, k, v)
  PROVE  \A q \in Reps : DiskAt(q) => DiskAt(q)'
<1> DEFINE x == Entry(seqID[r] + 1, k, v, "own")
<1>1. x \in EntryType /\ x.key = k /\ Replayed(x).id = v.id
  BY DEF Entry, EntryType, Replayed, DataType
<1>2. /\ log' = [log EXCEPT ![r] = Append(@, x)] /\ tab' = [tab EXCEPT ![r][k] = v]
      /\ ckpt' = ckpt
  BY DEF ApplyAsPrimary
<1> HIDE DEF x
<1> QED
  BY <1>1, <1>2, LoggedAndStored

LEMMA ApplyDisk ==
  ASSUME DataType, NEW r \in Reps, NEW e \in EntryType, Apply(r, e)
  PROVE  \A q \in Reps : DiskAt(q) => DiskAt(q)'
<1>1. /\ e.key \in Keys /\ e.seq \in Nat /\ e.val \in ValType
      /\ Val(e.val.id, "junk") \in ValType
  BY DEF EntryType, ValType, Val
<1>2. CASE prim[r]
  BY <1>1, <1>2, PrimaryDisk DEF Apply
<1>3. CASE ~prim[r]
  <2> DEFINE x == Entry(e.seq, e.key, e.val, "copy")
  <2>1. x \in EntryType /\ x.key = e.key /\ Replayed(x).id = e.val.id
    BY <1>1 DEF Entry, EntryType, Replayed, Val
  <2>2. /\ log' = [log EXCEPT ![r] = Append(@, x)] /\ tab' = [tab EXCEPT ![r][e.key] = e.val]
        /\ ckpt' = ckpt
    BY <1>3 DEF Apply
  <2> HIDE DEF x
  <2> QED
    BY <1>1, <2>1, <2>2, LoggedAndStored
<1> QED
  BY <1>2, <1>3

LEMMA RestartsGrow ==
  ASSUME NodeInv, [Next]_vars, restarts' = 0
  PROVE  restarts = 0
BY DEF Next, ServerStep, MasterStep, NodeInv, ControlType, vars, boundVars, Restart, Start, Kill,
   PromoteSelf, PromoteConnect, PromoteOther, Push, PushDone, PushFatal, Deliver, AskMaster,
   ContactRefused, ContactSelf, ParseRecovery, ParseRecoveryFatal, ReplayLocal, FetchCheckpoint,
   FetchLog, SendReady, ReadyLost, ReadyFatal, ParseReady, CheckpointTest, WriteToDisk,
   AliveAccepted, PromoteNewPrimary, MulticastNodes, Promoted, ClientPut, ClientPutAtReplica

LEMMA InitDisk == Init => DiskInv
BY DEF Init, DiskInv, NeverRestarted

LEMMA NextDisk == NodeInv /\ DataType /\ DiskInv /\ [Next]_vars => DiskInv'
<1> SUFFICES ASSUME NodeInv, DataType, DiskInv, [Next]_vars, restarts' = 0
             PROVE  NeverRestarted' /\ \A q \in Reps : phase'[q] = "serving" => DiskAt(q)'
  BY DEF DiskInv
<1>1. restarts = 0
  BY RestartsGrow
<1>2. NeverRestarted /\ FirstLifeStep /\ \A q \in Reps : phase[q] = "serving" => DiskAt(q)
  BY <1>1, FirstLife DEF DiskInv
<1>3. NeverRestarted'
  BY <1>2, NeverRestartedStep
<1>4. ASSUME NEW r \in Reps, Start(r), NEW q \in Reps, phase'[q] = "serving" PROVE DiskAt(q)'
  <2>1. UNCHANGED <<tab, log, ckpt>> /\ phase[r] = "new" /\ (q # r => phase'[q] = phase[q])
    BY <1>4 DEF Start, serverVars, NodeInv, ControlType
  <2>2. CASE q = r
    <3>1. Replay(Empty, <<>>) = Empty
      BY NoUpdates
    <3> QED
      BY <1>2, <2>1, <2>2, <3>1 DEF NeverRestarted, DiskAt
  <2> QED
    BY <1>2, <1>4, <2>1, <2>2 DEF DiskAt
<1>5. ASSUME NEW r \in Reps, Death(r), NEW q \in Reps, phase'[q] = "serving" PROVE DiskAt(q)'
  <2>1. Peer(r) \in Reps /\ phase'[r] = "off" /\ phase'[Peer(r)] \in Bereft(Peer(r), r)
    BY <1>5, DeathFacts, PeerFacts DEF Death, NodeInv
  <2>2. phase'[Peer(r)] = phase[Peer(r)]
    BY <1>2, <2>1 DEF Bereft, NeverRestarted, Fetching
  <2>3. phase[q] = "serving"
    BY <1>5, <2>1, <2>2 DEF Reps, Peer
  <2> QED
    BY <1>2, <1>5, <2>3 DEF Death, serverVars, DiskAt
<1>6. ASSUME NEW r \in Reps, WriteToDisk(r), NEW q \in Reps, phase'[q] = "serving" PROVE DiskAt(q)'
  <2>1. /\ ckpt' = [ckpt EXCEPT ![r] = [version |-> seqID[r], snap |-> tab[r]]]
        /\ log' = [log EXCEPT ![r] = <<>>] /\ UNCHANGED <<phase, tab>>
    BY <1>6 DEF WriteToDisk
  <2>2. CASE q = r
    <3>1. ckpt'[r].snap = tab[r] /\ log'[r] = <<>> /\ Replay(tab[r], <<>>) = tab[r]
      BY <2>1, NoUpdates DEF DataType
    <3> QED
      BY <2>1, <2>2, <3>1 DEF DiskAt
  <2>3. CASE q # r
    BY <1>2, <1>6, <2>1, <2>3 DEF DiskAt, DataType
  <2> QED
    BY <2>2, <2>3
<1>7. ASSUME NEW r \in Reps, Deliver(r) PROVE \A q \in Reps : phase'[q] = "serving" => DiskAt(q)'
  <2>1. UNCHANGED phase
    BY <1>7 DEF Deliver
  <2>2. \E e \in EntryType : Apply(r, e)
    BY <1>7, DeliverApplies
  <2> QED
    BY <1>2, <2>1, <2>2, ApplyDisk
<1>8. ASSUME NEW k \in Keys, ClientPut(k) PROVE \A q \in Reps : phase'[q] = "serving" => DiskAt(q)'
  <2> DEFINE m == mPrim
  <2>1. /\ m \in Reps /\ UNCHANGED phase /\ puts < MaxPuts
        /\ ApplyAsPrimary(m, k, Val(puts + 1, "ok"))
    BY <1>8 DEF ClientPut, NodeInv, ControlType
  <2>2. Val(puts + 1, "ok") \in ValType
    BY <2>1, ClusterAssumption DEF DataType, Val, ValType
  <2> HIDE DEF m
  <2> QED
    BY <1>2, <2>1, <2>2, PrimaryDisk
<1>9. ASSUME \/ \E r \in Reps : \/ CheckpointTest(r) \/ PromoteSelf(r) \/ PromoteConnect(r)
                                \/ PromoteOther(r) \/ (\E e \in pend[r] : Push(r, e))
             \/ MasterStep \/ UNCHANGED vars
      PROVE  \A q \in Reps : phase'[q] = "serving" => DiskAt(q)'
  <2>1. UNCHANGED <<phase, tab, log, ckpt>>
    BY <1>9 DEF CheckpointTest, PromoteSelf, PromoteConnect, PromoteOther, Push, PushDone,
       MasterStep, AliveAccepted, PromoteNewPrimary, MulticastNodes, Promoted, vars, serverVars
  <2> QED
    BY <1>2, <2>1 DEF DiskAt
<1> QED
  BY <1>2, <1>3, <1>4, <1>5, <1>6, <1>7, <1>8, <1>9 DEF FirstLifeStep

(* As long as no server has been restarted, checkpoint and log of a serving *)
(* server account for every value in its table, whatever it was sent, by   *)
(* whom, and when its checkpoints were taken.                              *)
THEOREM NodeDiskMatches == Spec => [](restarts = 0 => DiskMatches)
<1>1. Spec => [](NodeInv /\ DataType /\ DiskInv)
  BY InitNode, InitData, InitDisk, NextNode, NextData, NextDisk, PTL DEF Spec
<1>2. DiskInv => (restarts = 0 => DiskMatches)
  BY DEF DiskInv, DiskMatches, DiskAt, Accepting
<1> QED
  BY <1>1, <1>2, PTL

-----------------------------------------------------------------------------
(* As long as no server has been restarted, and the pushes of a primary do *)
(* not overtake each other: the stream from primary to backup.             *)

Alive(r) == phase[r] # "off"

(* The acknowledged updates that were not lost on the way.                 *)
Live == acked \ dropped

Holds(c, e) == \E i \in DOMAIN c : c[i] = e

(* A connection in use leads from a primary to a serving backup; what is   *)
(* left of one is what a dead server had sent.                             *)
Lines(r) ==
  /\ hold[r] = <<>> /\ link[r] # "recovering"
  /\ wire[r] = "ok" => phase[Peer(r)] = "serving" /\ link[r] = "running"
  /\ left[r] # {} => phase[r] = "off"
  /\ chan[r] # <<>> => wire[r] = "ok"

(* A stream c has its updates in the order of the PUTs; an update of L that *)
(* is not in it comes before all that are.                                 *)
Ordered(c, L) ==
  /\ \A i, j \in DOMAIN c : i < j => c[i].val.id < c[j].val.id
  /\ \A e \in L : Holds(c, e) \/ \A i \in DOMAIN c : c[i].val.id > e.val.id

(* The update that a primary is about to push is its latest.               *)
Latest(r) ==
  Alive(Peer(r)) => \A e \in pend[r] :
    /\ pend[r] = {e} /\ tab[r][e.key] = e.val /\ e.val.id <= puts
    /\ \A i \in DOMAIN chan[r] : chan[r][i].val.id < e.val.id
    /\ \A f \in Live : f.val.id < e.val.id

Counted ==
  /\ \A e \in Live : e.val.id <= puts
  /\ \A r \in Reps : \A i \in DOMAIN chan[r] : chan[r][i].val.id <= puts

(* An acknowledged update is in the table, or a later one is, or it is on  *)
(* its way there.                                                          *)
OnItsWay(r, e) == Holds(chan[r], e) \/ \E l \in left[r] : Holds(l, e)
Reached(r) ==
  Alive(r) => \A e \in Live : tab[r][e.key].id >= e.val.id \/ OnItsWay(Peer(r), e)

(* Where nothing was lost and nothing waits to be pushed, the backup's     *)
(* table will be the primary's.                                            *)
Same(p) ==
  Alive(p) /\ Alive(Peer(p)) /\ ~prim[Peer(p)] =>
    \A k \in Keys :
      (\A e \in dropped \cup pend[p] : e.key # k) => tab[p][k] = Updated(tab[Peer(p)], chan[p])[k]

StreamOK ==
  /\ \A r \in Reps : Lines(r) /\ Latest(r) /\ Reached(r) /\ Same(r)
  /\ \A r \in Reps : Ordered(chan[r], Live) /\ \A l \in left[r] : Ordered(l, Live)
  /\ Counted

StreamInv == restarts = 0 /\ MaxPending = 1 => StreamOK

LEMMA InitStream == Init => StreamInv
<1> SUFFICES ASSUME Init PROVE StreamOK
  BY DEF StreamInv
<1>1. DOMAIN <<>> = {} /\ Live = {}
  BY DEF Init, Live
<1>2. \A t : Updated(t, <<>>) = t
  BY NoUpdates
<1>3. \A r \in Reps : Lines(r) /\ Latest(r) /\ Reached(r)
  BY <1>1, PeerFacts DEF Init, Lines, Latest, Reached
<1>4. \A r \in Reps : Same(r)
  BY <1>2, PeerFacts DEF Init, Same
<1>5. \A r \in Reps : Ordered(chan[r], Live) /\ \A l \in left[r] : Ordered(l, Live)
  BY <1>1 DEF Init, Ordered
<1>6. Counted
  BY <1>1 DEF Init, Counted
<1> QED
  BY <1>3, <1>4, <1>5, <1>6 DEF StreamOK

\* Fewer updates are asked for.
LEMMA OrderedFewer ==
  ASSUME NEW c, NEW L, NEW M, M \subseteq L, Ordered(c, L)
  PROVE  Ordered(c, M)
BY DEF Ordered

\* The roles, as far as they matter here.
LEMMA Roles ==
  ASSUME NodeInv, StreamOK, NEW r \in Reps
  PROVE  /\ prim[r] => phase[r] = "serving" /\ ~prim[Peer(r)] /\ left[r] = {}
         /\ ~prim[r] => pend[r] = {} /\ chan[r] = <<>> /\ link[r] = "none"
         /\ promo[r] => link[r] = "none" /\ chan[r] = <<>>
         /\ phase[r] = "off" => ~prim[r]
BY PeerFacts DEF NodeInv, Chosen, Forwarding, StreamOK, Lines

\* Steps that leave tables, streams and counters alone.
LEMMA QuietStream ==
  ASSUME StreamOK, UNCHANGED <<tab, chan, left, hold, pend, puts, acked, dropped>>,
         \A r \in Reps : /\ phase[r] = "serving" => phase'[r] = "serving"
                         /\ phase[r] = "off" <=> phase'[r] = "off"
                         /\ prim[r] => prim'[r]
                         /\ \/ wire'[r] = wire[r] /\ link'[r] = link[r]
                            \/ chan[r] = <<>> /\ link'[r] # "recovering"
                               /\ (wire'[r] = "ok" => phase'[Peer(r)] = "serving" /\ link'[r] = "running")
  PROVE  StreamOK'
<1>1. Live' = Live
  BY DEF Live
<1>2. \A r \in Reps : Lines(r)'
  BY PeerFacts DEF StreamOK, Lines
<1>3. \A r \in Reps : Latest(r)' /\ Reached(r)' /\ Same(r)'
  BY <1>1, PeerFacts DEF StreamOK, Latest, Reached, Same, OnItsWay, Alive
<1>4. Counted' /\ \A r \in Reps : Ordered(chan[r], Live)' /\ \A l \in left'[r] : Ordered(l, Live')
  BY <1>1 DEF StreamOK, Counted
<1> QED
  BY <1>2, <1>3, <1>4 DEF StreamOK

LEMMA OtherStream ==
  ASSUME NodeInv, NeverRestarted, StreamOK,
         \/ \E r \in Reps : \/ Start(r) \/ CheckpointTest(r) \/ WriteToDisk(r)
                            \/ PromoteSelf(r) \/ PromoteOther(r)
         \/ MasterStep \/ UNCHANGED vars
  PROVE  StreamOK'
<1>1. UNCHANGED <<tab, chan, left, hold, pend, puts, acked, dropped, wire, link>>
  BY DEF Start, CheckpointTest, WriteToDisk, PromoteSelf, PromoteOther, MasterStep, AliveAccepted,
     PromoteNewPrimary, MulticastNodes, Promoted, vars, serverVars, storeVars, boundVars, histVars
<1>2. \A r \in Reps : /\ phase[r] = "serving" => phase'[r] = "serving"
                      /\ phase[r] = "off" <=> phase'[r] = "off"
                      /\ prim[r] => prim'[r]
  BY DEF Start, CheckpointTest, WriteToDisk, PromoteSelf, PromoteOther, MasterStep, AliveAccepted,
     PromoteNewPrimary, MulticastNodes, Promoted, vars, NodeInv, ControlType
<1> QED
  BY <1>1, <1>2, QuietStream

LEMMA PromoteConnectStream ==
  ASSUME NodeInv, DataType, NeverRestarted, StreamOK, NEW r \in Reps, PromoteConnect(r)
  PROVE  StreamOK'
<1>1. /\ promo[r] /\ UNCHANGED <<phase, prim, tab, left, pend, puts, acked, dropped>>
      /\ link' = [link EXCEPT ![r] = IF Running(Peer(r)) THEN "running" ELSE "failed"]
      /\ wire' = [wire EXCEPT ![r] = IF Running(Peer(r)) THEN "ok" ELSE "closed"]
      /\ chan' = [chan EXCEPT ![r] = <<>>] /\ hold' = [hold EXCEPT ![r] = <<>>]
  BY DEF PromoteConnect, serverVars, boundVars, histVars
<1>2. chan[r] = <<>> /\ hold[r] = <<>>
  BY <1>1, Roles DEF StreamOK, Lines
<1>3. chan' = chan /\ hold' = hold
  BY <1>1, <1>2 DEF DataType
<1>4. Running(Peer(r)) => phase[Peer(r)] = "serving"
  BY PeerFacts DEF Running, NeverRestarted
<1>5. \A q \in Reps : \/ wire'[q] = wire[q] /\ link'[q] = link[q]
                      \/ chan[q] = <<>> /\ link'[q] # "recovering"
                         /\ (wire'[q] = "ok" => phase'[Peer(q)] = "serving" /\ link'[q] = "running")
  BY <1>1, <1>2, <1>4 DEF DataType, NodeInv, ControlType
<1> QED
  BY <1>1, <1>3, <1>5, QuietStream

LEMMA ClientPutStream ==
  ASSUME NodeInv, DataType, StreamOK, MaxPending = 1, NEW k \in Keys, ClientPut(k)
  PROVE  StreamOK'
<1>0. PICK m \in Reps : m = mPrim
  BY DEF NodeInv, ControlType
<1> DEFINE q == Peer(m)
           e == Entry(seqID[m] + 1, k, Val(puts + 1, "ok"), "own")
<1>1. /\ prim[m] /\ Cardinality(pend[m]) < 1 /\ puts' = puts + 1
      /\ tab' = [tab EXCEPT ![m][k] = Val(puts + 1, "ok")]
      /\ pend' = [pend EXCEPT ![m] = @ \cup {e}]
      /\ UNCHANGED <<phase, prim, link, wire, chan, left, hold, acked, dropped>>
  BY <1>0 DEF ClientPut, ApplyAsPrimary, histVars
<1>2. e.key = k /\ e.val = Val(puts + 1, "ok") /\ e.val.id = puts + 1
  BY DEF Entry, Val
<1> HIDE DEF e
<1>3. pend[m] = {}
  <2>1. IsFiniteSet(pend[m]) /\ Cardinality(pend[m]) \in Nat
    BY <1>1, FS_CardinalityType DEF DataType
  <2> QED
    BY <1>1, <2>1, FS_EmptySet
<1>4. /\ q \in Reps /\ q # m /\ Peer(q) = m /\ \A r \in Reps : r = m \/ r = q
      /\ ~prim[q] /\ pend[q] = {}
  BY <1>1, PeerFacts, Roles
<1> HIDE DEF q
<1>5. /\ pend'[m] = {e} /\ pend'[q] = {} /\ tab'[q] = tab[q] /\ tab[m] \in Table
      /\ \A j \in Keys : tab'[m][j] = IF j = k THEN Val(puts + 1, "ok") ELSE tab[m][j]
  BY <1>1, <1>3, <1>4 DEF DataType, Table
<1>6. Live' = Live /\ puts \in Nat /\ \A f \in Live : f.key \in Keys /\ f.val.id \in Nat
  BY <1>1, ClusterAssumption DEF Live, DataType, EntryType, ValType
<1>7. ASSUME NEW r \in Reps, NEW i \in DOMAIN chan[r] PROVE chan[r][i].val.id \in Nat
  <2>1. chan[r][i] \in EntryType
    BY DEF DataType
  <2> QED
    BY <2>1, ClusterAssumption DEF EntryType, ValType
<1>8. \A r \in Reps : Lines(r)'
  BY <1>1 DEF StreamOK, Lines
<1>9. Counted'
  BY <1>1, <1>6, <1>7 DEF StreamOK, Counted
<1>10. Latest(m)' /\ Latest(q)'
  <2>1. /\ \A i \in DOMAIN chan[m] : chan[m][i].val.id < puts + 1
        /\ \A f \in Live : f.val.id < puts + 1
    BY <1>1, <1>6, <1>7 DEF StreamOK, Counted
  <2>2. tab'[m][e.key] = e.val /\ e.val.id <= puts'
    BY <1>1, <1>2, <1>5, <1>6
  <2> QED
    BY <1>1, <1>2, <1>5, <1>6, <2>1, <2>2 DEF Latest
<1>11. Reached(m)' /\ Reached(q)'
  <2>1. ASSUME NEW f \in Live PROVE tab'[m][f.key].id >= f.val.id \/ tab'[m][f.key] = tab[m][f.key]
    BY <1>5, <1>6 DEF StreamOK, Counted, Val
  <2>2. Reached(m)'
    BY <1>1, <1>6, <2>1 DEF StreamOK, Reached, OnItsWay, Alive
  <2> QED
    BY <1>1, <1>4, <1>5, <1>6, <2>2 DEF StreamOK, Reached, OnItsWay, Alive
<1>12. Same(m)' /\ Same(q)'
  <2>1. Same(q)'
    BY <1>1, <1>4 DEF Same
  <2>2. ASSUME Same(m), NEW j \in Keys, Alive(m), Alive(q), \A d \in dropped \cup {e} : d.key # j
        PROVE  tab'[m][j] = Updated(tab[q], chan[m])[j]
    BY <1>2, <1>3, <1>4, <1>5, <2>2 DEF Same, q
  <2>3. Same(m)'
    BY <1>1, <1>5, <2>2 DEF StreamOK, Same, Alive, q
  <2> QED
    BY <2>1, <2>3
<1>13. \A r \in Reps : Ordered(chan[r], Live)' /\ \A l \in left'[r] : Ordered(l, Live')
  BY <1>1, <1>6 DEF StreamOK
<1> QED
  BY <1>4, <1>8, <1>9, <1>10, <1>11, <1>12, <1>13 DEF StreamOK

\* BackStore::push when the backup gets the update.
LEMMA PushedStream ==
  ASSUME NodeInv, DataType, StreamOK, NEW r \in Reps, NEW e \in pend[r], Push(r, e),
         wire[r] = "ok", chan' = [chan EXCEPT ![r] = Append(@, e)],
         UNCHANGED <<link, wire, hold, dropped>>
  PROVE  StreamOK'
<1> DEFINE q == Peer(r)
           c == chan[r]
<1>1. /\ pend' = [pend EXCEPT ![r] = @ \ {e}] /\ acked' \in {acked, acked \cup {e}}
      /\ UNCHANGED <<phase, prim, tab, left, puts>>
  BY DEF Push, PushDone, serverVars, boundVars
<1>2. prim[r] /\ link[r] = "running" /\ phase[r] = "serving" /\ phase[q] = "serving"
  BY Roles DEF StreamOK, Lines
<1>3. /\ q \in Reps /\ q # r /\ Peer(q) = r /\ \A p \in Reps : p = r \/ p = q
      /\ ~prim[q] /\ pend[q] = {} /\ chan[q] = <<>> /\ left[r] = {} /\ left[q] = {}
  BY <1>2, PeerFacts, Roles DEF StreamOK, Lines
<1>4. /\ pend[r] = {e} /\ tab[r][e.key] = e.val /\ e.val.id <= puts
      /\ \A i \in DOMAIN c : c[i].val.id < e.val.id
      /\ \A f \in Live : f.val.id < e.val.id
  BY <1>2 DEF StreamOK, Latest, Alive
<1>5. /\ e \in EntryType /\ c \in Seq(EntryType) /\ DOMAIN tab[q] = Keys
      /\ e.val.id \in Nat /\ puts \in Nat /\ \A f \in Live : f.val.id \in Nat
  <2>1. e \in EntryType /\ c \in Seq(EntryType) /\ DOMAIN tab[q] = Keys
    BY <1>3 DEF DataType, Table
  <2>2. puts \in Nat /\ \A f \in Live : f \in EntryType
    BY ClusterAssumption DEF DataType, Live
  <2>3. \A f \in EntryType : f.val.id \in Nat
    BY ClusterAssumption DEF EntryType, ValType
  <2> QED
    BY <2>1, <2>2, <2>3
<1> DEFINE n == Len(c)
           d == Append(c, e)
<1>6. /\ n \in Nat /\ DOMAIN c = 1 .. n /\ DOMAIN d = 1 .. n + 1 /\ d[n + 1] = e /\ n + 1 \in 1 .. n + 1
      /\ \A i \in 1 .. n : d[i] = c[i] /\ i \in 1 .. n + 1
      /\ \A i \in 1 .. n + 1 : i \in 1 .. n \/ i = n + 1
  BY <1>5
<1>7. chan'[r] = d /\ chan'[q] = <<>> /\ pend'[r] = {} /\ pend'[q] = {} /\ Live' \subseteq Live \cup {e}
  BY <1>1, <1>3, <1>4 DEF DataType, Live
<1> HIDE DEF n, d, q
<1>8. Holds(d, e) /\ \A f : Holds(c, f) => Holds(d, f)
  BY <1>6 DEF Holds
<1>9. Ordered(d, Live')
  <2>1. ASSUME NEW i \in 1 .. n + 1, NEW j \in 1 .. n + 1, i < j PROVE d[i].val.id < d[j].val.id
    <3>1. i \in 1 .. n
      BY <1>6, <2>1
    <3>2. CASE j \in 1 .. n
      BY <1>6, <2>1, <3>1, <3>2 DEF StreamOK, Ordered
    <3>3. CASE j = n + 1
      BY <1>4, <1>6, <3>1, <3>3
    <3> QED
      BY <1>6, <3>2, <3>3
  <2>2. ASSUME NEW f \in Live', ~Holds(d, f), NEW i \in 1 .. n + 1 PROVE d[i].val.id > f.val.id
    <3>1. f \in Live /\ ~Holds(c, f)
      BY <1>7, <1>8, <2>2
    <3>2. \A j \in 1 .. n : c[j].val.id > f.val.id
      BY <1>6, <3>1 DEF StreamOK, Ordered
    <3>3. e.val.id > f.val.id
      BY <1>4, <1>5, <3>1
    <3> QED
      BY <1>6, <3>2, <3>3
  <2> QED
    BY <1>6, <2>1, <2>2 DEF Ordered
<1>10. Ordered(<<>>, Live')
  BY DEF Ordered
<1>11. Lines(r)' /\ Lines(q)'
  BY <1>1, <1>3, <1>7 DEF StreamOK, Lines
<1>12. Latest(r)' /\ Latest(q)'
  BY <1>7 DEF Latest
<1>13. Reached(r)' /\ Reached(q)'
  <2>1. Reached(r)'
    <3>1. \A f \in Live : tab[r][f.key].id >= f.val.id \/ OnItsWay(q, f)
      BY <1>2 DEF StreamOK, Reached, Alive, q
    <3>2. \A f \in Live' : tab[r][f.key].id >= f.val.id \/ OnItsWay(q, f)
      BY <1>4, <1>5, <1>7, <3>1
    <3>3. \A f : OnItsWay(q, f)' <=> OnItsWay(q, f)
      BY <1>1, <1>3, <1>7 DEF OnItsWay
    <3> QED
      BY <1>1, <3>2, <3>3 DEF Reached, q
  <2>2. ASSUME NEW f \in Live', Alive(q) PROVE tab[q][f.key].id >= f.val.id \/ Holds(d, f)
    BY <1>3, <1>7, <1>8, <2>2 DEF StreamOK, Reached, OnItsWay
  <2>3. Reached(q)'
    BY <1>1, <1>3, <1>7, <2>2 DEF Reached, OnItsWay, Alive
  <2> QED
    BY <2>1, <2>3
<1>14. Same(r)' /\ Same(q)'
  <2>1. Same(q)'
    BY <1>1, <1>2, <1>3 DEF Same
  <2>2. ASSUME NEW k \in Keys, \A x \in dropped : x.key # k
        PROVE  tab[r][k] = Updated(tab[q], d)[k]
    <3>1. Updated(tab[q], d)[k] = IF k = e.key THEN e.val ELSE Updated(tab[q], c)[k]
      BY <1>5, UpdatedAppend DEF d
    <3>2. k # e.key => tab[r][k] = Updated(tab[q], c)[k]
      BY <1>2, <1>3, <1>4, <2>2 DEF StreamOK, Same, Alive, q
    <3> QED
      BY <1>4, <3>1, <3>2
  <2>3. Same(r)'
    BY <1>1, <1>7, <2>2 DEF Same, q
  <2> QED
    BY <2>1, <2>3
<1>15. Counted'
  <2>1. \A i \in DOMAIN d : d[i].val.id <= puts
    BY <1>4, <1>6 DEF StreamOK, Counted
  <2>2. \A i \in DOMAIN chan'[r] : chan'[r][i].val.id <= puts'
    BY <1>1, <1>7, <2>1
  <2>3. DOMAIN chan'[q] = {}
    BY <1>7
  <2>4. \A f \in Live' : f.val.id <= puts'
    BY <1>1, <1>4, <1>7 DEF StreamOK, Counted
  <2> QED
    BY <1>3, <2>2, <2>3, <2>4 DEF Counted
<1>16. \A p \in Reps : Ordered(chan[p], Live)' /\ \A l \in left'[p] : Ordered(l, Live')
  BY <1>1, <1>3, <1>7, <1>9, <1>10
<1> QED
  BY <1>3, <1>11, <1>12, <1>13, <1>14, <1>15, <1>16 DEF StreamOK

\* BackStore::push when the backup is gone.
LEMMA UnpushedStream ==
  ASSUME NodeInv, DataType, StreamOK, NEW r \in Reps, NEW e \in pend[r], Push(r, e),
         chan' = chan, hold' = hold, dropped' = dropped \cup {e},
         \/ wire[r] # "ok" /\ wire' = [wire EXCEPT ![r] = "reset"] /\ link' = link
         \/ wire[r] # "ok" /\ link' = [link EXCEPT ![r] = "failed"] /\ wire' = wire
         \/ UNCHANGED <<link, wire>>
  PROVE  StreamOK'
<1> DEFINE q == Peer(r)
<1>1. /\ pend' = [pend EXCEPT ![r] = @ \ {e}] /\ acked' \in {acked, acked \cup {e}}
      /\ UNCHANGED <<phase, prim, tab, left, puts>>
  BY DEF Push, PushDone, serverVars, boundVars
<1>2. prim[r] /\ phase[r] = "serving"
  BY Roles
<1>3. /\ q \in Reps /\ q # r /\ Peer(q) = r /\ \A p \in Reps : p = r \/ p = q
      /\ ~prim[q] /\ pend[q] = {}
  BY <1>2, PeerFacts, Roles
<1>4. /\ Alive(q) => pend[r] = {e}
      /\ pend'[r] = pend[r] \ {e} /\ pend'[q] = {} /\ Live' \subseteq Live
  BY <1>1, <1>3 DEF StreamOK, Latest, DataType, Live
<1>5. Lines(r)' /\ Lines(q)'
  <2>1. wire'[q] = wire[q] /\ link'[q] = link[q]
    BY <1>3 DEF NodeInv, ControlType, DataType
  <2>2. \/ wire'[r] = wire[r] /\ link'[r] = link[r]
        \/ wire[r] # "ok" /\ wire'[r] # "ok" /\ link'[r] \in {link[r], "failed"}
    BY <1>3 DEF NodeInv, ControlType, DataType
  <2> QED
    BY <1>1, <1>3, <2>1, <2>2 DEF StreamOK, Lines
<1>6. Latest(r)' /\ Latest(q)'
  BY <1>1, <1>4 DEF Latest, Alive
<1>7. Reached(r)' /\ Reached(q)'
  BY <1>1, <1>3, <1>4 DEF StreamOK, Reached, OnItsWay, Alive
<1>8. Same(r)' /\ Same(q)'
  <2>1. Same(q)'
    BY <1>1, <1>2, <1>3 DEF Same
  <2>2. ASSUME NEW k \in Keys, \A x \in dropped' : x.key # k, Alive(q)
        PROVE  tab[r][k] = Updated(tab[q], chan[r])[k]
    BY <1>2, <1>3, <1>4, <2>2 DEF StreamOK, Same, Alive
  <2>3. Same(r)'
    BY <1>1, <1>3, <1>4, <2>2 DEF Same, Alive
  <2> QED
    BY <2>1, <2>3
<1>9. Counted'
  BY <1>1, <1>4 DEF StreamOK, Counted
<1>10. \A p \in Reps : Ordered(chan[p], Live)' /\ \A l \in left'[p] : Ordered(l, Live')
  BY <1>1, <1>4, OrderedFewer DEF StreamOK
<1> QED
  BY <1>3, <1>5, <1>6, <1>7, <1>8, <1>9, <1>10 DEF StreamOK

LEMMA PushStream ==
  ASSUME NodeInv, DataType, StreamOK, NEW r \in Reps, NEW e \in pend[r], Push(r, e)
  PROVE  StreamOK'
<1>1. link[r] # "recovering"
  BY DEF StreamOK, Lines
<1>2. \/ /\ wire[r] = "ok" /\ chan' = [chan EXCEPT ![r] = Append(@, e)]
         /\ UNCHANGED <<link, wire, hold, dropped>>
      \/ /\ chan' = chan /\ hold' = hold /\ dropped' = dropped \cup {e}
         /\ \/ wire[r] # "ok" /\ wire' = [wire EXCEPT ![r] = "reset"] /\ link' = link
            \/ wire[r] # "ok" /\ link' = [link EXCEPT ![r] = "failed"] /\ wire' = wire
            \/ UNCHANGED <<link, wire>>
  BY <1>1 DEF Push, DataType
<1> QED
  BY <1>2, PushedStream, UnpushedStream

\* A death cuts the stream of the server that dies.
LEMMA DeathStream ==
  ASSUME NodeInv, DataType, NeverRestarted, StreamOK, NEW r \in Reps, Death(r)
  PROVE  StreamOK'
<1> DEFINE q == Peer(r)
           c == chan[r]
<1>1. q \in Reps /\ q # r /\ Peer(q) = r /\ \A p \in Reps : p = r \/ p = q
  BY PeerFacts
<1>2. PICK n \in 0 .. Len(c) :
        /\ left' = [left EXCEPT ![r] = IF n = 0 THEN @ ELSE @ \cup {SubSeq(c, 1, n)}, ![q] = {}]
        /\ dropped' = dropped \cup Range(SubSeq(c, n + 1, Len(c)))
                              \cup Range(hold[r]) \cup pend[r]
                              \cup Range(chan[q]) \cup UNION {Range(l) : l \in left[q]}
  BY DEF Death, Dies
<1>3. /\ hold' = [hold EXCEPT ![r] = <<>>] /\ acked' = acked /\ UNCHANGED tab
      /\ wire' = [wire EXCEPT ![r] = "closed", ![q] = IF @ = "ok" THEN "closed" ELSE @]
      /\ puts' \in {puts, puts + 1} /\ puts \in Nat
  BY ClusterAssumption DEF Death, Dies, serverVars, DataType
<1> DEFINE d == SubSeq(c, 1, n)
           cut == SubSeq(c, n + 1, Len(c))
<1>4. /\ c \in Seq(EntryType) /\ Len(d) = n /\ n \in Nat /\ d \in Seq(EntryType)
      /\ Len(c) \in Nat /\ \A i \in 1 .. n : d[i] = c[i] /\ i \in 1 .. Len(c)
      /\ Range(d) \cup Range(cut) = Range(c)
  <2>1. c \in Seq(EntryType)
    BY DEF DataType
  <2> QED
    BY <2>1, PrefixType
<1>5. /\ phase'[r] = "off" /\ phase'[q] = phase[q]
      /\ chan'[r] = <<>> /\ chan'[q] = <<>> /\ pend'[r] = {} /\ pend'[q] = pend[q]
      /\ link'[r] = "none" /\ link'[q] = link[q]
  <2>1. /\ phase'[r] = "off" /\ phase'[q] \in Bereft(q, r) /\ Dies(r)
        /\ chan'[r] = <<>> /\ chan'[q] = <<>> /\ pend'[r] = {} /\ pend'[q] = pend[q]
        /\ link'[r] = "none" /\ link'[q] = link[q]
    BY <1>1, DeathFacts DEF Death, NodeInv
  <2> QED
    BY <1>1, <2>1 DEF Bereft, NeverRestarted, Fetching
<1> HIDE DEF q, d, cut
<1>6. /\ left'[q] = {} /\ left'[r] = IF n = 0 THEN left[r] ELSE left[r] \cup {d}
      /\ hold'[r] = <<>> /\ hold'[q] = hold[q] /\ wire'[r] # "ok" /\ wire'[q] # "ok"
  BY <1>1, <1>2, <1>3 DEF DataType, d
<1>7. Live' \subseteq Live /\ \A f \in Live' : f \notin Range(cut)
  BY <1>2, <1>3 DEF Live, cut
<1>8. ASSUME NEW f \in Live', Holds(c, f) PROVE n # 0 /\ Holds(d, f)
  <2>1. f \in Range(c)
    BY <1>8 DEF Holds, Range
  <2>2. f \in Range(d)
    BY <1>4, <1>7, <2>1
  <2>3. Holds(d, f)
    BY <2>2 DEF Holds, Range
  <2>4. DOMAIN d = 1 .. n
    BY <1>4
  <2> QED
    BY <1>4, <2>3, <2>4 DEF Holds
<1>9. Lines(r)' /\ Lines(q)'
  BY <1>1, <1>5, <1>6 DEF StreamOK, Lines
<1>10. Latest(r)' /\ Latest(q)'
  BY <1>1, <1>5 DEF Latest, Alive
<1>11. Reached(r)' /\ Reached(q)'
  <2>1. ASSUME NEW f \in Live', Alive(q)
        PROVE  tab[q][f.key].id >= f.val.id \/ \E l \in left'[r] : Holds(l, f)
    BY <1>1, <1>6, <1>7, <1>8, <2>1 DEF StreamOK, Reached, OnItsWay
  <2>2. Reached(q)'
    BY <1>1, <1>3, <1>5, <2>1 DEF Reached, OnItsWay, Alive
  <2> QED
    BY <1>5, <2>2 DEF Reached, Alive
<1>12. Same(r)' /\ Same(q)'
  BY <1>1, <1>5 DEF Same, Alive
<1>13. Counted'
  <2>1. DOMAIN <<>> = {}
    OBVIOUS
  <2>2. \A f \in Live' : f.val.id <= puts'
    <3>1. \A f \in Live : f.val.id <= puts /\ f.val.id \in Nat
      BY ClusterAssumption DEF StreamOK, Counted, Live, DataType, EntryType, ValType
    <3> QED
      BY <1>3, <1>7, <3>1
  <2> QED
    BY <1>1, <1>5, <2>1, <2>2 DEF Counted
<1>14. Ordered(<<>>, Live')
  BY DEF Ordered
<1>15. Ordered(d, Live')
  <2>1. DOMAIN d = 1 .. n /\ DOMAIN c = 1 .. Len(c)
    BY <1>4
  <2>2. Ordered(c, Live')
    BY <1>7, OrderedFewer DEF StreamOK
  <2>3. \A i, j \in 1 .. n : i < j => d[i].val.id < d[j].val.id
    BY <1>4, <2>1, <2>2 DEF Ordered
  <2>4. \A f \in Live' : Holds(d, f) \/ \A i \in 1 .. n : d[i].val.id > f.val.id
    BY <1>4, <1>8, <2>1, <2>2 DEF Ordered
  <2> QED
    BY <2>1, <2>3, <2>4 DEF Ordered
<1>16. \A l \in left[r] : Ordered(l, Live')
  BY <1>7, OrderedFewer DEF StreamOK
<1>17. \A p \in Reps : Ordered(chan[p], Live)' /\ \A l \in left'[p] : Ordered(l, Live')
  BY <1>1, <1>5, <1>6, <1>14, <1>15, <1>16
<1> QED
  BY <1>1, <1>9, <1>10, <1>11, <1>12, <1>13, <1>17 DEF StreamOK

\* One message is taken, or two, the second of which is lost.
LEMMA RestsForm ==
  ASSUME NEW S, NEW s \in Seq(S), NEW t \in Rests(s), NEW r
  PROVE  t = Tail(s) \/ (t = Tail(Tail(s)) /\ Len(s) > 1 /\ s[2] \in Skipped(r, s, t))
<1> DEFINE both == {s[2]} \cup (IF prim[r] THEN {s[1]} ELSE {})
<1>1. t = Tail(s) \/ (t = Tail(Tail(s)) /\ Len(s) > 1 /\ Skipped(r, s, t) = both)
  BY RestsFacts
<1>2. s[2] \in both
  OBVIOUS
<1> QED
  BY <1>1, <1>2

\* What is left of a stream is the stream without its first message or the first
\* two, the second of which is lost then.
LEMMA RestsShift ==
  ASSUME NEW S, NEW s \in Seq(S), NEW t \in Rests(s), NEW r
  PROVE  \E a \in {1, 2} : /\ a <= Len(s) /\ Len(t) = Len(s) - a
                           /\ \A i \in 1 .. Len(t) : t[i] = s[i + a]
                           /\ a = 2 => s[2] \in Skipped(r, s, t)
<1>1. s # <<>> /\ Len(s) \in Nat \ {0}
  BY RestsFacts
<1>2. PICK u : u = Tail(s)
  OBVIOUS
<1>3. u \in Seq(S) /\ Len(u) = Len(s) - 1 /\ \A i \in 1 .. Len(u) : u[i] = s[i + 1]
  BY <1>1, <1>2, HeadTailProperties
<1>4. CASE t = u
  BY <1>1, <1>3, <1>4
<1>5. CASE t = Tail(u) /\ Len(s) > 1 /\ s[2] \in Skipped(r, s, t)
  <2>1. Len(u) \in Nat \ {0} /\ u # <<>>
    BY <1>1, <1>3, <1>5
  <2>2. Len(t) = Len(u) - 1 /\ \A i \in 1 .. Len(t) : t[i] = u[i + 1]
    BY <1>3, <1>5, <2>1, HeadTailProperties
  <2>3. Len(t) = Len(s) - 2
    BY <1>1, <1>3, <2>2
  <2>4. ASSUME NEW i \in 1 .. Len(t) PROVE t[i] = s[i + 2]
    <3>1. i + 1 \in 1 .. Len(u) /\ (i + 1) + 1 = i + 2
      BY <1>1, <1>3, <2>3
    <3> QED
      BY <1>3, <2>2, <3>1
  <2> QED
    BY <1>1, <1>5, <2>3, <2>4
<1>6. t = u \/ (t = Tail(u) /\ Len(s) > 1 /\ s[2] \in Skipped(r, s, t))
  BY <1>2, RestsForm
<1> QED
  BY <1>4, <1>5, <1>6

\* What Deliver leaves of an ordered stream s is ordered, and an update that was
\* neither lost nor left comes no later than the one that was applied.
LEMMA RestOrdered ==
  ASSUME NEW s \in Seq(EntryType), NEW t \in Rests(s), NEW r, NEW L, NEW M,
         L \subseteq EntryType, Ordered(s, L), M \subseteq L, M \cap Skipped(r, s, t) = {}
  PROVE  /\ Ordered(t, M)
         /\ \A f \in M : Holds(t, f) \/ f.val.id <= s[1].val.id
         /\ \A f \in M : Holds(s, f) => Holds(t, f) \/ f = s[1]
         /\ \A i \in DOMAIN t : \E j \in DOMAIN s : t[i] = s[j]
<1> DEFINE n == Len(s)
           m == Len(t)
<1>1. n \in Nat \ {0} /\ DOMAIN s = 1 .. n /\ \A i \in 1 .. n : s[i] \in EntryType
  BY RestsFacts
<1>2. PICK a \in {1, 2} : /\ a <= n /\ m = n - a /\ \A i \in 1 .. m : t[i] = s[i + a]
                          /\ a = 2 => s[2] \in Skipped(r, s, t)
  BY RestsShift
<1>3. t \in Seq(EntryType) /\ m \in Nat /\ DOMAIN t = 1 .. m
  <2>1. t \in Seq(EntryType)
    BY RestsFacts
  <2> QED
    BY <2>1
<1> HIDE DEF n, m
<1>4. a = 2 => s[2] \notin M
  BY <1>2
<1>5. ASSUME NEW i \in 1 .. m PROVE i + a \in 1 .. n /\ t[i] = s[i + a] /\ 1 < i + a
  BY <1>1, <1>2, <1>3
<1>6. ASSUME NEW f \in M, Holds(s, f) PROVE Holds(t, f) \/ f = s[1]
  <2>1. PICK j \in 1 .. n : s[j] = f
    BY <1>1, <1>6 DEF Holds
  <2>2. CASE j > a
    <3>1. j - a \in 1 .. m /\ (j - a) + a = j
      BY <1>1, <1>2, <1>3, <2>1, <2>2
    <3>2. t[j - a] = f
      BY <1>5, <2>1, <3>1
    <3> QED
      BY <1>3, <3>1, <3>2 DEF Holds
  <2>3. CASE ~(j > a)
    <3>1. j = 1 \/ (j = 2 /\ a = 2)
      BY <1>1, <2>1, <2>3
    <3> QED
      BY <1>4, <1>6, <2>1, <3>1
  <2> QED
    BY <2>2, <2>3
<1>7. \A f \in EntryType : f.val.id \in Nat
  BY ClusterAssumption DEF EntryType, ValType
<1>8. ASSUME NEW f \in M PROVE Holds(t, f) \/ f.val.id <= s[1].val.id
  <2>1. s[1] \in EntryType /\ f \in EntryType /\ s[1].val.id \in Nat /\ f.val.id \in Nat
    BY <1>1, <1>7
  <2>2. Holds(s, f) \/ s[1].val.id > f.val.id
    BY <1>1, <1>8 DEF Ordered
  <2> QED
    BY <1>6, <1>8, <2>1, <2>2
<1>9. ASSUME NEW i \in 1 .. m, NEW j \in 1 .. m, i < j PROVE t[i].val.id < t[j].val.id
  <2>1. i + a \in 1 .. n /\ j + a \in 1 .. n
    BY <1>5
  <2>2. i + a < j + a
    BY <1>3, <1>9
  <2> QED
    BY <1>1, <1>5, <2>1, <2>2 DEF Ordered
<1>10. ASSUME NEW f \in M, ~Holds(t, f), NEW i \in 1 .. m PROVE t[i].val.id > f.val.id
  <2>1. i + a \in 1 .. n /\ t[i] = s[i + a] /\ 1 < i + a /\ 1 \in 1 .. n
    BY <1>1, <1>5
  <2>2. CASE f = s[1]
    <3>1. s[1].val.id < s[i + a].val.id
      BY <1>1, <2>1 DEF Ordered
    <3>2. s[1].val.id \in Nat /\ s[i + a].val.id \in Nat
      BY <1>1, <1>7, <2>1
    <3> QED
      BY <2>1, <2>2, <3>1, <3>2
  <2>3. CASE ~Holds(s, f)
    BY <1>1, <1>10, <2>1, <2>3 DEF Ordered
  <2> QED
    BY <1>6, <1>10, <2>2, <2>3
<1>11. Ordered(t, M)
  BY <1>3, <1>9, <1>10 DEF Ordered
<1>12. \A i \in DOMAIN t : \E j \in DOMAIN s : t[i] = s[j]
  BY <1>1, <1>3, <1>5
<1> QED
  BY <1>6, <1>8, <1>11, <1>12

\* In what Apply leaves at the server, the key has the number of the update.
LEMMA AppliedAt ==
  ASSUME DataType, NEW r \in Reps, NEW e \in EntryType, Apply(r, e)
  PROVE  /\ tab'[r][e.key].id = e.val.id
         /\ \A k \in Keys : k # e.key => tab'[r][k] = tab[r][k]
         /\ \A p \in Reps : p # r => tab'[p] = tab[p] /\ pend'[p] = pend[p]
         /\ ~prim[r] => pend' = pend /\ tab' = [tab EXCEPT ![r][e.key] = e.val]
<1>1. e.key \in Keys /\ tab \in [Reps -> Table]
  BY DEF EntryType, DataType
<1>2. \E v : v.id = e.val.id /\ tab' = [tab EXCEPT ![r][e.key] = v]
  BY DEF Apply, ApplyAsPrimary, Val
<1>3. \A p \in Reps : p # r => pend'[p] = pend[p]
  BY DEF Apply, ApplyAsPrimary, DataType
<1>4. ~prim[r] => pend' = pend /\ tab' = [tab EXCEPT ![r][e.key] = e.val]
  BY DEF Apply
<1>5. /\ tab'[r][e.key].id = e.val.id
      /\ \A k \in Keys : k # e.key => tab'[r][k] = tab[r][k]
      /\ \A p \in Reps : p # r => tab'[p] = tab[p]
  BY <1>1, <1>2 DEF Table
<1> QED
  BY <1>3, <1>4, <1>5

\* The backup reads from the connection of the primary.
LEMMA DeliverLiveStream ==
  ASSUME NodeInv, DataType, StreamOK, NEW r \in Reps, NEW q \in Reps, q = Peer(r),
         NEW s \in Rests(chan[q]), Apply(r, Head(chan[q])),
         chan' = [chan EXCEPT ![q] = s], dropped' = dropped \cup Skipped(r, chan[q], s),
         UNCHANGED <<left, phase, prim, link, wire, hold, puts, acked>>
  PROVE  StreamOK'
<1>1. PICK c \in Seq(EntryType) : c = chan[q]
  BY DEF DataType
<1>2. /\ s \in Seq(EntryType) /\ c # <<>> /\ Head(c) = c[1] /\ c[1] \in EntryType
      /\ c[1].key \in Keys /\ Apply(r, c[1])
  <2>1. s \in Rests(c) /\ Apply(r, Head(c))
    BY <1>1
  <2>2. s \in Seq(EntryType) /\ c # <<>> /\ Head(c) = c[1] /\ c[1] \in EntryType
    BY <2>1, RestsFacts
  <2> QED
    BY <2>1, <2>2 DEF EntryType
<1>3. /\ prim[q] /\ ~prim[r] /\ q # r /\ Peer(q) = r /\ pend[r] = {} /\ chan[r] = <<>>
      /\ phase[q] = "serving" /\ left[q] = {} /\ wire[q] = "ok" /\ phase[r] = "serving"
      /\ left[r] = {} /\ \A p \in Reps : p = r \/ p = q
  BY <1>1, <1>2, PeerFacts, Roles DEF StreamOK, Lines
<1>4. /\ pend' = pend /\ tab' = [tab EXCEPT ![r][c[1].key] = c[1].val] /\ tab'[q] = tab[q]
      /\ tab'[r][c[1].key].id = c[1].val.id /\ tab[r] \in Table
      /\ \A k \in Keys : k # c[1].key => tab'[r][k] = tab[r][k]
  <2>1. /\ tab'[r][c[1].key].id = c[1].val.id
        /\ \A k \in Keys : k # c[1].key => tab'[r][k] = tab[r][k]
        /\ tab'[q] = tab[q]
        /\ pend' = pend /\ tab' = [tab EXCEPT ![r][c[1].key] = c[1].val]
    BY <1>2, <1>3, AppliedAt
  <2>2. tab[r] \in Table
    BY DEF DataType
  <2> QED
    BY <2>1, <2>2
<1>5. Live' \subseteq Live /\ Live' \cap Skipped(r, c, s) = {} /\ Live \subseteq EntryType
  BY <1>1 DEF Live, DataType
<1>6. /\ Ordered(s, Live')
      /\ \A f \in Live' : Holds(s, f) \/ f.val.id <= c[1].val.id
      /\ \A f \in Live' : Holds(c, f) => Holds(s, f) \/ f = c[1]
      /\ \A i \in DOMAIN s : \E j \in DOMAIN c : s[i] = c[j]
  <2>1. Ordered(c, Live) /\ s \in Rests(c)
    BY <1>1 DEF StreamOK
  <2> HIDE DEF Live
  <2>2. PICK M : M = Live'
    OBVIOUS
  <2>3. M \subseteq Live /\ M \cap Skipped(r, c, s) = {}
    BY <1>5, <2>2
  <2> QED
    BY <1>5, <2>1, <2>2, <2>3, RestOrdered
<1>7. chan'[q] = s /\ chan'[r] = <<>>
  BY <1>3 DEF DataType
<1>8. Lines(r)' /\ Lines(q)'
  BY <1>1, <1>2, <1>3, <1>7 DEF StreamOK, Lines
<1>9. Latest(r)' /\ Latest(q)'
  <2>1. Latest(q)'
    BY <1>1, <1>3, <1>4, <1>5, <1>6, <1>7 DEF StreamOK, Latest, Alive
  <2> QED
    BY <1>3, <1>4, <2>1 DEF Latest
<1>10. Reached(r)' /\ Reached(q)'
  <2>1. ASSUME NEW f \in Live' PROVE tab'[r][f.key].id >= f.val.id \/ Holds(s, f)
    <3>1. f \in EntryType /\ f.key \in Keys /\ f.val.id \in Nat /\ c[1].val.id \in Nat
      BY <1>2, <1>5, ClusterAssumption DEF EntryType, ValType
    <3>2. CASE f.key = c[1].key
      BY <1>4, <1>6, <3>1, <3>2
    <3>3. CASE f.key # c[1].key
      BY <1>1, <1>3, <1>4, <1>5, <1>6, <3>1, <3>3 DEF StreamOK, Reached, OnItsWay, Alive
    <3> QED
      BY <3>2, <3>3
  <2>2. Reached(r)'
    BY <1>3, <1>7, <2>1 DEF Reached, OnItsWay
  <2>3. Reached(q)'
    BY <1>3, <1>4, <1>5, <1>7 DEF StreamOK, Reached, OnItsWay, Alive
  <2> QED
    BY <2>2, <2>3
<1>11. Same(r)' /\ Same(q)'
  <2>1. Same(r)'
    BY <1>3 DEF Same
  <2>2. ASSUME NEW k \in Keys, \A x \in dropped' \cup pend[q] : x.key # k
        PROVE  tab[q][k] = Updated(tab'[r], s)[k]
    <3>1. tab[q][k] = Updated(tab[r], c)[k]
      BY <1>1, <1>3, <2>2 DEF StreamOK, Same, Alive
    <3>2. tab'[r] = [tab[r] EXCEPT ![c[1].key] = c[1].val] /\ DOMAIN tab[r] = Keys /\ DOMAIN tab'[r] = Keys
      BY <1>4 DEF DataType, Table
    <3>3. Updated(tab[r], c)[k] = Updated(tab'[r], Tail(c))[k]
      BY <1>2, <3>2, UpdatedHead
    <3>4. CASE s = Tail(c)
      BY <3>1, <3>3, <3>4
    <3>5. CASE s = Tail(Tail(c)) /\ Len(c) > 1 /\ c[2] \in Skipped(r, c, s)
      <4>0. PICK u : u = Tail(c)
        OBVIOUS
      <4>1. u \in Seq(EntryType) /\ u # <<>> /\ u[1] = c[2]
        <5>1. /\ u \in Seq(EntryType) /\ Len(u) = Len(c) - 1
              /\ \A i \in 1 .. Len(u) : u[i] = c[i + 1]
          BY <1>2, <4>0, HeadTailProperties
        <5>2. 1 \in 1 .. Len(u) /\ 1 + 1 = 2
          BY <3>5, <5>1
        <5> QED
          BY <5>1, <5>2
      <4>2. c[2].key # k
        BY <1>1, <2>2, <3>5
      <4>3. Updated(tab'[r], u)[k] = Updated(tab'[r], Tail(u))[k]
        BY <3>2, <4>1, <4>2, UpdatedSkip
      <4> QED
        BY <3>1, <3>3, <3>5, <4>0, <4>3
    <3>6. s = Tail(c) \/ (s = Tail(Tail(c)) /\ Len(c) > 1 /\ c[2] \in Skipped(r, c, s))
      <4>1. s \in Rests(c)
        BY <1>1
      <4> QED
        BY <4>1, RestsForm
    <3> QED
      BY <3>4, <3>5, <3>6
  <2>3. Same(q)'
    BY <1>3, <1>4, <1>7, <2>2 DEF Same
  <2> QED
    BY <2>1, <2>3
<1>12. Counted'
  <2>1. \A i \in DOMAIN s : s[i].val.id <= puts
    BY <1>1, <1>6 DEF StreamOK, Counted
  <2>2. DOMAIN <<>> = {}
    OBVIOUS
  <2> QED
    BY <1>3, <1>5, <1>7, <2>1, <2>2 DEF StreamOK, Counted
<1>13. Ordered(<<>>, Live')
  BY DEF Ordered
<1>14. \A p \in Reps : Ordered(chan[p], Live)' /\ \A l \in left'[p] : Ordered(l, Live')
  BY <1>3, <1>6, <1>7, <1>13
<1> QED
  BY <1>3, <1>8, <1>9, <1>10, <1>11, <1>12, <1>14 DEF StreamOK

\* A server, promoted or not, reads what a dead one had sent.
LEMMA DeliverLeftStream ==
  ASSUME NodeInv, DataType, StreamOK, NEW r \in Reps, NEW q \in Reps, q = Peer(r), Accepting(r),
         NEW l \in left[q], NEW s \in Rests(l), Apply(r, Head(l)),
         left' = [left EXCEPT ![q] = (@ \ {l}) \cup ({s} \ {<<>>})],
         dropped' = dropped \cup Skipped(r, l, s),
         UNCHANGED <<chan, phase, prim, link, wire, hold, puts, acked>>
  PROVE  StreamOK'
<1>1. l \in Seq(EntryType)
  BY DEF DataType
<1>2. /\ s \in Seq(EntryType) /\ l[1] \in EntryType /\ l[1].key \in Keys /\ Apply(r, l[1])
  <2>1. s \in Seq(EntryType) /\ Head(l) = l[1] /\ l[1] \in EntryType
    BY <1>1, RestsFacts
  <2> QED
    BY <2>1 DEF EntryType
<1>3. /\ phase[q] = "off" /\ ~prim[q] /\ q # r /\ Peer(q) = r /\ pend[q] = {} /\ chan[q] = <<>>
      /\ phase[r] = "serving" /\ left[r] = {} /\ \A p \in Reps : p = r \/ p = q
  BY PeerFacts, Roles DEF StreamOK, Lines, Accepting
<1>4. /\ pend'[q] = pend[q] /\ tab'[r][l[1].key].id = l[1].val.id
      /\ \A k \in Keys : k # l[1].key => tab'[r][k] = tab[r][k]
  BY <1>2, <1>3, AppliedAt
<1>5. Live' \subseteq Live /\ Live' \cap Skipped(r, l, s) = {} /\ Live \subseteq EntryType
  BY DEF Live, DataType
<1>6. /\ Ordered(s, Live')
      /\ \A f \in Live' : Holds(s, f) \/ f.val.id <= l[1].val.id
      /\ \A f \in Live' : Holds(l, f) => Holds(s, f) \/ f = l[1]
  <2>1. Ordered(l, Live)
    BY DEF StreamOK
  <2> QED
    BY <1>1, <1>5, <2>1, RestOrdered
<1>7. left'[q] = (left[q] \ {l}) \cup ({s} \ {<<>>}) /\ left'[r] = {}
  BY <1>3 DEF DataType
<1>8. Lines(r)' /\ Lines(q)'
  BY <1>3, <1>7 DEF StreamOK, Lines
<1>9. Latest(r)' /\ Latest(q)'
  BY <1>3, <1>4 DEF Latest, Alive
<1>10. Reached(r)' /\ Reached(q)'
  <2>1. ASSUME NEW f \in Live'
        PROVE  tab'[r][f.key].id >= f.val.id \/ \E x \in left'[q] : Holds(x, f)
    <3>1. f \in EntryType /\ f.key \in Keys /\ f.val.id \in Nat /\ l[1].val.id \in Nat
      BY <1>2, <1>5, ClusterAssumption DEF EntryType, ValType
    <3>2. Holds(s, f) => s \in left'[q]
      BY <1>7 DEF Holds
    <3>3. CASE f.key = l[1].key
      BY <1>4, <1>6, <3>1, <3>2, <3>3
    <3>4. CASE f.key # l[1].key
      <4>1. tab[r][f.key].id >= f.val.id \/ \E x \in left[q] : Holds(x, f)
        BY <1>3, <1>5 DEF StreamOK, Reached, OnItsWay, Alive, Holds
      <4>2. Holds(l, f) => Holds(s, f)
        BY <1>6, <3>4
      <4> QED
        BY <1>4, <1>7, <3>1, <3>2, <3>4, <4>1, <4>2
    <3> QED
      BY <3>3, <3>4
  <2>2. Reached(r)'
    BY <2>1 DEF Reached, OnItsWay
  <2>3. Reached(q)'
    BY <1>3 DEF Reached, Alive
  <2> QED
    BY <2>2, <2>3
<1>11. Same(r)' /\ Same(q)'
  BY <1>3 DEF Same, Alive
<1>12. Counted'
  BY <1>5 DEF StreamOK, Counted
<1>13. \A p \in Reps : Ordered(chan[p], Live')
  BY <1>5, OrderedFewer DEF StreamOK
<1>14. \A x \in left'[q] : Ordered(x, Live')
  BY <1>5, <1>6, <1>7, OrderedFewer DEF StreamOK
<1>15. \A p \in Reps : Ordered(chan[p], Live)' /\ \A x \in left'[p] : Ordered(x, Live')
  BY <1>3, <1>7, <1>13, <1>14
<1> QED
  BY <1>3, <1>8, <1>9, <1>10, <1>11, <1>12, <1>15 DEF StreamOK

LEMMA DeliverStream ==
  ASSUME NodeInv, DataType, StreamOK, NEW r \in Reps, Deliver(r)
  PROVE  StreamOK'
<1>1. PICK q \in Reps : q = Peer(r)
  BY PeerFacts
<1>2. Accepting(r) /\ UNCHANGED <<phase, prim, link, wire, hold, puts, acked>>
  BY DEF Deliver, boundVars
<1>3. \/ \E s \in Rests(chan[q]) :
            /\ Apply(r, Head(chan[q])) /\ chan' = [chan EXCEPT ![q] = s]
            /\ dropped' = dropped \cup Skipped(r, chan[q], s) /\ UNCHANGED left
      \/ \E l \in left[q] : \E s \in Rests(l) :
            /\ Apply(r, Head(l)) /\ left' = [left EXCEPT ![q] = (@ \ {l}) \cup ({s} \ {<<>>})]
            /\ dropped' = dropped \cup Skipped(r, l, s) /\ UNCHANGED chan
  BY <1>1 DEF Deliver
<1> QED
  BY <1>1, <1>2, <1>3, DeliverLiveStream, DeliverLeftStream

LEMMA NextStream ==
  NodeInv /\ DataType /\ DiskInv /\ StreamInv /\ [Next]_vars => StreamInv'
<1> SUFFICES ASSUME NodeInv, DataType, DiskInv, StreamInv, [Next]_vars, restarts' = 0, MaxPending = 1
             PROVE  StreamOK'
  BY DEF StreamInv
<1>1. restarts = 0
  BY RestartsGrow
<1>2. NeverRestarted /\ FirstLifeStep /\ StreamOK
  BY <1>1, FirstLife DEF DiskInv, StreamInv
<1> QED
  BY <1>2, OtherStream, PromoteConnectStream, PushStream, DeliverStream, DeathStream,
     ClientPutStream DEF FirstLifeStep

(* As long as no server has been restarted, and a primary pushes an update *)
(* before it takes the next PUT, only a lost message makes the tables of   *)
(* primary and backup differ.                                              *)
THEOREM NodeMirrored ==
  ASSUME MaxPending = 1
  PROVE  Spec => [](restarts = 0 => MirroredButDropped)
<1>1. Spec => [](NodeInv /\ DataType /\ DiskInv /\ StreamInv)
  BY InitNode, InitData, InitDisk, InitStream, NextNode, NextData, NextDisk, NextStream, PTL DEF Spec
<1>2. NodeInv /\ StreamInv => (restarts = 0 => MirroredButDropped)
  <2> SUFFICES ASSUME NodeInv, StreamOK, NEW p \in Reps, Linked(p), NEW k \in Keys,
                      \A e \in dropped : e.key # k
               PROVE  tab[p][k] = Updated(tab[Peer(p)], chan[p])[k]
    BY DEF StreamInv, MirroredButDropped
  <2>1. pend[p] = {} /\ Alive(p) /\ Alive(Peer(p)) /\ ~prim[Peer(p)]
    BY Roles DEF Linked, Accepting, Alive
  <2> QED
    BY <2>1 DEF StreamOK, Same
<1> QED
  BY <1>1, <1>2, PTL

(* Under the same conditions, a backup that was promoted and has read what *)
(* the dead primary had sent serves every acknowledged PUT, or a later one *)
(* of that key, whose update was not lost on the way.                      *)
THEOREM NodeAckedServed ==
  ASSUME MaxPending = 1
  PROVE  Spec => [](restarts = 0 => AckedServed)
<1>1. Spec => [](NodeInv /\ DataType /\ DiskInv /\ StreamInv)
  BY InitNode, InitData, InitDisk, InitStream, NextNode, NextData, NextDisk, NextStream, PTL DEF Spec
<1>2. NodeInv /\ StreamInv => (restarts = 0 => AckedServed)
  <2> SUFFICES ASSUME NodeInv, StreamOK, NEW r \in Reps, prim[r], left[Peer(r)] = {}, NEW e \in Live
               PROVE  tab[r][e.key].id >= e.val.id
    BY DEF StreamInv, AckedServed, Live
  <2>1. Alive(r) /\ chan[Peer(r)] = <<>>
    BY PeerFacts, Roles DEF Alive
  <2>2. ~OnItsWay(Peer(r), e)
    BY <2>1 DEF OnItsWay, Holds
  <2> QED
    BY <2>1, <2>2 DEF StreamOK, Reached
<1> QED
  BY <1>1, <1>2, PTL
=============================================================================
