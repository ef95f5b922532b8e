-------------------------------- MODULE KVMap --------------------------------
(***************************************************************************)
(* What a data server promises the clients that PUT and GET: a map from    *)
(* keys to values.  A PUT takes effect at one moment between the request   *)
(* and its +OK, a GET that finds a value answers with the value of one     *)
(* moment between the request and the answer.  The one thing that is       *)
(* weaker than an atomic map: parse_GET searches the table without a lock, *)
(* so a GET may answer -ERR for a key that is there while some PUT of a    *)
(* key that is not there is being carried out.                             *)
(***************************************************************************)
CONSTANTS Clients, Keys, Nil,
          Requests     \* records with op ("PUT" or "GET"), row, col and new

VARIABLES up,     \* the server answers
          kv,     \* key -> value or Nil
          req,    \* client -> its last request
          state,  \* client -> "idle", "pending", "done"
          ans     \* client -> the last answer

kvVars == <<up, kv, req, state, ans>>

KeyOf(q) == <<q.row, q.col>>

Init ==
  /\ up = TRUE
  /\ kv = [k \in Keys |-> Nil]
  /\ state = [c \in Clients |-> "idle"]
  /\ ans = [c \in Clients |-> "none"]

Invoke(c) ==
  /\ up /\ state[c] = "idle"
  /\ \E q \in Requests : req' = [req EXCEPT ![c] = q]
  /\ state' = [state EXCEPT ![c] = "pending"]
  /\ ans' = [ans EXCEPT ![c] = "none"]
  /\ UNCHANGED <<up, kv>>

Put(c) ==
  /\ up /\ state[c] = "pending" /\ req[c].op = "PUT"
  /\ kv' = [kv EXCEPT ![KeyOf(req[c])] = req[c].new]
  /\ state' = [state EXCEPT ![c] = "done"]
  /\ ans' = [ans EXCEPT ![c] = "+OK"]
  /\ UNCHANGED <<up, req>>

Get(c) ==
  /\ up /\ state[c] = "pending" /\ req[c].op = "GET"
  /\ kv[KeyOf(req[c])] # Nil
  /\ state' = [state EXCEPT ![c] = "done"]
  /\ ans' = [ans EXCEPT ![c] = kv[KeyOf(req[c])]]
  /\ UNCHANGED <<up, kv, req>>

\* Some PUT that enters a key into the table is being carried out.
Inserting == \E c \in Clients : /\ state[c] = "pending" /\ req[c].op = "PUT"
                                /\ kv[KeyOf(req[c])] = Nil

Miss(c) ==
  /\ up /\ state[c] = "pending" /\ req[c].op = "GET"
  /\ kv[KeyOf(req[c])] = Nil \/ Inserting
  /\ state' = [state EXCEPT ![c] = "idle"]
  /\ ans' = [ans EXCEPT ![c] = "-ERR"]
  /\ UNCHANGED <<up, kv, req>>

Return(c) ==
  /\ up /\ state[c] = "done"
  /\ state' = [state EXCEPT ![c] = "idle"]
  /\ UNCHANGED <<up, kv, req, ans>>

Stop == up /\ up' = FALSE /\ UNCHANGED <<kv, req, state, ans>>

Next == Stop \/ \E c \in Clients : Invoke(c) \/ Put(c) \/ Get(c) \/ Miss(c) \/ Return(c)

Spec == Init /\ [][Next]_kvVars
=============================================================================
