------------------------------- MODULE MCMail --------------------------------
(* Two connections and one page, on which TLC checks Mail. *)
EXTENDS Mail

CONSTANTS s1, s2, p1, m1, m2, m3

Connections == {s1, s2}
Threads == {p1}
Mails == {m1, m2, m3}
NoTitle == {m3}
\* The user has sent two mails to another host, and has had none.
OldMailboxes == {[outbox |-> <<m2, m1>>, inbox |-> None]}
=============================================================================
