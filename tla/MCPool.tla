------------------------------- MODULE MCPool -------------------------------
(* The pool with two threads and three connections: one more than there    *)
(* are threads, so that a connection waits in the queue.                   *)
EXTENDS Pool
=============================================================================
