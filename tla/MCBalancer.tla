----------------------------- MODULE MCBalancer -----------------------------
(* Three front ends, so that a skipped one and a used one both have another *)
(* to go round.                                                            *)
EXTENDS Balancer
=============================================================================
