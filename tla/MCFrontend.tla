----------------------------- MODULE MCFrontend -----------------------------
(* Two users and three connections to one front end, two at a time.        *)
EXTENDS Frontend, TLC

Symm == Permutations(Users)
=============================================================================
