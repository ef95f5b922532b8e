------------------------------- MODULE MCDrive -------------------------------
(* Two front ends of one user, on which TLC checks Drive. *)
EXTENDS Drive, TLC

CONSTANTS c1, c2

FrontEnds == {c1, c2}
FewNames == {"f", "g"}
Symm == Permutations(FrontEnds)
=============================================================================
