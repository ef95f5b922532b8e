------------------------- MODULE MCMasterDirectory -------------------------
(* Instances of MasterDirectory for TLC. *)
EXTENDS MasterDirectory, TLC

CONSTANTS t1, t2, r1, r2, r3, r4

TwoThreads == {t1, t2}
FourRows   == {r1, r2, r3, r4}
Symmetry   == Permutations(TwoThreads)
=============================================================================
