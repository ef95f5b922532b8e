------------------------------ MODULE MCCluster ------------------------------
(* Instances of Cluster for TLC. *)
EXTENDS Cluster

CONSTANTS k1, k2

OneKey  == {k1}
TwoKeys == {k1, k2}
=============================================================================
