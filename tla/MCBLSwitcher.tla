---------------------------- MODULE MCBLSwitcher ----------------------------
(* Values for model checking BLSwitcher: the lower half of the CPUs belongs   *)
(* to cluster 0, the upper half to cluster 1.                                 *)
EXTENDS BLSwitcher

TwoClusters == [c \in CPU |-> IF 2 * c < N THEN 0 ELSE 1]
=============================================================================
