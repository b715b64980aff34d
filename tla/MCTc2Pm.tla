------------------------------ MODULE MCTc2Pm ------------------------------
(* Tc2Pm for TLC.  The voting bytes of the cluster share one word. *)
EXTENDS Tc2Pm, TLC

MCCPU == 0 .. N - 1
MCWordOf == [c \in CPU |-> 0]
=============================================================================
