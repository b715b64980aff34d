------------------------------- MODULE MCMcpm -------------------------------
(* Mcpm for TLC.  The voting bytes of the cluster share one word. *)
EXTENDS Mcpm, TLC

MCCPU == 0 .. N - 1
MCWordOf == [c \in CPU |-> 0]
=============================================================================
