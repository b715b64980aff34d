---------------------------- MODULE MCBLHandover ----------------------------
(* BLHandover for TLC: the pair of CPUs is the whole instance. *)
EXTENDS BLHandover
=============================================================================
