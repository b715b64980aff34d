------------------------------ MODULE MCVlock ------------------------------
(* The voting lock for TLC: voting bytes dealt out to the words in turn. *)
EXTENDS VlockTryLock

MCWordOf == [c \in CPU |-> c % NWords]
=============================================================================
