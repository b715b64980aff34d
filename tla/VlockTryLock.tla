---------------------------- MODULE VlockTryLock ----------------------------
(***************************************************************************)
(* The voting lock as an implementation of TryLock.  The history variable    *)
(* rival says which attempts have met another CPU's attempt or tenure.       *)
(***************************************************************************)
EXTENDS Vlock

VARIABLE rival

hvars == <<vvars, rival>>

(* The abstract state of a CPU. *)
LockState(pc) == IF pc \in {"idle", "held", "lost"} THEN pc ELSE "trying"

(* The CPUs that an attempt of c meets when the program counters are pcs. *)
Meets(pcs, c) == {d \in CPU \ {c} : pcs[d] \notin {"idle", "lost"}}

HInit == VInit /\ rival = [c \in CPU |-> FALSE]

HNext == /\ VNext
         /\ rival' = [c \in CPU |->
                        vpc'[c] # "idle" /\ (rival[c] \/ Meets(vpc', c) # {})]

HSafetySpec == HInit /\ [][HNext]_hvars
HSpec == HSafetySpec /\ VFairness
-----------------------------------------------------------------------------
(* The inductive invariant that the refinement needs besides VInv: rival is  *)
(* up to date, and whoever is bound to lose has met another CPU.             *)
RivalSound ==
  /\ rival \in [CPU -> BOOLEAN]
  /\ \A c \in CPU :
       /\ vpc[c] = "idle" => ~rival[c]
       /\ vpc[c] # "idle" /\ Meets(vpc, c) # {} => rival[c]
       /\ vpc[c] = "failed" => rival[c]
       /\ vpc[c] \in {"endvote", "wait", "result"} /\ owner # c => rival[c]

Lock == INSTANCE TryLock WITH st <- [c \in CPU |-> LockState(vpc[c])]

(* vlock_trylock and vlock_unlock implement the try-lock: one holder at a    *)
(* time, and no attempt fails unless it met another CPU.                     *)
ImplementsTryLock == Lock!TSpec
=============================================================================
