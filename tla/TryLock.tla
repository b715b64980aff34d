------------------------------ MODULE TryLock ------------------------------
(***************************************************************************)
(* What mcpm_entry_point relies on vlock_trylock for: at most one CPU holds *)
(* the lock, and an attempt fails only if it overlapped another CPU's       *)
(* attempt or tenure.                                                       *)
(***************************************************************************)
CONSTANT CPU

VARIABLES st,      \* where each CPU stands with the lock
          rival    \* has the current attempt met another CPU?

tvars == <<st, rival>>

TInit == /\ st = [c \in CPU |-> "idle"]
         /\ rival = [c \in CPU |-> FALSE]

Contenders(s) == {c \in CPU : s[c] \in {"trying", "held"}}

(* Every step records whom it brings together. *)
Move(c, from, to) ==
  /\ st[c] = from
  /\ st' = [st EXCEPT ![c] = to]
  /\ rival' = [d \in CPU |->
                 /\ st'[d] # "idle"
                 /\ rival[d] \/ Contenders(st') \ {d} # {}]

Try(c)    == Move(c, "idle", "trying")
Win(c)    == Move(c, "trying", "held") /\ \A d \in CPU : st[d] # "held"
Lose(c)   == Move(c, "trying", "lost") /\ rival[c]
GoOn(c)   == Move(c, "lost", "idle")
Unlock(c) == Move(c, "held", "idle")

TNext == \E c \in CPU : Try(c) \/ Win(c) \/ Lose(c) \/ GoOn(c) \/ Unlock(c)

TSpec == TInit /\ [][TNext]_tvars
=============================================================================
