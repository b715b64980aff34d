----------------------------- MODULE LogicalCpu -----------------------------
(* What bL_switch_to promises of a logical CPU: it runs on one physical CPU   *)
(* at a time, moves in one step to the one it was asked to, or stays where it *)
(* is, and does so in finite time.                                            *)
CONSTANT Phys

VARIABLES on,    \* the physical CPU it runs on
          want   \* the one it should run on

lvars == <<on, want>>

LInit  == on \in Phys /\ want = on
Ask    == want = on /\ want' \in Phys /\ UNCHANGED on
Move   == want # on /\ on' = want /\ UNCHANGED want
GiveUp == want # on /\ want' = on /\ UNCHANGED on

LNext == Ask \/ Move \/ GiveUp

(* The steps it may make, and that a switch which was asked for ends. *)
LSafetySpec == LInit /\ [][LNext]_lvars
LSpec == LSafetySpec /\ WF_lvars(Move \/ GiveUp)
=============================================================================
