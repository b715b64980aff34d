---------------------------- MODULE MCBLCpufreq ----------------------------
(* BLCpufreq for TLC: two pairs of CPUs, two rates per cluster. *)
EXTENDS BLCpufreq

MCLittle == {1, 2}
MCBig    == {2, 3}
=============================================================================
