--------------------------- MODULE MCHmpMigration ---------------------------
(* HmpMigration for TLC, CPUs 0 and 1 slow and 2 fast.  One task is bound to   *)
(* CPU 0 while the other may run anywhere, or to CPU 2 while the other may run *)
(* there and on CPU 0.                                                        *)
EXTENDS HmpMigration

CONSTANTS bound, Builds

MCConfigs ==
  [delayUp : Builds,
   allowed : {[t \in Task |-> IF t = bound THEN {0} ELSE CPU],
              [t \in Task |-> IF t = bound THEN {2} ELSE {0, 2}]}]
=============================================================================
