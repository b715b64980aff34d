\* Booting a CPU again after a timeout may end in BUG() with tc2_pm_lock held:
\* the cluster may stop.
CONSTANTS
  N = 2
  CPU <- MCCPU
  NONE = NONE
  Unplugged <- MCCPU
  NWords = 1
  WordOf <- MCWordOf
SPECIFICATION TSpec
INVARIANTS TInv PmLockSafe PowerOffSafe WantedCanWake
PROPERTIES ImplementsMcpm DownCompletes PowerUpDelivered
CHECK_DEADLOCK FALSE
