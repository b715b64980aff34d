CONSTANTS
  Slow = {0, 1}
  Fast = {2}
  t1 = t1
  t2 = t2
  Task = {t1, t2}
  bound = t2
  Builds = {TRUE, FALSE}
  Configs <- MCConfigs
  NONE = NONE
SPECIFICATION HSpec
INVARIANTS HInv HandshakeOwned RefsCounted PlacementSound
PROPERTY MigrationCompletes
CHECK_DEADLOCK FALSE
