CONSTANTS
  Slow = {0, 1}
  Fast = {2}
  t1 = t1
  t2 = t2
  Task = {t1, t2}
  bound = t2
  Builds = {TRUE}
  Configs <- MCConfigs
  NONE = NONE
SPECIFICATION HTickSpec
PROPERTY WakeIsPulled
CHECK_DEADLOCK FALSE
