CONSTANTS
  Slow = {0, 1}
  Fast = {2}
  t1 = t1
  t2 = t2
  Task = {t1, t2}
  bound = t2
  Builds = {FALSE}
  Configs <- MCConfigs
  NONE = NONE
SPECIFICATION HSafetySpec
INVARIANT NeverSameQueue
CHECK_DEADLOCK FALSE
