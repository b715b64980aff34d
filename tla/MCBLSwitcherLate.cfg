CONSTANTS
  N = 2
  NONE = NONE
  r1 = r1
  Req = {r1}
  Notified = {}
  Failures = FALSE
  MaxPend = 2
  ClusterOf <- TwoClusters
SPECIFICATION SwSafetySpec
INVARIANTS DisableRestores
