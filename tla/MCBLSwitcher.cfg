CONSTANTS
  N = 4
  NONE = NONE
  r1 = r1
  Req = {r1}
  Notified = {}
  Failures = TRUE
  MaxPend = 1
  ClusterOf <- TwoClusters
SPECIFICATION SwSafetySpec
INVARIANTS PairingSound CompleterOnce HomeNotTaken
