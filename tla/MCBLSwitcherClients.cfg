CONSTANTS
  N = 2
  NONE = NONE
  r1 = r1
  r2 = r2
  Req = {r1,r2}
  Notified = {r1}
  Failures = FALSE
  MaxPend = 2
  ClusterOf <- TwoClusters
SPECIFICATION SwSpec
INVARIANTS SwInv RestoredUnlessLate LastRequestWins
PROPERTIES AdminCompletes RequestServed
