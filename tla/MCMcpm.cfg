CONSTANTS
  N = 3
  CPU <- MCCPU
  NONE = NONE
  NWords = 1
  WordOf <- MCWordOf
SPECIFICATION MSpec
INVARIANTS MInv TeardownExclusive CommittedCoherent SetupExclusive NotStranded
PROPERTIES ClusterDiagram InboundCompletes
