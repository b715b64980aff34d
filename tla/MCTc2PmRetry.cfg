CONSTANTS
  N = 2
  CPU <- MCCPU
  NONE = NONE
  Unplugged <- MCCPU
  NWords = 1
  WordOf <- MCWordOf
SPECIFICATION TSafetySpec
INVARIANTS UseCountLegal
