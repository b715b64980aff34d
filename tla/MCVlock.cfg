\* Four CPUs over two words, two in each: the words are polled in turn.
CONSTANTS
  CPU = {0, 1, 2, 3}
  NONE = NONE
  NWords = 2
  WordOf <- MCWordOf
SPECIFICATION HSpec
INVARIANT VInv
PROPERTIES ImplementsTryLock ElectionHasWinner TrylockReturns
