CONSTANTS
  NONE = NONE
  PowerUpMayFail = TRUE
SPECIFICATION HandoverSpec
INVARIANTS HandoverInv OneContext GateSound HandshakeAlive CompletionAwaited
PROPERTIES ImplementsSwitch
