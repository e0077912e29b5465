SPECIFICATION Spec
CONSTANTS
  Configs <- MCGate
CHECK_DEADLOCK FALSE
INVARIANT GateHolds
