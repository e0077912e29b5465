SPECIFICATION AdapterFairSpec
CONSTANTS
  Completions = {a, b}
  Params = {temperature}
  MaxAttempts = 2
  Setups <- MCSetups
INVARIANT RequestsBounded
PROPERTY NeverReEnforced
PROPERTY CallsEnd
INVARIANT LossIsJust
PROPERTY TurnsLearn
