SPECIFICATION Spec
CONSTANTS
  Configs <- MCConfigs
CHECK_DEADLOCK FALSE
INVARIANT CompleteIsWhole
INVARIANT EndsAreTold
