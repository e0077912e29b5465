SPECIFICATION Spec
CONSTANTS
  Findings <- MCFindings
  FileOf <- MCFileOf
  Setups <- MCSetups
CHECK_DEADLOCK FALSE
PROPERTY NoSecondThread
PROPERTY FixedIsEarned
INVARIANT SummariesAreTrue
