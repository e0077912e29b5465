SPECIFICATION Spec
CONSTANTS
  Findings = {f, g}
  Runners = {event, command}
  Setups <- MCSetups
SYMMETRY Symmetric
CHECK_DEADLOCK FALSE
INVARIANT WatermarkCovers
PROPERTY NoticeSparesCompletion
INVARIANT WritesLandInOrder
PROPERTY FindingsStandOnce
