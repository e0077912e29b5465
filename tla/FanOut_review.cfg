SPECIFICATION FairSpec
CONSTANTS
  Batches = 2
  Lenses = 2
  WarmBatches = {1}
  Workers = {w1, w2}
  RescueWorkers = {r1, r2}
  Burst = 1
  Budget = 2
  MaxTokens = 1
  MaxRequests = 3
  Findings = {f1}
  TaskOutcomes <- MCTaskOutcomes
  HasDeadline = TRUE
  HasScanFindings = FALSE
INVARIANT ScheduleIsSound
INVARIANT OvershootBounded
INVARIANT VerdictIsHonest
PROPERTY CallContract
PROPERTY ReviewEnds
