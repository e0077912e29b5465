SPECIFICATION StagesSpec
CONSTANTS
  Diffs <- MCDiffs
  ReviewConfigs <- MCReviewConfigs
  Overhead = 2
  Header = 1
  MaxHints = 1
  MaxPad = 1
  Candidates <- MCCandidates
  Configs <- MCConfigs
  MaxFindings = 3
  Near = 1
  MaxScans = 1
  MaxHops = 2
CHECK_DEADLOCK FALSE
INVARIANT FloorComesFirst
INVARIANT BatchesHoldAll
INVARIANT ApprovalIsEarned
INVARIANT MergeCostsNothing
INVARIANT ScanLostToNoModel
INVARIANT SeriousIsHeard
INVARIANT CutYieldsToFix
