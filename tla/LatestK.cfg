CONSTANTS
  N <- MCN
  Times <- MCTimes
  MaxCount <- MCMaxCount
SPECIFICATION Spec
INVARIANT LatestIsTopK
INVARIANT NeverPanics
CHECK_DEADLOCK FALSE
