CONSTANTS
  N <- MCN
  Times <- MCTimes
  MaxCount <- MCMaxCount
SPECIFICATION Spec
INVARIANT IInv
CHECK_DEADLOCK FALSE
