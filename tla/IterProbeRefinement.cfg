CONSTANTS
  N <- MCN
  CallerMayRepeat = FALSE
SPECIFICATION Spec
PROPERTY ImplementsProbeContract
CHECK_DEADLOCK FALSE
