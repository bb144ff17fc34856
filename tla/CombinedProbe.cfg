CONSTANTS
  N <- MCN
SPECIFICATION Spec
PROPERTY ImplementsProbeContract
CHECK_DEADLOCK FALSE
