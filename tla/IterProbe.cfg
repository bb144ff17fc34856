CONSTANTS
  N <- MCN
  CallerMayRepeat = FALSE
SPECIFICATION Spec
INVARIANT ProbeSound
CHECK_DEADLOCK FALSE
