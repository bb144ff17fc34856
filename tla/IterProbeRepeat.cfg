CONSTANTS
  N <- MCN
  CallerMayRepeat = TRUE
SPECIFICATION Spec
INVARIANT ProbeSound
CHECK_DEADLOCK FALSE
