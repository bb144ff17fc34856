CONSTANTS
  N <- MCN
SPECIFICATION Spec
INVARIANT OutputOrdered
INVARIANT CompleteOnNone
