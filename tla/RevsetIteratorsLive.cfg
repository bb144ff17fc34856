CONSTANTS
  N <- MCN
SPECIFICATION LiveSpec
PROPERTY Drains
