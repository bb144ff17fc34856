CONSTANTS
  N <- MCN
  MaxIds <- MCMaxIds
SPECIFICATION Spec
INVARIANT CommitsMatchesRef
