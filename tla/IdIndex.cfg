CONSTANTS
  Digits <- MCDigits
  KeyLen <- MCKeyLen
  MaxEntries <- MCMaxEntries
SPECIFICATION Spec
INVARIANT ResolveMatchesRef
INVARIANT ShortestMatchesRef
