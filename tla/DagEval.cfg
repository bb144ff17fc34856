CONSTANTS
  N <- MCN
SPECIFICATION Spec
INVARIANT DagRangeMatchesRef
INVARIANT RootsMatchesRef
INVARIANT ChildrenMatchesRef
