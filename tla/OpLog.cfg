CONSTANTS
  i1 = i1
  i2 = i2
  p1 = p1
  p2 = p2
  Items <- MCItems
  Procs <- MCProcs
  MaxOps <- MCMaxOps
SYMMETRY MCSymmetry
SPECIFICATION Spec
INVARIANT TypeOK
INVARIANT UndoneAtHead
CHECK_DEADLOCK FALSE
