SPECIFICATION Spec
CONSTANTS
  a = a
  b = b
  c = c
  d = d
  e = e
  f = f
  Requests = {a, b, c, d, e}
  Asks <- MCAsks
  MaxOpen = 1
  MaxRows = 4
SYMMETRY Symmetry
INVARIANTS
  OneLiveRowPerLevel
  ApprovedBottomUp
  RejectionCascades
PROPERTIES
  DecisionsAreFinal
