SPECIFICATION Spec
CONSTANTS
  a = a
  b = b
  c = c
  d = d
  e = e
  f = f
  Requests = {a, b, c}
  Asks <- DelegateAndApprove
  MaxOpen = 1
  MaxRows = 3
INVARIANTS
  ApprovableWhenLowerApproved
