SPECIFICATION Spec
CONSTANTS
  a = a
  b = b
  c = c
  none = none
  x = x
  y = y
  Requests = {a, b, c}
  Bodies = {x, y}
  Outcomes = {"json", "error", "raise", "bytes"}
  MaxCrashes = 2
  None = none
INVARIANTS
  OneAtATime
  ReplaysTheEffect
  OrphanNeedsCrash
PROPERTIES
  NothingAfterStorable
