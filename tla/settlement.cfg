SPECIFICATION Spec
CONSTANTS
  a = a
  b = b
  c = c
  d = d
  small = small
  large = large
  bill = bill
  twin = twin
  Invoices = {small, large, bill, twin}
  Terms <- MCTerms
  Limit = 3
  Requests = {a, b, c, d}
  Menu <- MCMenu
  Openings <- MCOpenings
  MaxOpen = 2
SYMMETRY Symmetry
INVARIANTS
  PaidIsAllocated
  BooksAgree
  OneOfTwinsPasses
PROPERTIES
  BlockedNotPaid
  CreditHeld
