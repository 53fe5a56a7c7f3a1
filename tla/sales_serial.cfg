SPECIFICATION Spec
CONSTANTS
  a = a
  b = b
  c = c
  d = d
  e = e
  f = f
  main = main
  nobody = nobody
  Items <- MCItems
  Quantity <- MCQuantity
  Warehouses <- OneWarehouse
  Requests = {a, b, c, d, e, f}
  Menu <- SerialMenu
  Openings <- SerialOpenings
  MaxOpen = 1
  MaxRestock = 2
  Nobody = nobody
SYMMETRY Symmetry
INVARIANTS
  ClaimExact
  OthersKeepTheirs
  StatusTells
