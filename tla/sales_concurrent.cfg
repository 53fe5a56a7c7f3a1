SPECIFICATION FairSpec
CONSTANTS
  a = a
  b = b
  c = c
  d = d
  e = e
  f = f
  main = main
  nobody = nobody
  Items <- MCItems
  Quantity <- MCQuantity
  Warehouses <- OneWarehouse
  Requests = {a, b, c}
  Menu <- BusyMenu
  Openings <- BusyOpenings
  MaxOpen = 2
  MaxRestock = 1
  Nobody = nobody
INVARIANTS
  ClaimBacked
PROPERTIES
  UnitsConserved
  EveryRequestEnds
