SPECIFICATION FairSpec
CONSTANTS
  a = a
  b = b
  nobody = nobody
  Rows <- MCRows
  Requests = {a, b}
  Calls <- MCCalls
  Openings <- MCOpenings
  Nobody = nobody
INVARIANTS
  ChecksOnlyForDirectIssue
  LedgerExact
  ReservedRebuilt
  WaitsClimb
PROPERTIES
  RefinesStock
  EveryRequestEnds
