SPECIFICATION Spec
CONSTANTS
  a = a
  b = b
  c = c
  d = d
  e = e
  bolts = bolts
  tiles = tiles
  pipes = pipes
  acme = acme
  zenith = zenith
  Products <- MCProducts
  Suppliers <- TwoSuppliers
  Offers <- MCOffers
  Rows <- MCRows
  Waiting <- MCWaiting
  Requests = {a, b, c, d, e}
  Menu <- MCMenu
  Openings <- MCOpenings
  MaxOpen = 2
SYMMETRY Symmetry
INVARIANTS
  ReceivedMeansAll
  ReceiptFollowsApproval
  ConvertedCovers
  BoughtTwiceNeedsOverlap
  OverReceiptNeedsOverlap
  OneDecision
