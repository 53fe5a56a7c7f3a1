SPECIFICATION FiguresSpec
CONSTANTS
  Products <- MCProducts
  Documents <- MCDocuments
  Amounts <- MCAmounts
  HsnCodes <- MCHsnCodes
  Quotes <- MCQuotes
  Splits <- MCSplits
  Dues <- MCDues
  Markets <- MCMarkets
INVARIANTS
  ApprovedMeansAgreed
  FurtherIsNoBetter
  ColumnsAddUp
  BilledAsQuoted
  OldestFirst
  WorseIsNotBest
