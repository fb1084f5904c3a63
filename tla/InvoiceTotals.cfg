SPECIFICATION TotalsSpec
CONSTANTS
  None = None
  Inputs <- MCInputs
  InvoiceKinds = {"VAT", "ZAL"}
  ExchangeRates = {433}
  MaxLines = 3
  MaxDocuments = 2
INVARIANTS
  TotalsTypeOK
  LedgerFollowsLines
  BucketsMakeUpTheTotal
  RefusalIsKnown
PROPERTIES
  ReadsBackTheSame
  OnlyRegimesAreLost
CHECK_DEADLOCK FALSE
