SPECIFICATION TotalsSpec
CONSTANTS
  None = None
  Inputs <- MCInputs
  InvoiceKinds = {"VAT", "ZAL"}
  ExchangeRates = {433}
  MaxLines = 2
  MaxDocuments = 2
INVARIANTS
  PlnVatIsConverted
CHECK_DEADLOCK FALSE
