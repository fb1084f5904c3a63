SPECIFICATION FairPaging
CONSTANTS
  Invoices <- MCInvoices
  LastDate = 3
  PageSize = 2
  Limit = 3
  StartOffsets = {0, 1}
  Zones <- MCZones
  MaxArrivals = 1
INVARIANTS
  PagingTypeOK
  NothingIsMissed
  OnlyBoundariesRepeat
  StallIsDue
PROPERTIES
  IterationEnds
