SPECIFICATION Spec
CONSTANTS
  None = None
  Empty = Empty
  WarsawOffset = 1
  HwmDate = 25
  t1 = t1
  t2 = t2
  f1 = f1
  f2 = f2
  hidden = hidden
  Tasks = {t1, t2}
  Files = {f1, f2}
  Unnameable = {hidden}
  Asks <- MCAsks
  Invoices <- MCInvoices
  Layouts <- MCLayouts
  MaxExports = 2
INVARIANTS
  HandlesOpenTheirExports
  
  ReturnedIsThePackage
  FilesHoldTheParts
CHECK_DEADLOCK FALSE
SYMMETRY TasksAreAlike
