SPECIFICATION Spec
CONSTANTS
  Tasks = {token, xades}
  TokenTasks = {token}
  cert1 = cert1
  cert2 = cert2
  Certificates = {cert1, cert2}
  PublishedFrom <- MCPublishedFrom
  ValidFrom <- MCValidFrom
  ValidTo <- MCValidTo
  Overlap = 1
  MaxTime = 2
  MaxAttempts = 3
  NoList = NoList
INVARIANTS
  RefusalIsExplained
  FailureLeavesNoPair
PROPERTIES
  OnlyOldListsFail
CHECK_DEADLOCK FALSE
