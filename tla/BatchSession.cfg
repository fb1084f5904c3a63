SPECIFICATION Spec
CONSTANTS
  Owner = owner
  Closers = {closer}
  OwnClient = own
  Clients = {own, resumed}
  PackageSize = 3
  MaxPartSize = 2
  MaxUploads = 2
INVARIANTS
  SubmittedIsProcessing
  RefusedUploadIsNotProcessed
  ProcessedIsThePackage
