SPECIFICATION Spec
CONSTANTS
  Owner = owner
  Senders = {sender}
  Closers = {closer}
  OwnClient = own
  Clients = {own, resumed}
INVARIANTS
  ExitIsTruthful
  SenderToldTheTruth
PROPERTIES
  ClosedSessionIsFinal
