CONSTANTS
  WireId <- IdsOfAllKinds
  MaxInt64 = 3
  QueueSize = 1
  AccessorsThrowSystemError = TRUE
  MaxInbox = 2
  MaxSends = 2
SPECIFICATION Spec
INVARIANTS
  LinkTypeOK
  InOrder
  PendingAreConnected
  HeldUpByAFullChannel
