CONSTANTS
  WireId <- OneId
  MaxInt64 = 3
  QueueSize = 1
  AccessorsThrowSystemError = TRUE
  MaxInbox = 1
  MaxSends = 0
SPECIFICATION FairSpec
PROPERTY
  ReconnectsAfterDrop
