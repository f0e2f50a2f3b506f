CONSTANTS
  WireId <- SmallIds
  MaxInt64 = 3
  QueueSize = 1
  AccessorsThrowSystemError = TRUE
  MaxInbox = 2
  MaxSends = 1
SPECIFICATION FairSpec
INVARIANT
  NoClientForgotten
PROPERTIES
  ArrivalsGetConnected
  EstablishesLink
  SendsAreHandled
