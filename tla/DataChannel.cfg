CONSTANTS
  MaxMessages = 2
  QueueSize = 1
  MaxInFlight = 2
SPECIFICATION Spec
INVARIANTS
  LostOnlyByOvertaking
  WholeUnlessShared
PROPERTIES
  ChannelOpens
  SentIsDelivered
CHECK_DEADLOCK FALSE
