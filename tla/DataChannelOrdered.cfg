CONSTANTS
  MaxMessages = 2
  QueueSize = 1
  MaxInFlight = 2
SPECIFICATION Spec
PROPERTIES
  ReliableOrdered
CHECK_DEADLOCK FALSE
