CONSTANTS
  MaxRequests = 2
  MaxOpen = 2
  MaxEvents = 3
SPECIFICATION FairSpec
INVARIANTS
  DeliveredInOrder
  NoLostWakeup
PROPERTIES
  RequestsEnd
CHECK_DEADLOCK FALSE
