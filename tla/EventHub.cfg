SPECIFICATION FairSpec
CONSTANTS
  MaxConnections = 2
  Buffer = 2
  MaxToggles = 2
  MaxOthers = 2
  MaxBreaks = 1
INVARIANTS IInv InOrder
PROPERTIES SubscriptionReleased ToggleSettles
CHECK_DEADLOCK FALSE
