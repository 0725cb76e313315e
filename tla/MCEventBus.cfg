SPECIFICATION FairSpec
CONSTANTS
  HandlersOf <- SyncHandlers
  Bridges <- OneBridge
  Async <- StuckPartial
  Faulty <- FaultySibling
  LossyMax = 2
  MaxPosts = 4
INVARIANTS
  LosslessExactlyOnce
  DrainedWhenClosed
  LossyKeepsNewest
PROPERTIES
  LosslessEventuallyHandled
CHECK_DEADLOCK FALSE
