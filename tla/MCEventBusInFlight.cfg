SPECIFICATION Spec
CONSTANTS
  HandlersOf <- TwoHandlers
  Bridges <- BothAwait
  Async <- BothAwait
  Faulty = {}
  LossyMax = 1
  MaxPosts = 3
INVARIANTS
  LossOnlyInFlight
CHECK_DEADLOCK FALSE
