SPECIFICATION FairSpec
CONSTANTS
  RingCap = 3
  InboundCap = 2
  DrainMax = 2
  Hangover = 1
  Quiet = {1, 3, 5}
  Foreign = {4}
  MaxFrames = 5
  MaxResults = 2
INVARIANT InboundFaithful
INVARIANT GateSparesSpeech
INVARIANT EngineLifetime
PROPERTY IteratorsEnd
PROPERTY CloseReturns
CHECK_DEADLOCK FALSE
