SPECIFICATION FairSpec
CONSTANTS
  Backoffs = 2
  PacketFrames = 2
  MaxFrames = 4
  MaxResults = 2
  MaxCancels = 1
INVARIANT FinalsOnce
INVARIANT ReconnectsAccounted
INVARIANT PushInsideConnection
PROPERTY LiveConnectionHears
PROPERTY CancelEndsPump
CHECK_DEADLOCK FALSE
