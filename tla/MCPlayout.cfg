SPECIFICATION FairSpec
CONSTANTS
  Capacity = 4
  FadeFrames = 2
  MaxUtterances = 3
  MaxFrames = 5
INVARIANT PlaybackComplete
INVARIANT CutIsFaded
PROPERTY FeedEndsWhileOpen
CHECK_DEADLOCK FALSE
