SPECIFICATION FairSpec
CONSTANTS
  Candidates = {main, persona}
  Main = main
  Phrases = {hm, well}
  JobMax = 2
  MaxSentences = 5
  MaxTurns = 2
INVARIANT ReplyInOrder
INVARIANT WholeReplySpoken
INVARIANT FillerExclusive
INVARIANT StreamsReleased
INVARIANT RemainderMissesOne
PROPERTY TurnEnds
CHECK_DEADLOCK FALSE
