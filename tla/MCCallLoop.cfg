SPECIFICATION FairSpec
CONSTANTS
  MaxActivations = 2
  MaxInterruptions = 2
  ListenOnly = TRUE
  AutoRestructure = TRUE
  MaxRestructures = 1
  TransferLlm = TRUE
  WrapUpReferee = TRUE
  MaxRounds = 2
  MaxUtterances = 5
  MaxPartials = 4
INVARIANT ConversationBounded
INVARIANT NoFinalLost
INVARIANT OneRoundAfterHangup
PROPERTY LegalLifecycle
PROPERTY QuietCallEnds
CHECK_DEADLOCK FALSE
