SPECIFICATION BISpec
CONSTANTS
  Texts <- MCTexts
  Blank = ""
  Length <- MCLength
  Whitelist <- MCWhitelist
  MinChars = 2
  MinDuration = 2
  Trees <- MCTrees
  Campaigns <- MCCampaigns
  NoTree = NoTree
  LossyMax = 2
  MaxPartials = 3
  MaxFinals = 3
  MaxClock = 3
INVARIANTS
  NoBargeInMissed
  EarlyOnlyByLeftover
CHECK_DEADLOCK FALSE
