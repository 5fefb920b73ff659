SPECIFICATION PairSpec
CONSTANTS
  NumVideos = 4
  NumCommunities = 2
  MaxPerCommunity = 4
  MaxTranscripts = 3
  MaxPairs = 2
  FetchBudget = 2
  MaxSweeps = 3
INVARIANTS NoSelfPair
CHECK_DEADLOCK FALSE
