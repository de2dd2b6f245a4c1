CONSTANTS
  StartRound = 1
  EndRound = 3
  WindowEnd = 5
  Draws = {0, 1}
  TotalRewards = {7}
  FuRewards = {5, 9}
  OrderedFeeds <- MCOrderedFeeds
  Decimals <- MCDecimals
  FeedConfigs <- MCFeedConfigs
  TotalPPM = 100
  OldToNewFeed <- MCOldToNewFeed
  SigningBips = 1
  FinalizationBips = 2
  TotalBips = 10
  Logs <- MCLogs
  Medians <- MCMedians
  Registered = {"a", "b"}
  Faults <- MCFaults
SPECIFICATION Spec
INVARIANT FuConserved
CHECK_DEADLOCK FALSE
