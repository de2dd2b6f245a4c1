SPECIFICATION MedianSpec
CONSTANTS
  PolicyOrder <- Order
  VotingWeights = {0, 1, 3}
  Reveals <- MCReveals
  FeedIndex = 2
  FeedSettings <- MCSettings
  Reward = 20
  SignBit = 8
  FullTurnout = 100
  TotalPpm = 10
CHECK_DEADLOCK FALSE
INVARIANTS RobustQuartiles Fip16Settles InnerShare EqualVotesPaidAlike
