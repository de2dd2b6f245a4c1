CONSTANTS
  Amounts <- MCAmounts
  CappedWeights <- MCCappedWeights
  Nodes = 3
  NodeWeightSet <- MCNodeWeights
  FeeBips = {0, 3, 10}
  CappedStakingFeeBips = 2
  TotalBips = 10
  StakeWeightMultiplier = 5
SPECIFICATION SplitSpec
INVARIANTS Conserved PenaltyFits StakersFloor
CHECK_DEADLOCK FALSE
