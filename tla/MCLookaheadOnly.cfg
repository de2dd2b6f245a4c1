CONSTANTS
  LastEpoch = 3
  EpochRounds = 2
  RoundSeconds = 1
  PolicyWindow = 2
  LastSecond = 7
  PolicyOrder <- MCPolicyOrder
  InflationFeeds <- MCInflationFeeds
  OfferBatches <- MCOfferBatches
  Fees = {2}
  MaxPayments = 1
  FccActivationEpoch = 1
  SearchEpochs = 2
  PolicySearchEpochs = 2
  ExtraWindow = 1
  FutureSecureRandomWindow = 0
  Fip16Epoch = 2
SPECIFICATION EpochsSpec
INVARIANT LookaheadOnly
CHECK_DEADLOCK FALSE
