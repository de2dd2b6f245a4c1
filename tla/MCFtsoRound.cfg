CONSTANTS
  Voters = {"v1", "v2"}
  Others = {"x"}
  EpochStart = 1
  RevealDeadline = 1
  QueryFrom = 1
  GracePeriodSignatures = 1
  GracePeriodFinalization = 0
  EpochEnd = 3
  LastSecond = 4
  MaxMessages = 3
  MaxOfAKind = 2
  SignerWeight <- MCSignerWeight
  Threshold = 1
  RelayCalls <- MCRelayCalls
  PolicyOrder <- MCPolicyOrder
  PolicyWeight <- MCPolicyWeight
  SigningPart = 5
  FinalizationPart = 5
  RoundReward = 20
  PenaltyWeight <- MCPolicyWeight
  PenaltyFactor = 30
  Outcomes <- MCOutcomes
SPECIFICATION Spec
INVARIANTS RoundConserved PaidOnlyIfDeserved HonestGetsShare EqualShares FirstCallerPaid EnoughSigners
CHECK_DEADLOCK FALSE
