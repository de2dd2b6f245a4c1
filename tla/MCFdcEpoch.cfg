SPECIFICATION Spec
CONSTANTS
  PolicyOrder <- Order
  PolicyWeight <- Weight
  Rounds = 2
  RevealDeadline = 1
  GracePeriodEnd = 2
  EpochEnd = 4
  BitVoteHistories <- BitVotes
  SignatureHistories <- Sigs
  OtherSignatures <- OtherSigs
  Finalities <- Seconds
  RequestLists <- Requested
  Inflations <- Offers
  FinalizationBips = 1000
  FireFeeSplitBips = 3000
  TotalBips = 10000
  BurnPpm = 200000
  TotalPpm = 1000000
  PenaltyFactor = 30
CHECK_DEADLOCK FALSE
INVARIANTS FdcConserved MajorityDecides FollowerPaid PenalisedForCause
