CONSTANTS
  Voters = {"a", "b"}
  Others = {"x"}
  Weight <- MCWeight
  Charging = {"a"}
  MaxUpdates = 1
  Rounds = 3
  Feeds = 1
  TotalPpm = 100
  FtsoThreshold = 80
  FuThreshold = 80
  FuConsideration = 20
  FdcThreshold = 60
  UptimeThreshold = 80
  MinSelfBond = 1
  MinDesiredSelfBond = 3
  MinDesiredStake = 15
  NodeLists <- MCNodeLists
SPECIFICATION ConditionsSpec
INVARIANTS SpotlessGainsPass AbsenceCostsPass
CHECK_DEADLOCK FALSE
