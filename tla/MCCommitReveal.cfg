CONSTANTS
  Accounts = {"a", "b"}
  LastRound = 2
  Registered <- MCRegistered
  Random = {0, 1}
  RandomMod = 2
  BenchingWindow = 1
  MinCount = 1
SPECIFICATION Spec
INVARIANTS SecureIsCommitted SpoilsOncePerWindow
PROPERTY SettledBeforeReveals
CHECK_DEADLOCK FALSE
