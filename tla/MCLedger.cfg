CONSTANTS
  RawClaims <- MCRawClaims
  MaxClaims = 4
  BurnAddress = "burn"
  Voters <- MCVoters
  AddressesOf <- MCAddressesOf
  Passes <- MCPasses
  PassDeltas <- MCPassDeltas
SPECIFICATION Spec
INVARIANTS OrderIndependent NoPanic MetKeepsRewards
CHECK_DEADLOCK FALSE
