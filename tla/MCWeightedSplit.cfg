CONSTANTS
  N = 3
  Weights <- MCWeights
  Pots <- MCPots
SPECIFICATION Spec
INVARIANTS TypeOK WeightCovers AtLeastFloor
PROPERTIES AtMostOnePerEarlierDraw Refines
CHECK_DEADLOCK FALSE
