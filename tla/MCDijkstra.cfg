CONSTANTS
  Inputs <- MCInputs
  Infinity = 5
  NaN = NaN
  LeastCapacity = 0
  MaxCalls = 1
CHECK_DEADLOCK FALSE
SPECIFICATION FairSpec
INVARIANTS
  InBounds
  WithinCapacity
  FinalDistances
  PredTree
  Certificate
PROPERTY Termination
