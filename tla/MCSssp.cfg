CONSTANTS
  Inputs <- MCInputs
  Infinity = 9
  NaN = NaN
CHECK_DEADLOCK FALSE
SPECIFICATION FairSpec
INVARIANTS
  Distances
  PredsTight
  ConstantDegree
PROPERTY Termination
