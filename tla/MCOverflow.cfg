CONSTANTS
  Inputs <- MCInputs
  Infinity = 9
  NaN = NaN
CHECK_DEADLOCK FALSE
SPECIFICATION Spec
INVARIANT NoneAtInfinity
