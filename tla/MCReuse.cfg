CONSTANTS
  Inputs <- MCInputs
  Infinity = 5
  NaN = NaN
  LeastCapacity = 4
  MaxCalls = 2
CHECK_DEADLOCK FALSE
SPECIFICATION Spec
INVARIANT WithinCapacity
