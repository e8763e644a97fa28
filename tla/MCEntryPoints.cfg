CONSTANTS
  Methods <- MCMethods
  Variants = {"fast", "hybrid"}
  SourceLists <- MCSourceLists
  Arrays <- MCArrays
  Infinity = 9
  NaN = NaN
  MaxCalls = 1
SPECIFICATION FairSpec
CHECK_DEADLOCK FALSE
INVARIANT RowsAgree
PROPERTIES
  ImplementsElsewhere
  Termination
