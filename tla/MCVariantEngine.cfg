CONSTANTS
  N = 5
  Source = 0
  Weights = {0, 1}
  Graphs <- MCGraphs
  MaxLen = 5
  Add <- ExactAdd
  Params <- MCParams
SPECIFICATION EngineSpec
CHECK_DEADLOCK FALSE
INVARIANTS
  ReturnComplete
  OracleTakesAll
  FinalDistances
  RescanIdle
  CopiesBounded
