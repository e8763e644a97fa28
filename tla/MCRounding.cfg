CONSTANTS
  N = 5
  Source = 0
  Big = 16
  Graphs <- MCGraphs
  MaxLen = 80
  Add <- AbsorbingAdd
  Params <- MCParams
SPECIFICATION Spec
CHECK_DEADLOCK FALSE
INVARIANT FinalDistances
