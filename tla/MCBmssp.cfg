CONSTANTS
  N = 8
  Source = 0
  Weights = {0, 1}
  Graphs <- MCGraphs
  MaxLen = 27
  Add <- ExactAdd
  Params <- MCParams
SPECIFICATION FairSpec
CHECK_DEADLOCK FALSE
INVARIANTS
  SettledFinal
  ReturnComplete
  ChildrenDisjoint
  BatchBelow
  BaseSingle
  QueueAhead
  NothingLost
  FinalPreds
PROPERTIES
  LabelsImprove
  Termination
