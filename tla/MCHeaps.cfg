CONSTANTS
  N = 4
  Levels = 2
  M = 2
  B = 8
  MaxCopies = 2
  Vertex <- MCVertex
  Label <- MCLabel
  VertexOf <- MCVertexOf
  Keys = 7
  Entry <- MCEntry
  KeyOf <- MCKeyOf
  Nothing = 0
SPECIFICATION MCSpec
INVARIANTS
  LiveInHeap
  EachOnce
  HeapOrdered
PROPERTIES
  Implements
  ImplementsMinQueue
