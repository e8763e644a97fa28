CONSTANTS
  N = 4
  Levels = 2
  M = 2
  B = 8
  MaxItems = 6
  Vertex <- MCVertex
  Label <- MCLabel
  VertexOf <- MCVertexOf
SPECIFICATION MCSpec
INVARIANTS
  RegistryCoherent
  BlocksOrdered
  BoundsSeparate
  SizesBounded
  Selects
PROPERTIES
  Implements
  Termination
