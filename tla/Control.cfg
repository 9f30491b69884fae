SPECIFICATION Spec
CONSTANTS
  MaxDepth = 2
  MaxFrames = 5
INVARIANT DepthExact
PROPERTY SignalsArrive
