SPECIFICATION Spec
CONSTANTS
  Size = 8
  Slop = 1
CONSTRAINT
  NotSpoilt
INVARIANTS
  ClearFrontier
PROPERTIES
  ImplementsStream
