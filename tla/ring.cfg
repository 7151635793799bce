SPECIFICATION Spec
CONSTANTS
  Size = 7
CONSTRAINT
  BeforeOverrun
INVARIANTS
  TypeOK
  Sendable
  MarkIsAhead
PROPERTIES
  ImplementsStream
