SPECIFICATION Spec
CONSTANTS
  Requests <- SomeRequests
  Commands <- SomeCommands
  Pipe = 1
  MaxInput = 3
  MaxSignals = 1
INVARIANTS
  Agree
  OutputWhole
PROPERTIES
  Ends
CHECK_DEADLOCK FALSE
