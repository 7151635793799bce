SPECIFICATION Spec
CONSTANTS
  Copies <- SomeCopies
  MaxFaults = 3
  MaxDeaths = 1
INVARIANTS
  InStep
  Copied
PROPERTIES
  Ends
CHECK_DEADLOCK FALSE
