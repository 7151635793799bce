SPECIFICATION StartSpec
CONSTANTS
  Mechanisms <- Table
  MaxFails = 3
  MaxAlarms = 1
  MaxConnections = 2
  Terminals <- SomeTerminals
  Known <- SomeKnown
INVARIANTS
  Agree
  Forwarded
PROPERTIES
  Starts
CHECK_DEADLOCK FALSE
