SPECIFICATION Spec
CONSTANTS
  Sessions = {1, 2}
  Users = {"u"}
  MaxAttempts = 2
  Kinds <- SomeKinds
  Lines = {14}
  Console = 1
  TicketsOn = {TRUE, FALSE}
INVARIANTS
  Recorded
  Cleared
  Credentials
PROPERTIES
  HangsUp
CHECK_DEADLOCK FALSE
