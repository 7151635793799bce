SPECIFICATION Spec
CONSTANTS
  Persons <- Both
  Queue = 2
  Window = 1
CHECK_DEADLOCK FALSE
INVARIANTS
  
  Delivered
PROPERTIES
  Ends
