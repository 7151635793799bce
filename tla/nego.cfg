SPECIFICATION Spec
CONSTANTS
  Options = {"ECHO", "SGA", "LINEMODE", "NAWS", "TTYPE", "NEW_ENVIRON", "OLD_ENVIRON", "TM", "BINARY", "AUTHENTICATION"}
  Autologin = TRUE
  HasDisplay = TRUE
  TelnetPort = TRUE
  Eight = {"will"}
  Commands <- UserCommands
  MaxCommands = 2
INVARIANTS
  TypeOK
  Announced
  Agreement
PROPERTIES
  StartupCompletes
  Settles
CHECK_DEADLOCK FALSE
