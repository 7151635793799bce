SPECIFICATION Spec
CONSTANTS
  Settings <- AllSettings
  Commands <- EncryptCommands
  MaxCommands = 3
INVARIANTS
  Readable
PROPERTIES
  AutoEncrypts
  WaitEnds
CHECK_DEADLOCK FALSE
