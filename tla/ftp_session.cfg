SPECIFICATION Spec
CONSTANTS
  Names <- MCNames
  Accounts <- MCAccounts
  Denied <- MCDenied
  KUserOK <- MCKUserOK
  MaxRounds = 1
  Typed <- MCTyped
  Quoted <- MCQuoted
  Ordinary <- MCOrdinary
  MaxSlip = 0
  MaxTurns = 5
  Setups <- MCSetups
CHECK_DEADLOCK FALSE
INVARIANTS
  InStep
  Identity
  LevelsAgree
