SPECIFICATION FairSpec
CONSTANTS
  Account = {a, b, c}
  None = None
  Foreign = {c}
  MaxCommands = 2
  MaxEvents = 2
INVARIANTS
  TypeOK
  StaysForgotten
  NobodyWhileDisconnecting
PROPERTIES
  ServesOneOwner
  AsksForOwner
  WaitsEnd
CHECK_DEADLOCK FALSE
