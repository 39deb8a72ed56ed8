SPECIFICATION MCSpec
CONSTANTS
  Tab = {t1}
  MaxAmount = 2
  MaxSent = 3
  MaxReplaced = 1
INVARIANTS
  TypeOK
  SignsOnce
  DepositNotUndercut
  ResetsFirst
