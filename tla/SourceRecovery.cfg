SPECIFICATION Spec
CONSTANTS
  Nonce <- MCNonce
  MaxBlock <- MCMaxBlock
  MaxCount <- MCMaxCount
INVARIANTS
  TypeOK
  FirstCrossing
  TruthfulResolution
  ReadsStayRecent
  LogarithmicReads
CHECK_DEADLOCK FALSE
