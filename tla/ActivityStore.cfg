SPECIFICATION Spec
CONSTANTS
  Tab = {t1, t2}
  r1 = r1
  r2 = r2
  Receipt = {r1, r2}
  Time = {"t0"}
  Opening <- MCOpening
  Patch <- MCPatch
SYMMETRY Symmetric
INVARIANTS
  TypeOK
  SavedIsDurable
  UnsavedSurvivesReplay
  ReadIsLossless
PROPERTY LedgerRefined
