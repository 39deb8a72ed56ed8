SPECIFICATION Spec
CONSTANTS
  Tab = {t1, t2}
  r1 = r1
  r2 = r2
  Receipt = {r1, r2}
  Time = {"t0", "t1"}
  Opening <- MCOpening
  Patch <- MCPatch
PROPERTY DestinationStampedOnce
