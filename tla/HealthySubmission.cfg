SPECIFICATION TrackingSpec
CONSTANTS
  Tab = {t1, t2}
  r1 = r1
  Receipt = {r1}
  Time = {"t0"}
  Opening <- MCOpening
  Patch <- NoPatch
INVARIANT HealthyNotInterrupted
