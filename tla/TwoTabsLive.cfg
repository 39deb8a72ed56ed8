SPECIFICATION LiveSpec
CONSTANTS
  Tab = {t1, t2}
  r1 = r1
  Receipt = {r1}
  Time = {"t0"}
  Opening <- AgglayerOpening
  Patch <- NoPatch
PROPERTY
  EventuallySettled
