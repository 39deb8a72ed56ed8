SPECIFICATION MCFairSpec
CONSTANTS
  Tab = {t1}
  MaxAmount = 2
  MaxSent = 2
  MaxReplaced = 1
PROPERTIES
  LetsGo
