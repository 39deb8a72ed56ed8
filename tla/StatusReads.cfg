SPECIFICATION Spec
CHECK_DEADLOCK FALSE
CONSTANTS
  None = None
  MaxProviders = 4
  RequestLimit = 8
  Budget = 24
  BrowserLimit = 30
  PageSize = 2
  MaxPages = 4
  MaxRows = 6
INVARIANTS
  InTimeForBrowser
  TrueReports
  FindsTheDeposit
