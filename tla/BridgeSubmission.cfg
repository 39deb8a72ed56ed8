SPECIFICATION MCSpec
CONSTANTS
  usdc = usdc
  eth = eth
  e1 = e1
  m1 = m1
  Symbol = {usdc, eth}
  Deposited = usdc
  Price <- MCPrice
  TokenScale = 2
  CapUsd <- MCCapUsd
  Evm = {e1, e2}
  Miden = {m1, m2}
  None = None
  Amount = {100, 200}
  Holdings <- MCHoldings
  Cost = {1, 2}
  Lifetime = 2
  CircleLifetime = {1, 3}
  Headroom = 1
  MaxChanges = 2
INVARIANTS
  TypeOK
  ReceiptPerBroadcast
PROPERTIES
  CapHolds
  StartsOnLiveQuote
  SignsReviewed
  BurnsInWindow
  WarnsOnceBroadcast
  SubmissionEnds
