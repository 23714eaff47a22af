SPECIFICATION MCSpec
CONSTANTS
  pen = pen
  retired = retired
  Requests = {1, 2, 3}
  k1 = k1
  k2 = k2
  Keys <- MCKeys
  BlankKey = BlankKey
  Bodies <- MCBodies
  Products <- MCProducts
  Active <- MCActive
  Prices = {1, 2}
  InitialPrices <- MCInitialPrices
  Statuses = {"created", "paid"}
  Created = "created"
  PoolSize = 2
  MaxPriceChanges = 1
  MaxFaults = 1
  NoRequest = NoRequest
  NoRow = NoRow
  Unlinked = Unlinked
  NoAnswer = NoAnswer
  BadRequest = BadRequest
  Failed = Failed
INVARIANTS
  TypeOK
  OneOrderPerKey
  KeyNamesItsOrder
  SameKeySameOrder
  TotalMatchesLinesUnlessRepriced
PROPERTIES
  ImplementsIdempotentOrders
  EveryRequestAnswered
CHECK_DEADLOCK FALSE
