SPECIFICATION MCSpec
CONSTANTS
  pen = pen
  retired = retired
  Requests = {1, 2, 3}
  k1 = k1
  k2 = k2
  Keys <- MCKeys
  BlankKey = BlankKey
  Bodies <- MCTwoBodies
  Products <- MCProducts
  Active <- MCActive
  Prices = {1, 2}
  InitialPrices <- MCInitialPrices
  Statuses = {"created", "paid"}
  Created = "created"
  PoolSize = 2
  MaxPriceChanges = 0
  MaxFaults = 0
  NoRequest = NoRequest
  NoRow = NoRow
  Unlinked = Unlinked
  NoAnswer = NoAnswer
  BadRequest = BadRequest
  Failed = Failed
INVARIANT ReplayReturnsOriginalResponse
CHECK_DEADLOCK FALSE
