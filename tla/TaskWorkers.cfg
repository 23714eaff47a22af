SPECIFICATION Spec
CONSTANTS
  u1 = u1
  u2 = u2
  lamp = lamp
  desk = desk
  Checkouts = {1, 2, 3}
  Users = {u1, u2}
  Products = {lamp, desk}
  Requests <- MCRequests
  Price <- MCPrice
  InitStock <- MCStock
  InitBalance <- MCBalance
  MaxFaults = 2
  Workers = {w1, w2}
  NoTask = NoTask
INVARIANTS
  ReturnedIsComplete
  ProcessedOnce
PROPERTIES
  ImplementsAtomicPurchase
  EverythingEnds
CHECK_DEADLOCK FALSE
