SPECIFICATION MCSpec
CONSTANTS
  o1 = o1
  o2 = o2
  c1 = c1
  s1 = s1
  anna = anna
  ben = ben
  Orders = {o1, o2}
  Statuses = {"created", "paid"}
  Created = "created"
  Updates = {1, 2, 3}
  Clients = {c1}
  Watched <- MCWatched
  Connections = {1, 2}
  MaxBuffered = 1
  MaxRestarts = 1
  NoClient = NoClient
  Sockets = {s1}
  Reader <- MCReader
  Owner <- MCOwner
INVARIANTS
  StreamInOrder
  CaughtUp
  SettledStatusIsAnnounced
  RoomsHearTheirOrders
PROPERTIES
  SubscriptionsEndUnlessClosedEarly
CHECK_DEADLOCK FALSE
