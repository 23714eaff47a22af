SPECIFICATION MCSpec
CONSTANTS
  Reads = {1, 2, 3}
  MaxWaits = 2
  MaxWrites = 1
  MaxFaults = 1
  NoRead = NoRead
  Nothing = Nothing
  Failed = Failed
  Calls = {c1, c2, c3, c4}
  InitialBalance = 10
  Increment = 3
  MaxRetries = 3
  NoCall = NoCall
INVARIANTS
  LockKeptByItsOwner
  OneLoadUnlessDisturbed
  EveryIncrementCounted
  NobodyExhausted
PROPERTIES
  StaleValueGoes
  EveryReadEnds
  EveryCallEnds
CHECK_DEADLOCK FALSE
