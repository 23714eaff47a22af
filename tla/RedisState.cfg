SPECIFICATION MCSpec
CONSTANTS
  MaxTime = 7
  Instances = {1, 2}
  Skew <- MCSkew
  MaxSkew = 1
  MaxDelay = 1
  Limit = 2
  Window = 4
  Second = 2
  MaxChecks = 4
  MaxLost = 1
  Ids = {s1, s2}
  Readers = {g1, g2}
  Ttl = 2
  NoSession = NoSession
INVARIANTS
  WindowRespected
  RefusedOnlyWhenFull
  RetryAfterSuffices
  EndedStaysEnded
CHECK_DEADLOCK FALSE
