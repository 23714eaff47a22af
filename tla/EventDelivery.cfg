SPECIFICATION MCSpec
CONSTANTS
  N = 2
  Relays = {r1, r2}
  Consumers = {c1, c2}
  BatchSize = 2
  Prefetch = 2
  MaxFaults = 3
  Declared = {{}, {"exchange", "dlq", "queue"}}
  Stories = {"start", "again"}
INVARIANTS
  PublishedAccountedFor
  AppliedAtMostOnce
PROPERTIES
  EveryEventSettled
