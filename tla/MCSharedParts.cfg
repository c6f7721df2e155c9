CONSTANTS
  k1 = k1
  k2 = k2
  k3 = k3
  k4 = k4
  k5 = k5
  e1 = e1
  e2 = e2
  c1 = c1
  c2 = c2
  r1 = r1
  r2 = r2
  r3 = r3
  Key <- MCKey
  Entry <- MCEntry
  cacheMax = 3
  Callers <- MCCallers
  attempts = 2
  FailureThreshold = 3
  SuccessThreshold = 2
  Request <- MCRequest
SPECIFICATION PartSpec
CHECK_DEADLOCK FALSE
INVARIANTS
  CacheCoherent LruGuarantee LatestValue HonestAnswers ServerExitsCleanly
PROPERTIES
  EveryCallEnds Recovers NoNewWorkInShutdown SignalEndsProcess
