CONSTANTS
  Caller = {c1, c2}
  Norm = {n1}
  Date = {latest, dated}
  cacheMax = 1
  maxVersion = 2
  None = None
SPECIFICATION FairSpec
INVARIANTS
  TypeOK
  SingleFlight
  RightDocument
  MonotonicReads
  Revalidated
PROPERTIES
  CacheNeverRegresses
  EveryCallReturns
  ImplementsReads
