CONSTANTS
  Caller = {c1, c2}
  dictamenes = dictamenes
  search = search
  i1 = i1
  i2 = i2
  Family <- MCFamily
  Query <- MCQuery
  cacheMaxOf <- MCCacheMaxOf
  Heavy <- MCHeavy
  maxVersion = 2
  None = None
SPECIFICATION FairSpec
INVARIANTS
  RightAnswer
  ReadsGoForward
PROPERTIES
  CachesAreLru
  EveryCallReturns
