CONSTANTS
  Caller = {c1, c2}
  Norm = {n1, n2}
  cacheMax = 1
  maxVersion = 3
SPECIFICATION Spec
INVARIANTS
  AnswerInForce
PROPERTIES
  ImplementsReads
