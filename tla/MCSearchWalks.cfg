CONSTANTS
  pageSize = 2
  maxPage = 3
  totalCap = 6
  defaultSize = 2
  maxSize = 3
  searchesMax = 2
  Initially = 16
  Docs <- MCDocs
  Asked <- MCAsked
  PageArg <- MCPageArg
  SizeArg <- MCSizeArg
SPECIFICATION Spec
INVARIANTS NothingSkipped NothingTwice HintsAccepted ListedIsOpened
CHECK_DEADLOCK FALSE
