CONSTANTS
  MaxDocument = 8
  MaxRaw = 4
  MaxPiece = 7
  Rune <- MCRune
  Newline = "nl"
  Texts <- MCDocuments
  Budgets = {0}
  Parts <- MCParts
  Queries <- MCQueries
  MaxContentChars = 4
  paragraphMargin = 2
  snippetBefore = 1
  snippetAfter = 2
  snippetMargin = 2
  snippetMaxHard = 6
SPECIFICATION TextSpec
INVARIANTS
  PartsWithinBudget
CHECK_DEADLOCK FALSE
