CONSTANTS
  MaxDocument = 8
  MaxRaw = 4
  MaxPiece = 7
  Rune <- MCRune
  Newline = "nl"
  Texts <- MCTexts
  Budgets <- MCBudgets
  Parts <- MCParts
  Queries <- MCQueries
  MaxContentChars = 3
  paragraphMargin = 3
  snippetBefore = 1
  snippetAfter = 2
  snippetMargin = 2
  snippetMaxHard = 6
SPECIFICATION FairTextSpec
INVARIANTS
  PartsTile
  CutsAtParagraph
  ServedPagesFit
  OnlyNoiseGoes
  SnippetShowsMatch
PROPERTIES
  EveryRequestAnswered
CHECK_DEADLOCK FALSE
