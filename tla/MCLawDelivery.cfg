CONSTANTS
    maxListedChildren = 1
    maxTOCLines = 2
    MaxContentChars = 30
    maxResults = 2
    MaxMaps = 1
    MaxSections = 3
    MaxPlainSections = 4
    Norms <- MCNorms
    SectionIds <- MCSectionIds
SPECIFICATION Spec
INVARIANTS
    AnswersAgree
    DeliveredWhole
    ArticlesLocated
    NothingLost
    SearchIsOrdered
CHECK_DEADLOCK FALSE
