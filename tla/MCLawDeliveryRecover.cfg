CONSTANTS
    maxListedChildren = 1
    maxTOCLines = 2
    MaxContentChars = 30
    maxResults = 2
    MaxMaps = 1
    MaxSections = 3
    MaxPlainSections = 4
    Norms <- MCNorms
    SectionIds <- MCSectionIds
SPECIFICATION Spec
INVARIANT
    EveryOmissionRecoverable
CHECK_DEADLOCK FALSE
