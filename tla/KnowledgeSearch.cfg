SPECIFICATION SearchSpec
CONSTANTS
    d1 = d1
    c1 = c1
    None = none
    Documents = {d1}
    Rewritten = {d1}
    Contents <- AllContents
    CollectionOf <- Home
    Rounds <- OneOrTwoCalls
    MaxTokens = 2
    ResultLimit = 2
    MaxCharacters = 4
    HeaderSize = 1
    MaxVersions = 2
    MaxQueries = 2
INVARIANTS
    SearchTypeOK
    EvidenceWasShown
    NoStaleEvidence
    EvidenceIsOfItsSection
    CitationOpens
CHECK_DEADLOCK FALSE
