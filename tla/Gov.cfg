SPECIFICATION SourcesSpec
CONSTANTS
    s1 = s1
    h1 = h1
    h2 = h2
    Sources <- OneSource
    Hashes <- TwoHashes
    MaxVersions = 2
    CleanupOps = 1
    Modes <- BothModes
    Names = {"a", "b"}
    Texts = {"x", "y"}
    MaxOld = 2
    MaxPapers = 3
INVARIANTS
    OutcomeIsLast
    RetirementExact
    ActiveIsRight
    OneIngestPerContent
    ServedIsNewest
PROPERTIES
    CleanupEventuallyEnqueued
