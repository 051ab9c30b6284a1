SPECIFICATION Spec
CONSTANTS
    s1 = s1
    h1 = h1
    h2 = h2
    Sources <- OneSource
    Hashes <- OneHash
    MaxVersions = 1
    CleanupOps = 1
    Modes <- ReviewMode
PROPERTIES
    ReviewIsFinal
