SPECIFICATION LiveSpec
CONSTANTS
    w1 = w1
    c1 = c1
    TaskCount = 1
    Workers <- OneWorker
    Clis <- OneCli
    RetryDelays <- Ladder2
    ClaimTimeout = 1
    StageCount = 2
INVARIANTS
    TypeOK
    DocumentMirrorsTask
    DeadLetterExact
    AttemptLedger
    ClaimExclusive
PROPERTIES
    SubmissionSettles
    KeepsContract
    NoStolenClaim
