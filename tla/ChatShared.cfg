SPECIFICATION ChatDeskSpec
CONSTANTS
    r1 = r1
    r2 = r2
    i1 = i1
    i2 = i2
    None = None
    Earlier = Earlier
    Backlog = 1
    Runs <- TwoRuns
    RunIds <- TwoIds
    Window = 2
    Asks <- SomeAsks
    Envs <- SomeEnvs
    Sessions = {"s"}
    AnswerRuns = {"r"}
    MaxVisits = 3
    MaxClock = 1
INVARIANTS
    OneOwnerOneStory
    SummaryExact
    TraceIsExact
PROPERTIES
    CompletedIsSaved
    NoLateEffect
    StreamEnds
CHECK_DEADLOCK FALSE
