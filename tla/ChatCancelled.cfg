SPECIFICATION Spec
CONSTANTS
    r1 = r1
    r2 = r2
    i1 = i1
    i2 = i2
    None = None
    Earlier = Earlier
    Backlog = 1
    Runs <- TwoRuns
    RunIds <- TwoIds
    Window = 2
INVARIANTS
    CancelledIsNotSaved
CHECK_DEADLOCK FALSE
