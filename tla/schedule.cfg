SPECIFICATION MCSpec
CONSTANTS
    Windows <- MixedWindows
    Modes = {"now", "idle"}
    Images = {TRUE, FALSE}
    Failures = TRUE
    Ops = {"crash", "bootstrap"}
    MaxQueue = 2
    MaxRequests = 2
    MaxTime = 4
    MaxRestarts = 1
INVARIANTS NotEarly ListsConsistent NothingLost
PROPERTIES SleptForIsDone
CHECK_DEADLOCK FALSE
