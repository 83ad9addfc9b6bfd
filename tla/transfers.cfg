SPECIFICATION MCSpec
CONSTANTS
    Kinds = {"download", "upload"}
    Keys = {"a"}
    Delays = {0, 1}
    Ops = {"cancel", "bootstrap", "crash"}
    Grace = 1
    MaxQueue = 2
    MaxRequests = 2
    MaxTime = 4
    MaxRestarts = 1
    Scenarios <- SafetyScenarios
INVARIANTS ListsConsistent NothingLost CancelSticks
CHECK_DEADLOCK FALSE
