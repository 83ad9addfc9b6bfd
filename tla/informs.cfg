SPECIFICATION FairSpec
CONSTANTS
    Keys = {"a"}
    Delays = {0, 1, 2}
    Ops = {"bootstrap", "crash"}
    MaxQueue = 2
    MaxRequests = 3
    MaxTime = 4
    MaxRestarts = 1
INVARIANTS ListConsistent
PROPERTIES SleptForIsDone
CHECK_DEADLOCK FALSE
