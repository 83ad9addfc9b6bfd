SPECIFICATION MCFairSpec
CONSTANTS
    Kinds = {"download"}
    Keys = {"a"}
    Delays = {0, 1}
    Ops = {"bootstrap", "crash"}
    Grace = 1
    MaxQueue = 1
    MaxRequests = 2
    MaxTime = 3
    MaxRestarts = 1
    Scenarios <- LiveScenarios
PROPERTIES SleptForIsDone RemovalEnds
CHECK_DEADLOCK FALSE
