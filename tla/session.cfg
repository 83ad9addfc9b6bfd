SPECIFICATION Spec
CONSTANTS
    CmdKey = {"k1"}
    Param = {}
    MAX_INT_ID = 100
    Sid = {s1, s2, s3}
    NULL = NULL
    Url = {"a", "b"}
    FirstUrl = "a"
    Source = {"periodic", "cr"}
    InformCode = {}
    TransferCode = {14, 17}
    MaxId = 5
    MaxRpcs = 3
    MaxReq = 1
    MaxRetry = 1
    MaxRestarts = 1
ACTION_CONSTRAINT Lives
CHECK_DEADLOCK FALSE
INVARIANTS
    RetryTimed
    QueueShape
    InformFirst
    NoReplay
    Reloaded
PROPERTIES
    EventsDelivered
    ReportsKept
