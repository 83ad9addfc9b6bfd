SPECIFICATION Spec
CONSTANTS
    CmdKey = {"k1"}
    Param = {"p", "q"}
    MAX_INT_ID = 100
    Sid = {s1, s2, s3}
    NULL = NULL
    Url = {"a"}
    Source = {"periodic", "cr", "grm", "ip", "diagnostic", "schedule", "command"}
    InformCode = {2}
    TransferCode = {}
    MaxId = 3
    MaxRpcs = 3
    MaxReq = 1
    MaxRetry = 1
    MaxRestarts = 0
CHECK_DEADLOCK FALSE
INVARIANTS
    EventsOrdered
    Durable
PROPERTIES
    ParamsKept
