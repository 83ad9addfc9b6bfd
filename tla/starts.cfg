SPECIFICATION FairSpec
CONSTANTS
    CmdKey = {"k1"}
    Param = {}
    MAX_INT_ID = 1
    Sid = {s1, s2, s3}
    NULL = NULL
    Url = {"a"}
    Source = {"periodic", "cr"}
    InformCode = {}
    TransferCode = {}
    MaxId = 2
    MaxRpcs = 3
    MaxReq = 0
    MaxRetry = 1
    MaxRestarts = 0
PROPERTIES
    QueuedStarts
