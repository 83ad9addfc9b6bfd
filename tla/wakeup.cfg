SPECIFICATION FairSpec
CONSTANTS
    CmdKey = {"k1"}
    Param = {}
    MAX_INT_ID = 3
    Sid = {s1, s2, s3}
    NULL = NULL
    Url = {"a"}
    Source = {"grm"}
    InformCode = {}
    TransferCode = {}
    MaxId = 4
    MaxRpcs = 3
    MaxReq = 0
    MaxRetry = 1
    MaxRestarts = 0
CHECK_DEADLOCK FALSE
PROPERTIES
    GrmStarts
