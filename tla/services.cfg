SPECIFICATION ServicesSpec
CONSTANTS
    Param = {"active", "passive", "both"}
    Attribute <- MCAttribute
    ParamValue = {0, 1}
    LwEnabled = TRUE
    MaxChanges = 2
    Periods = {2, 3}
    Times = {0, 1}
    Round = 6
    MaxReloads = 2
    RESTRICT_PERIOD = 2
    RESTRICT_REQUEST = 2
    MaxNow = 6
    MaxClients = 5
    XmppSets <- Sets
    XmppId = 1
    AllowedJids <- Jids
    Senders <- From
    CR_PERIOD = 2
    CR_REQUESTS = 4
    MaxSections = 2
    MaxOperations = 2
    MaxSeconds = 5
    MaxXmppRequests = 4
    MaxFailures = 6
INVARIANTS
    ChangesReported
    RestrictionHolds
PROPERTIES
    PeriodicGoesOn
    XmppSound
    ClientSettles
CHECK_DEADLOCK FALSE
