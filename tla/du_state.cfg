SPECIFICATION FairSpec
CONSTANTS
    Units = {u1, u2}
    Known = {u1}
    Kinds = {"install", "uninstall", "update"}
    Failures = TRUE
    Grace = 1
    Skew = TRUE
    MaxOps = 1
    MaxRequests = 2
    MaxTime = 3
    MaxRestarts = 1
INVARIANTS NothingLost ReportedOnce
PROPERTIES SessionUndisturbed LaunchedIsReported
CHECK_DEADLOCK FALSE
