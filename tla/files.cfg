SPECIFICATION FilesSpec
CONSTANTS
    Kinds = {"schedule_inform", "change_du_state", "apply_schedule_download", "upload"}
    Keys <- SharedKeys
    Times = {"t1", "t2"}
    MaxItems = 2
    MaxRestarts = 1
    Absent = Absent
    FirstOptions <- TwoFiles
    AcsSets <- AcsValues
    Edits <- OtherEdits
    Unreadable = {"passwd", "ssl_capath"}
    AcsVersions = {1}
    MaxUpsets = 2
    MaxSettings = 1
INVARIANTS RecordsMatch
PROPERTIES Recovered ConfigurationSound
CHECK_DEADLOCK FALSE
