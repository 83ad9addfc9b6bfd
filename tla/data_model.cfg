SPECIFICATION MCSpec
CONSTANTS
    MaxInst = 2
    Values = {0, 1}
    Notification = {0, 2}
    InstanceMode = "number"
    SetNames <- Set
    AttributeNames <- Noted
    ObjectNames <- Objects
    ParameterKeys = {"k1"}
    MaxEntries = 2
    MaxSteps = 3
    Lines = 2
    Codecs <- CodecOrder
    Slots = 2
    DefaultCodecs <- NewCodecs
    Ties <- TwoTies
    Priorities = {1, 2}
    VoiceValues = {"0", "other"}
    UsedParameters = {"ReInviteExpires", "URI", "UserAgentDomain",
                      "FaxT38", "DTMFMethod"}
    MaxProfiles = 2
    Target = {"a", "b"}
    MaxRequests = 2
    MaxSegments = 3
INVARIANTS SetAllOrNothing AttributesStick FreshInstance ServicesFollow DiagnosticsSound
PROPERTIES VoiceSound
CHECK_DEADLOCK FALSE
