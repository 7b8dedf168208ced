SPECIFICATION Spec
CONSTANTS
    Files <- OnePhoto
    Msgs = {"m1"}
    Msg <- OnePhotoMessage
    WithMedia = {"photo"}
    Valid = {"photo"}
    Unstorable = {}
    TooBig = {}
    Runners = {"watch"}
    MaxAttempts = 2
    MaxFaults = 1
    MaxSheets = 0
    MayStall = TRUE
    None = None
    NoRow = NoRow
PROPERTY UnlinkedOnlyAppended
