SPECIFICATION FairSpec
CONSTANTS
    Files <- PhotoAndBad
    Msgs = {"m1", "m2", "m3"}
    Msg <- OwnMessage
    WithMedia = {"photo"}
    Valid = {"photo", "huge"}
    Unstorable = {"huge"}
    TooBig = {"photo"}
    Runners = {"watch"}
    MaxAttempts = 1
    MaxFaults = 1
    MaxSheets = 2
    MayStall = FALSE
    None = None
    NoRow = NoRow
PROPERTIES FirstPutIndexed Drains
