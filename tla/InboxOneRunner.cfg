SPECIFICATION FairSpec
CONSTANTS
    Files <- Picture
    Msgs = {"m1"}
    Msg <- SameMessage
    WithMedia = {"photo"}
    Valid = {"text", "photo"}
    Unstorable = {}
    TooBig = {}
    Runners = {"watch"}
    MaxAttempts = 2
    MaxFaults = 2
    MaxSheets = 0
    MayStall = TRUE
    None = None
    NoRow = NoRow
INVARIANTS LogFollowsRow IndexBacked
PROPERTIES Drains LedgerSpec UnlinkedOnlyCopied
