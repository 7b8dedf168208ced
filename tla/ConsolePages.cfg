SPECIFICATION FairSpec
CONSTANTS
    Chats = {"family", "work"}
    Lines <- TwoLogs
    Ends <- ShortAndLong
    MsgId <- LocalIds
    Limit = 2
    FirstChunk = 3
    Step = 2
    MaxChunk = 8
    Calls = {1, 2}
    MaxGrowth = 1
    MaxOpens = 2
    MaxFails = 1
    NoChat = NoChat
INVARIANTS EndIsEnd NothingSkipped
PROPERTY LatestShown
