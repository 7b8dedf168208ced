SPECIFICATION Spec
CONSTANTS
    Chats <- FiveChats
    Msgs <- SixMsgs
    ChatOf <- Of
    Tables <- InOrder
    InDump <- Dumped
    DumpBody <- WithFile
    FileOf <- NamedFile
    FileNames <- TwoNames
    Long <- LongOnes
    CommitEvery = 3
    Uploads <- Uploaded
    UploadBody <- UploadedBody
    Folders <- Places
    DumpName <- Called
    LiveName <- SaidName
    IdFolder <- Ids
    Suffixed <- Alternatives
    MaxFaults = 2
    MaxRuns = 3
    NoFolder = "none"
    Bare = "bare"
    NoRow = "norow"
INVARIANTS TypeOK FoldersDistinct DumpStored RowsLogged
