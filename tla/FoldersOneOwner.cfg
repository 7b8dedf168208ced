SPECIFICATION Spec
CHECK_DEADLOCK FALSE
CONSTANTS
    Chats <- ABC
    Names <- XYZ
    Folders <- AllFolders
    IdFolder <- Bare
    DmsFolder <- InDms
    NameFolder <- Same
    Suffixed <- WithPrefix
    Events <- TwoNamesakes
    EvChat <- NamesakeChat
    EvName <- NamesakeName
    HasBody = {}
    Old = {}
    Sheets = {}
    CutSheets = {}
    SheetName <- NoContacts
    Wipes = {}
    Runners = {"watch"}
    MaxFaults = 0
    NoName = NoName
    NoFolder = NoFolder
    NoJob = NoJob
INVARIANT OneOwner
