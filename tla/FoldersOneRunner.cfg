SPECIFICATION Spec
CHECK_DEADLOCK FALSE
CONSTANTS
    Chats <- ABC
    Names <- XYZ
    Folders <- AllFolders
    IdFolder <- Bare
    DmsFolder <- InDms
    NameFolder <- Same
    Suffixed <- WithPrefix
    Events <- AllEvents
    EvChat <- ChatOf
    EvName <- NameOf
    HasBody = {"aX"}
    Old = {"old", "oldA"}
    Sheets = {"sheet", "torn"}
    CutSheets = {"torn"}
    SheetName <- Contacts
    Wipes = {"wipe"}
    Runners = {"watch"}
    MaxFaults = 2
    NoName = NoName
    NoFolder = NoFolder
    NoJob = NoJob
INVARIANTS TypeOK LinesTogether
PROPERTIES LinesKept NeverDowngrade
