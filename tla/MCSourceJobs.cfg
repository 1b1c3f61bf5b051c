SPECIFICATION FairSourceSpec
CONSTANTS
    LastFile = 2
    PageSize = 1
    WindowLines = 2
    WindowMessages = 1
    LastRule = 1
    Folder <- Folders
    MaxLines <- Lines
    Written <- Kinds
    MaxReplaced = 1
    Poison = {}
    NoCursor = NoCursor
    Open = Open
    NoRule = NoRule
    NoRun = NoRun
INVARIANT WindowsDisjoint
INVARIANT ConsumedIsDone
PROPERTY EverythingRead
CHECK_DEADLOCK FALSE
