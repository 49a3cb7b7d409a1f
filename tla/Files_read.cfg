\* Four descriptors: the second file takes number 0, or 2 when standard error
\* is closed; the drive may fail.  The kernel panics on a long extension.
SPECIFICATION FairSpec
CONSTANTS
    SectorSize = 4
    EntryLen = 2
    NameLen = 8
    ExtLen = 3
    Volumes <- MCVolumes
    Paths <- MCPaths
    ListPaths <- MCListPaths
    ReadSizes = {0, 13}
    FdCount = 4
    MaxOpen = 2
    Closable = {2, 3}
    Faulty = TRUE
    Spelling <- MCSpelling
INVARIANTS
    TypeOK
    ReadsInOrder
    OpenFindsPath
    ListShowsAll
PROPERTIES
    OpenLeavesOthers
    CallsReturn
CHECK_DEADLOCK FALSE
