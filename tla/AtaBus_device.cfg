\* Two drives on the bus, the first supported, the second of any kind.
SPECIFICATION BusSpec
CONSTANTS
    Blocks <- TwoBlocks
    SectorWords = 2
    Contents <- TwoContents
    NoCall = NoCall
    NoReply = NoReply
    NoWrite = NoWrite
INVARIANTS
    InStep
PROPERTIES
    IsBlockDevice
    CallsEnd
CHECK_DEADLOCK FALSE
