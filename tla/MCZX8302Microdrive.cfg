CONSTANTS
    SectorCount = 3
    HeaderPreambleSize = 1
    HeaderSize = 1
    DataPreambleSize = 1
    RecordSize = 3
    TailSize = 1
    NoImage = NoImage
    DriveCount = 2
    GapPolls = 1
    BlockHeaderSize = 1
    PllPreambleSize = 1
    EraseThreshold = 3
    ControlValues <- MCControlValues
    Cartridges <- MCCartridges

SPECIFICATION Spec

INVARIANTS
    TypeOK
    StreamIsSound
    MediaIntegrity

PROPERTIES
    TurnsTape
