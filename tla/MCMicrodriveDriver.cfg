CONSTANTS
    SectorCount = 3
    HeaderPreambleSize = 1
    HeaderSize = 2
    DataPreambleSize = 1
    RecordSize = 4
    TailSize = 1
    NoImage = NoImage
    DriveCount = 2
    GapPolls = 1
    BlockHeaderSize = 1
    PllPreambleSize = 1
    EraseThreshold = 4
    ControlValues <- MCControlValues
    Cartridges <- MCCartridges

SPECIFICATION DriverSpec

INVARIANTS
    WantedDriveRuns
    BlockIsWhole
    RecordInPlace
    FormatCoversTape

PROPERTIES
    EverySectorComesRound
