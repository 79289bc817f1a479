CONSTANTS
    SectorCount = 10
    DataSize = 3
    LastBit = 4
    FreeSector = 7
    DamagedSector = 9
    MapFile = 8
    MaxFiles = 3
    LowerCase <- MCLowerCase
    Foreign = {"foreign"}
    NameLength = 3
    MediumLength = 2
    DeviceNames = {"flp", "mdv"}
    MaxEntries = 4
    MaxUncompressedSize = 14
    Archives <- MCArchives
    Microdrives = {0, 1, 3}

SPECIFICATION Spec

INVARIANTS
    AllocationIsSound
    RecordsTellTheirFile

PROPERTIES
    PackageIsKept

CHECK_DEADLOCK FALSE
