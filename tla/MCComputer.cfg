CONSTANTS
    FrameCycles = 3
    GapCycles = 2
    Costs <- MCCosts
    MachineMasks <- MCMachineMasks
    DriveCount = 2
    DriveControls <- MCDriveControls
    RequestBound = 2
    AddressCount = 64
    Addresses <- MCAddresses
    RomSize = 4
    McStat = 8
    RamStart = 16
    Banks <- MCBanks
    ByteBits = 4
    WordsPerLine = 2
    Lines = 2
    Blank = 1
    Mode8 = 2
    Bank = 3
    Images <- MCImages
    Bytes <- MCBytes
    WriteBound = 2

SPECIFICATION ComputerSpec

INVARIANTS
    TypeOK
    OneLoop
    LevelIsFresh
    PictureIsMemory

PROPERTIES
    GapIsSignalled
