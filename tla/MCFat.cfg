SPECIFICATION Spec
CONSTANTS
    CountMod = 4
    Lba28Mod = 32
    SectorCount = 30
    Faults = 1
    Volumes <- MCVolumes
    Fat12Limit = 4
    Fat16Limit = 7
    U16 = 8
    U32 = 64
    start_sector = 5
    end_sector = 22
    TableSectors = 3
    reserved_sectors = 2
    fat_count = 1
    sectors_per_fat = 2
    sectors_per_cluster = 2
    SectorBytes = 2
    SectorEntries = 4
    EntryBytes = 1
    SectorSlots = 2
    DiskFat <- MCDiskFat
    Entries <- MCEntries
    Directories <- MCDirectories
    Strays <- MCStrays
    SubDirs <- MCSubDirs
    NotUtf8 <- MCNotUtf8
    NotUtf16 <- MCNotUtf16
    Names <- MCNames
    ToUpper <- MCToUpper
INVARIANTS
    ReadExact
    ReadPanicsOnlyAcrossClusters
    ErrorsAreReal
    FindExact
    MountExact
PROPERTIES
    CallsReturn
