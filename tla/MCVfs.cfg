SPECIFICATION Spec
CONSTANTS
    initramfs = initramfs
    fat = fat
    esp = esp
    h1 = h1
    h2 = h2
    Fs <- MCFs
    Dirs <- MCDirs
    Files <- MCFiles
    Paths <- MCPaths
    MountPoints <- MCMountPoints
    Handles <- MCHandles
    None = None
SYMMETRY MCSymmetry
INVARIANTS
    CacheCoherent
    RefCountsExact
    UnmountStaysLocal
    NewestMountOnTop
CHECK_DEADLOCK FALSE
