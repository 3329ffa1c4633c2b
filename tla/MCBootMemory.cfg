SPECIFICATION Spec
CONSTANTS
    PAGE_SIZE = 2
    HEAP_PAGES = 2
    E = 4
    LOW = 32
    Machines <- MCMachines
INVARIANTS
    BitmapDescribesMemory
    BootPagesDisjoint
    BitmapStaysMapped
    DirectMapExact
    KernelStaysMapped
    NoForeignMapping
    TablesFormTree
    NeverSplits
PROPERTIES
    MappingsKept
