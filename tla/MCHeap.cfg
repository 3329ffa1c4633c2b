SPECIFICATION Spec
CONSTANTS
    HeapBase = 64
    HeapSize = 112
    Layouts <- WordLayouts
INVARIANTS
    ListOrdered
    HeapPartition
    Coalesced
PROPERTIES
    CallsReturn
    ImplementsHeapAllocator
