SPECIFICATION Spec
CONSTANTS
    PAGE_SIZE = 2
    MaxLength = 12
    MemMaps <- TailMaps
INVARIANT UnusableIsNonFree
CHECK_DEADLOCK FALSE
