SPECIFICATION Spec
CONSTANTS
    Highest = 9
    Usable <- MCUsable
    Sizes <- MCSizes
    WORD = 64
INVARIANTS
    BlocksDisjoint
    BitmapExact
    UsedPagesExact
PROPERTIES
    AllocReturns
    ImplementsPageAllocator
