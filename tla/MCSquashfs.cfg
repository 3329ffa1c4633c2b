SPECIFICATION Spec
CONSTANTS
    Images <- MCImages
    Names <- MCNames
    MaxRead = 4
INVARIANTS
    FindExact
    LookupPanicsHaveCause
    HangsOnlyBehindCompressed
    ReadExact
