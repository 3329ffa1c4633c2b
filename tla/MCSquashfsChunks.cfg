SPECIFICATION Spec
CONSTANTS
    Images <- MCImages
    Names <- MCNames
    MaxRead = 4
INVARIANT SearchEnds
