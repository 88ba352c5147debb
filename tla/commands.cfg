SPECIFICATION Spec
CONSTANTS
    CellBase = 1024
    InitialSize = 4
    Names <- MCNames
    Documents <- MCDocuments
    Values <- MCValues
    Index <- MCIndex
    Texts <- MCTexts
    Words <- MCWords
    MaxAttributes = 2
    MaxWords = 2
    MachineErrors <- MCMachineErrors
INVARIANTS
    TypeOK
    BuffersWithinBounds
    AppliedIsAsked
    ReturnsWhenAllUpdated
    KeywordsWhole
