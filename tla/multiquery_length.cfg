SPECIFICATION Spec
CONSTANTS
    Configs = {c1, c2}
    CellBase = 64
    InitialSize = 64
    MaxQueries = 2
    MaxResponses = 2
    MaxCalls = 1
    NewSettings <- MCSettings
    NewFilters <- MCFilters
    NewOverrides <- MCOverrides
    MaxFilters = 3
    MachineErrors <- MCMachineErrors
SYMMETRY MCSymmetry
INVARIANTS
    DeclaredLengthIsSent
