SPECIFICATION Spec
CONSTANTS
    Configs = {c1, c2}
    CellBase = 64
    InitialSize = 64
    MaxQueries = 2
    MaxResponses = 2
    MaxCalls = 2
    NewSettings <- MCSettings
    NewFilters <- MCFilters
    NewOverrides <- MCOverrides
    MaxFilters = 6
    MachineErrors <- MCMachineErrors
SYMMETRY MCSymmetry
INVARIANTS
    TypeOK
    AnswersInOrder
    HalfBuiltLastFails
    RequestsMeanTheirSettings
    FiltersOwned
