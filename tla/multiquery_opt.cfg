SPECIFICATION Spec
CONSTANTS
    MaxQueries = 3
    Hashes <- MCHashes
    MaxParallel = 2
    MachineErrors <- MCMachineErrors
INVARIANTS
    TypeOK
    AnswersAtTheirQueries
    CompleteOnSuccess
    GroupsCoverQueries
    WarnedGroupComplete
PROPERTIES
    OneGroupPerHash
