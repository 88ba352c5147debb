SPECIFICATION DrivenSpec
CONSTANTS
    MaxParallel = 3
    s1 = s1
    s2 = s2
    s3 = s3
    Sockets <- MCSockets
    JunkIndices <- MCJunkIndices
    JunkPollFds <- MCJunkPollFds
    Failures = {}
INVARIANTS
    TableTypeOK
    IndicesInverse
    EntriesOwnTheirSockets
PROPERTY ImplementsSocketTable
SYMMETRY MCSymmetry
