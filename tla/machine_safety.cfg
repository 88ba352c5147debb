SPECIFICATION Spec
CONSTANTS
    s1 = s1
    s2 = s2
    s3 = s3
    Sockets <- MCSockets
    NumQueries = 3
    MaxParallel = 2
    ConnectTimeout = 2
    ReadTimeout = 2
    WriteTimeout = 2
    ConnectRetryWait = 2
    ConnectRetriesCount = 1
    DisabledTimeout = 30
    VersionLen = 1
    HelloLen = 1
    RequestLen = 2
    HeaderLen = 1
    BodyLens <- MCBodyLens
    Overshoot = 1
    MaxSignals = 0
    JunkIndices <- MCJunkIndices
    JunkPollFds <- MCJunkPollFds
    Failures <- MCFailures
INVARIANTS
    TypeOK
    TableMatchesStates
    Framing
    SocketAccounting
    UsageErrorOnlyWhenFull
    RetryBudget
PROPERTIES
    NothingRepeated
    UnboundedPollOnlyWhenLate
    ImplementsQueryBatch
SYMMETRY MCSymmetry
\* With Overshoot = 1 the machine can stop for good in poll(): run machine_hang.
CHECK_DEADLOCK FALSE
