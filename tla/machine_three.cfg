SPECIFICATION Spec
CONSTANTS
    s1 = s1
    s2 = s2
    s3 = s3
    Sockets <- MCSockets
    NumQueries = 3
    MaxParallel = 3
    ConnectTimeout = 0
    ReadTimeout = 0
    WriteTimeout = 0
    ConnectRetryWait = 0
    ConnectRetriesCount = 1
    DisabledTimeout = 30
    VersionLen = 1
    HelloLen = 1
    RequestLen = 1
    HeaderLen = 1
    BodyLens <- MCOneByte
    Overshoot = 0
    MaxSignals = 0
    JunkIndices <- MCJunkIndices
    JunkPollFds <- MCJunkPollFds
    Failures <- MCNoFailures
INVARIANTS
    EventsMatchStates
    ResponsesMatchRequests
SYMMETRY MCSymmetry
