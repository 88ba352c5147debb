SPECIFICATION FairSpec
CONSTANTS
    s1 = s1
    s2 = s2
    s3 = s3
    Sockets <- MCTwoSockets
    NumQueries = 2
    MaxParallel = 2
    ConnectTimeout = 2
    ReadTimeout = 2
    WriteTimeout = 2
    ConnectRetryWait = 2
    ConnectRetriesCount = 1
    DisabledTimeout = 30
    VersionLen = 1
    HelloLen = 1
    RequestLen = 1
    HeaderLen = 1
    BodyLens <- MCAnyBody
    Overshoot = 0
    MaxSignals = 1
    JunkIndices <- MCJunkIndices
    JunkPollFds <- MCJunkPollFds
    Failures <- MCNoFailures
PROPERTY Terminates
