SPECIFICATION Spec
CONSTANTS
    MaxBatchSize = 2
    MaxWait = 2
    Priorities = {1, 2}
    PrefixNames = {p1, p2, p3}
    MaxEntries = 1
    EndOfTime = 3
    MaxCalls = 4
    WeightNames = {w1, w2}
    WeightSizes = {1, 2, 5}
    MaxBytes = 4
    MaxPuts = 5
    ShardSizes = {1, 2, 3}
    MaxSaves_ = 3
    Losses = {1, 2}
    Initial = 3
    SaveEvery = 2
    ModelSizes = {10, 20}
    MaxSteps = 3
    MaxLives = 3
    Descriptors = {0, 1, 2}
    RequestTexts = {{}, {"chat"}, {"completions", "chat"}, {"health", "completions"}, {"silence"}}
    MaxStarts = 2
    MaxConnections = 2
    Clients = {c1, c2}
    MaxRequests = 3
    Rate = 2
    Burst = 2
    Second = 2
    Jitters = {19, 20}
    Scale = 20
    LastTime = 8
    MaxAsks = 6
INVARIANT FullBatchLeaves
CHECK_DEADLOCK FALSE
