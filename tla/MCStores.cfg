SPECIFICATION StoresSpec
CONSTANTS
    TensorNames = {t1, t2, t3}
    Addresses = {1, 2, 3}
    Lengths = {0, 1, 3}
    PageFloats = 2
    PoolCapacity = 6
    Align = 2
    Requests = {0, 1, 3}
    HostPointers = {1, 2}
    DevicePointers = {3, 4}
    BlockSizes = {3}
    UsageWord = 8
    LayerIds = {1, 2, 3}
    ActBytes = {1, 2}
    Budgets = {2, 3}
    MaxSaves = 4
    KvLayers = 2
    KvPositions = 3
    MaxWrites = 4
    Keys = {k1, k2, k3, k4}
    Values = {v1, v2}
    Capacities = {0, 2, 3}
    Nodes = {n1, n2, n3}
    Null = null
    Missing = missing
INVARIANTS HoldersApart CountersBalance ReadsBack WellLinked
PROPERTY IsLru
CHECK_DEADLOCK FALSE
