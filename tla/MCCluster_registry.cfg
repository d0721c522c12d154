SPECIFICATION ClusterFairSpec
CONSTANTS
    t1 = t1  t2 = t2  n1 = n1
    Tasks = {t1}
    Nodes = {n1}
    Gpus <- OneGpu
    Priority <- AllNormal
    GpuCount <- OneGpuEach
    Suits <- AnyGpu
    Workers = {w1}
    Faults = {"timeout", "crash", "listener", "retry"}
    Deletable = {t1}
    MaxTickets = 2
    MaxPayloads = 2
    None = None
INVARIANTS ClusterTypeOK AllocationStaysIdle
PROPERTIES LeakedRowsHeal UsedRowsLeaveThePool
