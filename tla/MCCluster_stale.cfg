SPECIFICATION ClusterSpec
CONSTANTS
    t1 = t1  t2 = t2  n1 = n1
    Tasks = {t1, t2}
    Nodes = {n1}
    Gpus <- OneGpu
    Priority <- AllNormal
    GpuCount <- OneGpuEach
    Suits <- AnyGpu
    Workers = {w1}
    Faults = {}
    Deletable = {}
    MaxTickets = 2
    MaxPayloads = 1
    None = None
INVARIANT ContainersIsolated
