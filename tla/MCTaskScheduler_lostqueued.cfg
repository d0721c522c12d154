SPECIFICATION Spec
CONSTANTS
    t1 = t1  t2 = t2  t3 = t3  n1 = n1
    Tasks = {t1, t2}
    Nodes = {n1}
    Gpus <- OneGpu
    Priority <- LowAndNormal
    GpuCount <- OneEachTask
    Suits <- AnyGpu
    Workers = {w1}
    Faults = {}
    Deletable = {}
    MaxTickets = 2
    None = None
CHECK_DEADLOCK FALSE
INVARIANT QueuedWaitsInRedis
