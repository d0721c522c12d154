SPECIFICATION FairSpec
CONSTANTS
    t1 = t1  t2 = t2  t3 = t3  n1 = n1
    Tasks = {t1, t2, t3}
    Nodes = {n1}
    Gpus <- OneGpu
    Priority <- LowAndNormal
    GpuCount <- OneEachTask
    Suits <- AnyGpu
    Workers = {w1}
    Faults = {}
    Deletable = {}
    MaxTickets = 3
    None = None
INVARIANTS NothingLeaks NormalFifo ExclusiveGpus
PROPERTIES EntriesServed RowsComeBack ImplementsLease
CHECK_DEADLOCK FALSE
