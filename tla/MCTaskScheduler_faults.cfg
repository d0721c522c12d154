SPECIFICATION Spec
CONSTANTS
    t1 = t1  t2 = t2  t3 = t3  n1 = n1
    Tasks = {t1, t2}
    Nodes = {n1}
    Gpus <- TwoOnOne
    Priority <- AllNormal
    GpuCount <- OneAndTwo
    Suits <- AnyGpu
    Workers = {w1, w2}
    Faults = {"redis", "timeout", "crash", "listener"}
    Deletable = {t1}
    MaxTickets = 2
    None = None
INVARIANTS TypeOK ExclusiveGpus ServedOnce
PROPERTIES GpusMoveWithTasks
SYMMETRY RequestsAlike
CHECK_DEADLOCK FALSE
