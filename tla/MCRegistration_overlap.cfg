SPECIFICATION RegFairSpec
CONSTANTS
    h1 = h1  ip1 = ip1
    Hosts = {h1}
    Addresses = {ip1, ip2}
    FirstAddress <- StartsAtOne
    Boxes = {c1}
    MaxGpus = 1
    Slots = {s1, s2}
    MaxMoves = 1
    None = None
INVARIANTS RegTypeOK
PROPERTIES LoneHeartbeatIsExact AgentsAreKnown ContainerRowsConverge GpuRowsConverge
