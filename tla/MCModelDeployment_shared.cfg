SPECIFICATION DeploySpec
CONSTANTS
    Models = {"m1"}
    Nodes = {"n1"}
    Gpus <- TwoOnOne
    Settings <- One
    Texts = {}
    Events = {"tasks"}
    Shared = {"n1"}
    MaxLaunches = 1
    MaxMishaps = 0
    MaxEdits = 0
    None = None
INVARIANT GpusNotShared
CHECK_DEADLOCK FALSE
