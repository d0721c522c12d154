SPECIFICATION DeployFairSpec
CONSTANTS
    Models = {"m1"}
    Nodes = {"n1", "n2"}
    Gpus <- OneEachNode
    Settings <- TwoOrNone
    Texts = {"online", "offline"}
    Events = {"timeout", "refusal", "stop", "health", "exit", "crash", "abort", "tasks", "silence", "heartbeat", "delete", "edit"}
    Shared = {"n1"}
    MaxLaunches = 3
    MaxMishaps = 1
    MaxEdits = 1
    None = None
INVARIANTS DeployTypeOK DeployedOnce StatusTellsInstances MarksHaveOwners
CHECK_DEADLOCK FALSE
PROPERTIES OperationsEnd StopSucceeds
