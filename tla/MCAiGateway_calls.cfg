SPECIFICATION GatewaySpec
CONSTANTS
    Models = {"m1", "m2"}
    Nodes = {"n1", "n2"}
    Gpus <- TwoAndOne
    Settings <- TwoReplicasAndOne
    Texts = {}
    Events = {"timeout", "health", "exit", "crash"}
    Shared = {}
    MaxLaunches = 3
    MaxMishaps = 1
    MaxEdits = 0
    None = None
    Calls = {c1, c2}
SYMMETRY CallsAlike
INVARIANTS GatewayTypeOK EvenTurns RecordedOnce
PROPERTIES AnsweredByChosen
CHECK_DEADLOCK FALSE
