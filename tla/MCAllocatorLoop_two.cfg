SPECIFICATION LoopSpec
CONSTANTS
    Nodes = {1, 2}
    Gpus <- SixGpus
    Suits <- AllButOne
    Need = 2
    Loads = {0, 50}
INVARIANTS LoopTypeOK ChosenStillIdle LoopMeetsAllocations NoneOnlyIfShort
