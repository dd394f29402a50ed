SPECIFICATION FairSpec
CONSTANTS
    RunId = {d1, d2, d3}
    Config = {c1}
    Loss = {1}
    Version = {v1, v2}
    RoundLimit = 3
    MaxTotal = 2
    MaxConcurrent = 1
    MaxDrainFailures = 2
    ValidationMode = FALSE
    Minimize = TRUE
    NoRun = NoRun
    NoConfig = NoConfig
    NoVersion = NoVersion
    Faults = {}
INVARIANTS TrainersInHand
PROPERTIES EveryOpenRunSettles LoopReachesEnd
CHECK_DEADLOCK FALSE
