SPECIFICATION FairSpec
CONSTANTS
    RoundLimit = 4
    MaxConcurrent = 2
    EveryN = 2
    StagN = 2
    MaxFails = 2
    Loss = {1}
    Default <- QLoRASpace
    Adjust <- Numbers
    Claim = {0}
    Omitted = Omitted
    NoConfig = NoConfig
    NoLoss = NoLoss
    NoRow = NoRow
    OldRounds = 1
    MaxEdits = 1
    MaxFaults = 1
INVARIANTS TypeOK ConfigsInSpace
PROPERTIES StrategistPaced KernelTurns
CHECK_DEADLOCK FALSE
