SPECIFICATION Spec
CONSTANTS
    RunId = {d1, d2, d3}
    Config = {c1}
    Loss = {1, 2}
    Version = {v1, v2}
    RoundLimit = 3
    MaxTotal = 2
    MaxConcurrent = 2
    MaxDrainFailures = 1
    ValidationMode = FALSE
    Minimize = TRUE
    NoRun = NoRun
    NoConfig = NoConfig
    NoVersion = NoVersion
    Faults = {"stale"}
SYMMETRY Symmetry
INVARIANTS TypeOK RoundsAccounted SubmissionsWithinBudget BestIsBest
PROPERTIES LedgerSpec
CHECK_DEADLOCK FALSE
