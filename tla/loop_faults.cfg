SPECIFICATION Spec
CONSTANTS
    RunId = {d1, d2}
    Config = {c1, c2}
    Loss = {1}
    Version = {v1}
    RoundLimit = 2
    MaxTotal = 1
    MaxConcurrent = 2
    MaxDrainFailures = 1
    ValidationMode = FALSE
    Minimize = TRUE
    NoRun = NoRun
    NoConfig = NoConfig
    NoVersion = NoVersion
    Faults = {"crash", "transient", "prune", "conflict", "silent"}
SYMMETRY Symmetry
INVARIANTS ResultsPaired GatesKeepWork
CHECK_DEADLOCK FALSE
