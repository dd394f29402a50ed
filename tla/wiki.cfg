SPECIFICATION FairSpec
CONSTANTS
    RoundLimit = 1
    MaxEdits = 1
    MaxCommits = 3
    MaxRestarts = 1
    Seeded = TRUE
    Faults <- AllFaults
INVARIANTS TypeOK ResultHasProposal
PROPERTIES UnpushedKept OperatorRecordsKept RecordsReachVolume
CHECK_DEADLOCK FALSE
