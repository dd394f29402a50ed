SPECIFICATION FairSpec
CONSTANTS
    Agent = {a1, a2}
    Gateway = {g1}
    Profile = {"p", "q"}
    Channel = {"c"}
    Job = {j1, byHand}
    Text = {"t"}
    Server = {"s"}
    Setting = {"x", "y"}
    Spec0 <- Small
    HandJobs <- AnyJob
    Before = {a2}
    NoAgent = NoAgent
    NoObject = NoObject
    g1 = g1
    g2 = g2
    j1 = j1
    byHand = byHand
    MaxEdits = 2
    MaxFaults = 1
    MaxRegs = 1
    Faults = {"crash", "exec", "wipe", "activity"}
PROPERTIES RegistrationsHeal ToolsFresh PassesGoQuiet
CHECK_DEADLOCK FALSE
