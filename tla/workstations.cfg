SPECIFICATION Spec
CONSTANTS
    Agent = {a1, a2}
    Gateway = {g1, g2}
    Profile = {"p", "q"}
    Channel = {"c"}
    Job = {j1, byHand}
    Text = {"t"}
    Server = {"s"}
    Setting = {"x", "y"}
    Spec0 <- Specs
    HandJobs <- AnyJob
    Before = {a2}
    NoAgent = NoAgent
    NoObject = NoObject
    g1 = g1
    g2 = g2
    j1 = j1
    byHand = byHand
    MaxEdits = 2
    MaxFaults = 1
    MaxRegs = 1
    Faults = {"crash", "exec", "down", "wipe", "activity", "chat", "api", "overwrite"}
INVARIANTS TypeOK RegistrationGuarded
PROPERTIES HandMadeKept
CHECK_DEADLOCK FALSE
