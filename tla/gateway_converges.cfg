SPECIFICATION FairSpec
CONSTANTS
    Conn = {c1, c2}
    Agent = {a1, a2}
    NoDeploy = NoDeploy
    Unseeded = Unseeded
    Killed = Killed
    NoAgent = NoAgent
    MaxEdits = 1
    MaxFaults = 1
    Faults = {"oom"}
PROPERTIES Converges LiveAgentsRegistered
