SPECIFICATION Spec
CONSTANTS
    Conn = {c1, c2}
    Agent = {a1, a2}
    NoDeploy = NoDeploy
    Unseeded = Unseeded
    Killed = Killed
    NoAgent = NoAgent
    MaxEdits = 3
    MaxFaults = 1
    Faults = {"crash", "oom", "exec", "delete", "hooksoff", "withdraw"}
SYMMETRY Symmetry
INVARIANTS TypeOK BootableConfig
