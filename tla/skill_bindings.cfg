SPECIFICATION FairSpec
CONSTANTS
    Workstation = {a1, a2}
    SkillName = {sk}
    UserBinding = {u}
    ManagedBinding = {m}
    NameOf <- Name
    Version = {v1, v2}
    Text = {t}
    WsSpec <- Agents
    SkillSpec <- Skills
    BindingSpec <- Grants
    Floating = Floating
    FromMap = FromMap
    FromPackage = FromPackage
    Nothing = Nothing
    MaxEdits = 3
    a1 = a1
    a2 = a2
    sk = sk
    u = u
    m = m
    v1 = v1
    v2 = v2
    t = t
INVARIANTS TypeOK BindingStatusExact SkillStatusFollows
PROPERTIES ControllersSettle RefsBound
CHECK_DEADLOCK FALSE
