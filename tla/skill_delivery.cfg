SPECIFICATION FairSpec
CONSTANTS
    Folder = {"mine-pin", "theirs-pin", "pin", "any"}
    Resource = {mine, theirs, base, plain}
    Called <- Name
    Means <- Label
    Mine = {mine}
    Platform = {base}
    Order <- ByName
    Version = {v1, v2}
    Text = {t1, t2}
    Coord = {c}
    Url = {u1, u2}
    Oci = {}
    Conventional = u1
    SpecOf <- Specs
    RefSpec <- Refs
    Image <- Images
    Catalog <- Everything
    Published <- Shelf
    Shared <- Floats
    KnowledgeBase = {"kb"}
    Curated = {{"kb"}}
    NoLabel = NoLabel
    Floating = Floating
    Unpinned = Unpinned
    FromMap = FromMap
    Nothing = Nothing
    MaxEdits = 1
    MaxFaults = 1
    mine = mine
    theirs = theirs
    base = base
    plain = plain
    v1 = v1
    v2 = v2
    t1 = t1
    t2 = t2
    c = c
    u1 = u1
    u2 = u2
INVARIANTS TypeOK PinnedContentOnly
PROPERTIES WorkspaceConverges
CHECK_DEADLOCK FALSE
