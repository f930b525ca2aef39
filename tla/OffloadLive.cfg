SPECIFICATION OffloadFairSpec
CONSTANTS
    i1 = i1
    i2 = i2
    o1 = o1
    o2 = o2
    g1 = g1
    g2 = g2
    h1 = h1
    h2 = h2
    f1 = f1
    f2 = f2
    a1 = a1
    a2 = a2
    a3 = a3
    c1 = c1
    c2 = c2
    Parts = {"graph", "tcp", "telegram"}
    Tokens = {c1, c2}
    Instances = {i1, i2}
    Scopes = {o1, o2}
    Graphs = {g1, g2}
    MaxClock = 2
    DpiFlows = {f1}
    TelegramFlows = {c1}
    Tags = {a1, a2, a3}
    MaxMembers = 2
INVARIANTS WalksFollowGraph
PROPERTIES WaitersWake
CHECK_DEADLOCK FALSE
