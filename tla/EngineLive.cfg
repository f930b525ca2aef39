SPECIFICATION EngineFairSpec
CONSTANTS
    s1 = s1
    s2 = s2
    c1 = c1
    d1 = d1
    r1 = r1
    i1 = i1
    i2 = i2
    i3 = i3
    e1 = e1
    e2 = e2
    a1 = a1
    a2 = a2
    NoInst = NoInst
    Free = Free
    None = None
    Closers = {c1}
    Disposers = {d1}
    Emitters = {e1, e2}
    Capacity = 1
    Parts = {"service", "box", "events"}
    Starters = {s1}
    Reporters = {}
    Instances = {i1, i2, i3}
    StartMayFail = TRUE
    CloseMayFail = TRUE
    MembersOf <- FewMembersOf
    Dependencies <- Circular
    Hanging = {"tun"}
    BoxClosers = {"owner"}
    Serialized = TRUE
    Attempts = {a1}
    MaxGeneration = 1
    MaxTotal = 3
    MaxEvents = 3
INVARIANTS StartedMeansRunning
PROPERTIES StoppingResolves CloseReturns QueueDrains
CHECK_DEADLOCK FALSE
