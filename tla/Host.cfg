SPECIFICATION HostFairSpec
CONSTANTS
    c1 = c1
    c2 = c2
    id1 = id1
    k1 = k1
    NoCall = NoCall
    Ids = {id1}
    Calls = {c1, c2}
    IdOf <- SameId
    Cancels = {k1}
    Commands <- Lines
    ScanLimit = 1024
    MaxClock = 3
    MaxCommands = 3
    ClockMayFail = TRUE
INVARIANTS TypesOK SessionKeepsProtocol
PROPERTIES DeadlinesKept VerdictIsLast CancelFindsItsCall
CHECK_DEADLOCK FALSE
