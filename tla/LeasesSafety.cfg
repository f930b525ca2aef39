SPECIFICATION LeasesSpec
CONSTANTS
    f1 = f1
    f2 = f2
    l1 = l1
    l2 = l2
    l3 = l3
    NoLease = NoLease
    Parts = {"ats", "smart", "wall", "relay", "group"}
    Flows = {f1, f2}
    Issued = 1
    NewUntil = 3
    ActiveUntil = 4
    MaxTime = 4
    SmartFlows = {f1, f2}
    Leases = {l1, l2, l3}
    First = l1
    MaxConcurrent = 1
    MaxLeases = 2
    RelayFlows = {f1, f2}
    Relays = 2
    FailureThreshold = 2
    MaxAttempts = 2
    MaxNew = 3
    MaxEpoch = 2
    Members = 2
    Probers = {f1, f2}
    MaxGen = 1
    MaxStages = 1
    MaxRestrictions = 1
    MaxTroubles = 1
SYMMETRY Symmetry
CONSTRAINT Bounds
INVARIANTS TypesOK SocketOwned RevocationIsExact OneProbe
PROPERTIES NoLateUse FailureStaysWithLease SmartImplementsSafeGate LateSuccessIsRefused ReceiptIsTrue
CHECK_DEADLOCK FALSE
