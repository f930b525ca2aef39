SPECIFICATION LeasesFairSpec
CONSTANTS
    f1 = f1
    f2 = f2
    l1 = l1
    l2 = l2
    l3 = l3
    NoLease = NoLease
    Parts = {"ats", "smart", "relay"}
    Flows = {f1}
    Issued = 1
    NewUntil = 3
    ActiveUntil = 4
    MaxTime = 4
    SmartFlows = {f1}
    Leases = {l1, l2}
    First = l1
    MaxConcurrent = 1
    MaxLeases = 2
    RelayFlows = {f1, f2}
    Relays = 1
    FailureThreshold = 1
    MaxAttempts = 1
    MaxNew = 2
    MaxEpoch = 2
    Members = 1
    Probers = {}
    MaxGen = 0
    MaxStages = 0
    MaxRestrictions = 2
    MaxTroubles = 0
CONSTRAINT FewRestrictions
PROPERTIES LeasesImplementGate ResourcesReturn
CHECK_DEADLOCK FALSE
