SPECIFICATION FairSpec
CONSTANTS
    a1 = a1
    a2 = a2
    p1 = p1
    p2 = p2
    Addr = {a1, a2}
    Prefix = {p1, p2}
    PrefixesOf <- MCPrefixesOf
    Nowhere = Nowhere
    Outcome = {"ok", "nodata", "timeout"}
    Family = {"v4"}
    MissThreshold = 2
    RollAfter = 2
    SteadyAfter = 3
    MaxChurn = 3
    MaxFails = 1
INVARIANTS
    HistoryInv
PROPERTIES
    PatientRemoval
    Hysteresis
    FeedTellsHistory
    KeepsContract
    SettledIsRecorded
