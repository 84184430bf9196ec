SPECIFICATION LSpec
CONSTANTS
    t1 = t1
    t2 = t2
    t3 = t3
    Tracker = {t1, t2, t3}
    Endpoint = {1, 2, 3, 4}
    TrackerOf <- MCTrackerOf
    Result = {"live", "dead"}
    MaxTime = 4
    From = 1
    Until = 3
    MaxRows = 3
    Request <- MCRequest
    Networks <- MCNetworks
    HalfDays <- MCHalfDays
    Families <- MCFamilies
    Scheme <- MCScheme
    MaxListRows = 2
INVARIANTS
    AvailabilityInv
    QuotaHolds
    DroppedForAReason
    FloorKeepsTheOldest
CHECK_DEADLOCK FALSE
