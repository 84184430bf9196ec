SPECIFICATION Spec
CONSTANTS
    Tracker = {"t1"}
    Type = {"ip_added", "asn_changed"}
    Base = 2
    Limit = {2}
    FeedRead = 3
    Shown = 2
    MaxTime = 8
    MaxChanges = 2
INVARIANTS
    SinceIsWhole
CHECK_DEADLOCK FALSE
