SPECIFICATION Spec
CONSTANTS
    p1 = p1
    p2 = p2
    e1 = e1
    e2 = e2
    a1 = a1
    a2 = a2
    a3 = a3
    Prober = {p1}
    Endpoint = {e1}
    Addr = {a1, a2}
    Outcome = {"live", "dead", "unreachable"}
    Threshold = 2
    Retention = 1
    MaxTime = 4
SYMMETRY Addresses
INVARIANTS
    ProbingInv
    MeasurementsAreKept
    MissesAreAttempts
    FailingEverywhereIsDead
    ReachIsCurrent
