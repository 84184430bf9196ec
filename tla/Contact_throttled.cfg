SPECIFICATION Spec
CONSTANTS
    Scheme = {"http"}
    udpAttempts = 2
    MaxWire = 0
CHECK_DEADLOCK FALSE
INVARIANTS
    TurnedAwayIsNotDead
