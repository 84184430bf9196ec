SPECIFICATION Spec
CONSTANTS
    Scheme = {"udp", "http"}
    udpAttempts = 2
    MaxWire = 2
CHECK_DEADLOCK FALSE
INVARIANTS
    ContactInv
    VerdictIsProven
    EvidenceStands
PROPERTIES
    ComesToAVerdict
