SPECIFICATION FairSpec
CONSTANTS
    p1 = p1
    Prober = {p1}
    Verdict = {"live", "dead", "unknown"}
    Endpoints <- Known
    MaxPrefs = 1
INVARIANTS
    PreferencesInv
    LastEndpointStays
PROPERTIES
    PortIsMet
