SPECIFICATION PSpec
CONSTANTS
    p1 = p1
    p2 = p2
    e1 = e1
    a1 = a1
    a2 = a2
    Prober = {p1}
    Endpoint = {e1}
    Addr = {a1}
    Outcome = {"live", "dead"}
    Texts <- MCTexts
    maxPrefs = 3
    Threshold = 2
    Retention = 1
    MaxTime = 4
    Window = 1
INVARIANTS
    DenialHolds
    AdvertisedIsAdopted
    PageCoversAxis
