SPECIFICATION FairSpec
CONSTANTS
    k1 = k1
    k2 = k2
    Pair = {k1, k2}
    ProbeRounds <- MCProbeRounds
    BackoffAfter = 2
    Day = 1
    RetireAfter = 1
INVARIANTS
    RegistryInv
    PickedHasNeverWorked
    FreshMonth
PROPERTIES
    TriedForever
    NeverWorkingIsRetired
