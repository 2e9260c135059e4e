SPECIFICATION FairSpec
CONSTANTS
    Tasks = {t1, t2}
    States = {"pending", "executing"}
    RevModes = {"global", "record", "none"}
    Backends = {"watch", "list"}
    MaxRev = 3
    MaxFaults = 1
    MaxCrash = 1
INVARIANTS NoLostUpdate NoParkAfterStop
PROPERTIES OnlyNewDeltas Converges
CHECK_DEADLOCK FALSE
