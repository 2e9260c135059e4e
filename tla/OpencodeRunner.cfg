SPECIFICATION FairSpec
CONSTANTS
    Calls = {c1, c2}
    BindAttempts = 2
    Chunks = 2
    MaxStarts = 2
    MaxStops = 1
    MaxLost = 0
INVARIANTS NoOrphan OneServer TranscriptFaithful
PROPERTIES AbortedReturns StopTearsDown
CHECK_DEADLOCK FALSE
