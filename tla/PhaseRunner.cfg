\* Three phases over any backend, with replies of two pieces.
SPECIFICATION FairSpec
CONSTANTS
    Backends = {"pi", "opencode", "claude", "codex"}
    Chunks = 2
    MaxPhases = 3
INVARIANTS
    KilledNotRetried
    OneAgent
    CostIsWhole
PROPERTIES
    NoReplyWasted
    PhaseEnds
CHECK_DEADLOCK FALSE
