SPECIFICATION LossySpec
CONSTANTS
    Calls = {c1}
    BindAttempts = 1
    Chunks = 2
    MaxStarts = 1
    MaxStops = 0
    MaxLost = 1
INVARIANTS AnswerWhole
CHECK_DEADLOCK FALSE
