SPECIFICATION Spec
CONSTANTS
    Reqs = {r1, r2}
    MaxAttempts = 2
    Retryable = {"connect_failed"}
    MaxClose = 1
SYMMETRY Symmetry
INVARIANT AtMostOnce
CHECK_DEADLOCK FALSE
