SPECIFICATION Spec
CONSTANTS
    Ops = {o1, o2}
    Tasks = {t1}
    NoTask = NoTask
    MaxWait = 1
SYMMETRY Symmetry
INVARIANTS TaskRunsOnce TruthfulEnvelope ExpiryIsPending CancelFinal
CHECK_DEADLOCK FALSE
