SPECIFICATION FairBindingSpec
CONSTANTS
    Calls = {c1}
    MaxFailures = 2
INVARIANTS GateHolds OneRowPerResult
PROPERTIES StaysActive GoneAfterClose
CHECK_DEADLOCK FALSE
