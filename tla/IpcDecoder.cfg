SPECIFICATION Spec
CONSTANTS
    Calls = {c1, c2}
    Conns = {k1, k2}
    NoConn = NoConn
    NoCall = NoCall
    MaxJunk = 0
    MaxClose = 1
    ReuseClosed = FALSE
SYMMETRY Symmetry
INVARIANT ProtocolMeansMalformed

CHECK_DEADLOCK FALSE
