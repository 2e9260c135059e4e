SPECIFICATION FairSpec
CONSTANTS
    Calls = {c1, c2}
    Conns = {k1, k2}
    NoConn = NoConn
    NoCall = NoCall
    MaxJunk = 1
    MaxClose = 1
    ReuseClosed = FALSE
INVARIANTS NoStrandedCall NoLeakedSocket
PROPERTIES OnlyOwnSocketFails ImplementsTransport EveryCallSettles
CHECK_DEADLOCK FALSE
