SPECIFICATION Spec
CONSTANTS
    Conns = {c1, c2}
    NoConn = NoConn
    Kickers = {}
    Modes <- MercifulMode
CHECK_DEADLOCK FALSE
INVARIANT PeerIsConnected
