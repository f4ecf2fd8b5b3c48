SPECIFICATION FairSpec
CONSTANTS
    Conns = {c1, c2}
    NoConn = NoConn
    Kickers = {k1}
    Modes <- EveryMode
CHECK_DEADLOCK FALSE
INVARIANTS
    StateMatchesPeer
    NoGhost
    HostLeaves
    NoOrphan
PROPERTY DeadLeaves
