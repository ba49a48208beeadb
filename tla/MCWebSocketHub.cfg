\* Connections, broadcasts, overflows, panics and Stop.
CONSTANTS
    Clients = {a, b}
    SendQueue = 2
    BroadcastQueue = 1
    OpsQueue = 1
    Attempts = 2
    Casters = 1
    Wrap = 5

SPECIFICATION Spec

\* After Stop, once every connection has ended, nothing is left to happen.
CHECK_DEADLOCK FALSE

SYMMETRY Symmetry

INVARIANT TypeOK
INVARIANT NoGaps
INVARIANT NoGhosts
