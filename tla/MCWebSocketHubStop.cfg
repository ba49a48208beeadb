\* Does Stop close every connection?
CONSTANTS
    Clients = {a, b}
    SendQueue = 1
    BroadcastQueue = 1
    OpsQueue = 1
    Attempts = 2
    Casters = 1
    Wrap = 4

SPECIFICATION Spec

\* After Stop, once every connection has ended, nothing is left to happen.
CHECK_DEADLOCK FALSE

INVARIANT StopClosesAll
