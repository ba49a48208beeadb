\* Eviction, closing and registration come to an end.
CONSTANTS
    Clients = {a, b}
    SendQueue = 1
    BroadcastQueue = 1
    OpsQueue = 1
    Attempts = 1
    Casters = 1
    Wrap = 1

SPECIFICATION FairSpec

\* After Stop, once every connection has ended, nothing is left to happen.
CHECK_DEADLOCK FALSE

PROPERTY StragglersEvicted
PROPERTY EvictedIsCutOff
PROPERTY RegisterReturns
