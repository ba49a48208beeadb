\* Does a stopping writer drain its queue while a caller runs a write inline?
CONSTANTS
    Requests = {r1, r2}
    Controllers = {c1}
    QueueSize = 2
    MaxStarts = 1
    NoRequest = NoRequest

SPECIFICATION Spec
CHECK_DEADLOCK FALSE

INVARIANT Serialized
