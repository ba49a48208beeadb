\* Start/Stop cycles against three concurrent submissions, queue of one.
CONSTANTS
    Requests = {r1, r2, r3}
    Controllers = {c1, c2}
    QueueSize = 1
    MaxStarts = 2
    NoRequest = NoRequest

SPECIFICATION FairSpec

\* The controllers stop calling Start and Stop, and every submission returns.
CHECK_DEADLOCK FALSE

INVARIANT TypeOK
INVARIANT OneReachableWriter
INVARIANT AnswerIsTrue
INVARIANT DoneMeansDrained
PROPERTY EveryCallReturns
PROPERTY EveryStopReturns
PROPERTY KeepsPromise
