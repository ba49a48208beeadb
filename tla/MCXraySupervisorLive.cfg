\* Is a core that is down started again, through several faults?
CONSTANTS
    Inbounds = {i1}
    Users = {u}
    Bases = {b1, b2}
    Callers = {c1, c2}
    MaxEdits = 1
    MaxFaults = 3
    NoUser = NoUser
    NoCaller = NoCaller

SPECIFICATION FairSpec

PROPERTY WatchdogRepairs
