\* Does a hot apply that succeeds leave the core matching the new configuration?
CONSTANTS
    Inbounds = {i1, i2}
    Users = {u}
    Bases = {b1}
    Callers = {c1}
    MaxEdits = 3
    MaxFaults = 1
    NoUser = NoUser
    NoCaller = NoCaller

SPECIFICATION Spec

INVARIANT HotApplyMatches
