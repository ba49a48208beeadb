\* Does a core that was stopped from the panel stay stopped?
CONSTANTS
    Inbounds = {i1}
    Users = {u}
    Bases = {b1, b2}
    Callers = {c1, c2}
    MaxEdits = 1
    MaxFaults = 0
    NoUser = NoUser
    NoCaller = NoCaller

SPECIFICATION Spec

PROPERTY StaysStopped
