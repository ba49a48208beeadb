\* Overlapping edits, restarts, jobs and faults.
CONSTANTS
    Inbounds = {i1, i2}
    Users = {u}
    Bases = {b1, b2}
    Callers = {c1, c2}
    MaxEdits = 3
    MaxFaults = 1
    NoUser = NoUser
    NoCaller = NoCaller

SPECIFICATION Spec
SYMMETRY Symmetry

INVARIANT TypeOK
INVARIANT HiddenDriftIsMissed
INVARIANT HotApplyConverges
INVARIANT ManualMeansDown
