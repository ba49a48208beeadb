\* A limited client that moves bytes, and one that is renewed.
CONSTANTS
    one = one
    both = both
    NoClient = NoClient
    Clients = {one, both}
    Inbounds = {1, 2}
    Attached <- MCAttached
    Limited = {one}
    Limit = 1
    Renewing = {both}
    Delayed = {one}
    Busy = {one}
    MaxMoved = 3
    MaxEdits = 1
    Given = {"delayed"}

SPECIFICATION Spec

INVARIANTS
    TypeOK
    NeverOvercounts
    SiblingsAgree

PROPERTIES
    ResetRestores
    DepletedIsCut

\* the core may be down and everybody idle, with nothing left to expire
CHECK_DEADLOCK FALSE
