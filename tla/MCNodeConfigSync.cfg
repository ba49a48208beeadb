\* Edits, ticks, lost requests and one crash, outage or node-side edit.
CONSTANTS
    Tag = {a}
    Version = {v}
    Editor = {e1, e2}
    Gone = Gone
    MaxEdits = 2
    MaxFaults = 1
    MaxUpsets = 1
    MaxClock = 1

SPECIFICATION FairSpec

INVARIANT TypeOK
INVARIANT EditsHold
PROPERTY Converges
