\* Two edits, one of each kind of write behind the page.
CONSTANTS
    direct = direct
    warp = warp
    api = api
    lb = lb
    blocked = blocked
    lb2 = lb2
    b = b
    Tag = {direct, blocked, warp, b}
    BalancerTag = {lb, lb2}
    Api = api
    Direct = direct
    Blocked = blocked
    Warp = warp
    Nord = {b}
    Offered = {b}
    Selectors <- MCSelectors
    None = None
    Initial <- MCInitial
    Default <- MCDefault
    InboundTag = {api, "in1", "in2"}
    Settings = {"api", "a", "b"}
    PanelEgressInboundTag = egress
    PanelEgressBasePort = 2
    Changes <- MCChanges
    MaxEdits = 2
    MaxEvents = 4
    MaxSaves = 2

SPECIFICATION Spec
INVARIANT TypeOK
INVARIANT TextTellsTemplate
INVARIANT CleanMeansStored
INVARIANT FormsHitTheirTarget
PROPERTY EditsGiveWayToNews
PROPERTY NoNewDangling
PROPERTY ObserversFollow
PROPERTY HotReloadMatches
PROPERTY HotReloadSucceeds

\* The session ends with the page closed for the last time.
CHECK_DEADLOCK FALSE
