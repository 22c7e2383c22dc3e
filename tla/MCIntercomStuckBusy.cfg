CONSTANTS
    Panels = {p1, p2}
    Chans = {k1, k2}
    DoorBirds = {FALSE}
    Buttons = FALSE
    LateCalls = FALSE
    Cancels = FALSE
    AmiMayDrop = FALSE
    MaxQueue = 4
    None = None
SPECIFICATION Spec
INVARIANT FreedAfterHangup
