CONSTANTS
    Panels = {p1, p2}
    Chans = {k1, k2}
    DoorBirds = {TRUE, FALSE}
    Buttons = TRUE
    LateCalls = TRUE
    Cancels = TRUE
    AmiMayDrop = TRUE
    MaxQueue = 4
    None = None
SPECIFICATION FairSpec
INVARIANTS
    TypeOK
    LoneCallSound
    DoorChannelsLive
    ShownFree
PROPERTIES
    LineComesFree
