CONSTANTS
    shower = shower
    co2 = co2
    Logics = {shower, co2}
    Stand <- MCStand
    Trigger <- MCTrigger
    End <- MCEnd
    After <- MCAfter
    MayFail = TRUE
    MaxJobs = 2
    None = None
SPECIFICATION FairSpec
INVARIANTS
    TypeOK
    EndsArmed
    ReturnsToWish
PROPERTIES
    EveryRunEnds
