CONSTANTS
    g = g
    r = r
    v0 = v0
    v1 = v1
    A = A
    B = B
    l1 = l1
    s1 = s1
    d1 = d1
    d2 = d2
    d3 = d3
    hood = hood
    shower = shower
    night = night
    co2 = co2
    humid = humid
    None = None
    gGAs = {g, r}
    gRawGAs = {r}
    gMediaGAs = {}
    gHouses <- MCSavedGroups
    gVals = {v0, v1}
    gMaxWire = 1
    gMaxChain = 1
    iMaxFilled = 2
    sRooms = {A, B}
    sMaxStarts = 2
    cLights = {l1}
    cShades = {s1}
    hClimates = {d1, d2, d3}
    dMaxJobs = 2
    vLogics = {hood, shower, night}
    vSetup <- MCVentSetup
    vSensors = {co2, humid}
    vModels = {"duco", "mv_0_10v", "mv_scene", "modbus"}
    vHouses <- MCSavedLogics
SPECIFICATION Spec
INVARIANTS
    TypesOK
    CacheFollowsBus
    GroupRolesSound
    LearningSound
    CommandsSound
    ClimateSound
PROPERTIES
    AnswersItsRoom
CHECK_DEADLOCK FALSE
