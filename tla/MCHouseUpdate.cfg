CONSTANTS
    s1 = s1
    s2 = s2
    b1 = b1
    q1 = q1
    gate = gate
    front = front
    inst = inst
    boss = boss
    lHouse = lHouse
    None = None
    Gone = Gone
    Torn = Torn
    zSonos = {s1, s2}
    zBluesound = {b1}
    zHouses <- MCHouses
    zLevels = {40}
    zVolume0 <- MCVolume0
    zMaxMoves = 2
    zRounds = {n1, n2}
    zMaxPolls = 1
    hRockers = {r1}
    hButtons = {p1}
    hNibbles = {0, 3, 11}
    hVolumes = {93}
    hVolumeStep = 40
    hMaxHolds = 2
    kLists <- MCSkipLists
    kCore <- MCCore
    kRadio = {"a", "a?1", "b", "c"}
    kOther = {"q"}
    kTexts <- MCTexts
    kLabels = {"TuneIn", "Radio", "Radio 1", "Radio 10"}
    kInside <- MCInside
    kHeads <- MCHeads
    kShows <- MCShows
    pApps = {a1, a2}
    pMaxLogins = 3
    pMaxCalls = 2
    lProcessors = {lHouse, q1}
    lHouses <- MCLutronHouses
    lMaxSaves = 3
    lMaxSockets = 4
    cYamls = {1, 2}
    cMaxStarts = 4
    dDoors = {gate, front}
    dSetup <- MCTwoDoors
    dSipOf = {gate, front}
    aPeople = {inst, boss}
    aSids = {id1, id2}
    aPairing = {c1}
    aRoles <- MCRoles
    aWishes = {"password", "disable", "remove", "add"}
    aMaxPuts = 1
    bPeople = {11, 12}
    bNumbers = {101, 900}
    bMaxFresh = 14
    bMaxSaves = 4
    uMaxSaves = 2
    uCodes = {c1}
    uMaxBoots = 2
    mMaxClients = 3
    mMaxChanges = 2
    mMaxQueue = 2
    yModes = {0, 1}
    yMaxSlot = 2
    yMaxWire = 2
    yMaxChanges = 1
    fMaxPuts = 3
INIT UpdateInit
NEXT Next
INVARIANT
    KeepsSaves
CHECK_DEADLOCK FALSE
