------------------------------ MODULE BusParts ------------------------------
(* The components around the KNX bus side by side: each has variables of its   *)
(* own, a behaviour is of one of them, chosen at the start, and the others     *)
(* stand still.  A name is that of its component's module behind a letter of   *)
(* its own.                                                                    *)
CONSTANTS
    gGAs, gRawGAs, gMediaGAs, gHouses, gVals, gMaxWire, gMaxChain,  \* KnxGroups
    iMaxFilled,                                                     \* GroupRoles
    sRooms, sMaxStarts,                                             \* SceneListen
    cLights, cShades,                                               \* SceneContrast
    hClimates,                                                      \* HvacLock
    dMaxJobs,                                                       \* DeviceCommands
    vLogics, vSetup, vSensors, vModels, vHouses,                    \* VentLogic
    None

VARIABLES
    part,  \* the component that moves: the others stand still
    gTunnel, gAlive, gWanted, gAsked, gPoints, gCache, gMine, gChain, gSent, gUnread, gBus, gWire,
    gUnsure,  \* knxBus.ts: values, reads, own writes
    iPlace, iBound, iGaRoles, iAddress, iTelegram,  \* config.ts: what the addresses are for
    sListen, sHeard, sStarting, sOwn, sStray, sWizards, sCalm,  \* knxSceneLearn.ts: sessions
    cScene, cTalks, cForeign, cLevel, cSeen, cFresh, cPhase, cPass, cBefore, cLearned, cLate,
    cMissed,  \* knxSceneLearn.ts: the wizard's test
    hHeld, hFile, hUnsaved,  \* hvacSwitchLock.ts
    dHas, dUp, dBus, dJobs, dVirtual, dFire, dDimmed, dHalf, dCalm,  \* commands.ts, scenes.ts
    vModel, vHouse, vRegistered, vUnit, vStatus, vSensor, vTiming, vHeld, vRuns, vDue, vWish,
    vCalm, vOut  \* wtwRuntime.ts: the logics of the other units

gVars == <<gTunnel, gAlive, gWanted, gAsked, gPoints, gCache, gMine, gChain, gSent, gUnread, gBus,
           gWire, gUnsure>>
iVars == <<iPlace, iBound, iGaRoles, iAddress, iTelegram>>
sVars == <<sListen, sHeard, sStarting, sOwn, sStray, sWizards, sCalm>>
cVars == <<cScene, cTalks, cForeign, cLevel, cSeen, cFresh, cPhase, cPass, cBefore, cLearned,
           cLate, cMissed>>
hVars == <<hHeld, hFile, hUnsaved>>
dVars == <<dHas, dUp, dBus, dJobs, dVirtual, dFire, dDimmed, dHalf, dCalm>>
vVars == <<vModel, vHouse, vRegistered, vUnit, vStatus, vSensor, vTiming, vHeld, vRuns, vDue,
           vWish, vCalm, vOut>>

Groups == INSTANCE KnxGroups WITH
    GAs <- gGAs, RawGAs <- gRawGAs, MediaGAs <- gMediaGAs, Houses <- gHouses, Vals <- gVals,
    MaxWire <- gMaxWire, MaxChain <- gMaxChain, tunnel <- gTunnel, alive <- gAlive, wanted <- gWanted, asked <- gAsked,
    points <- gPoints, cache <- gCache, mine <- gMine, chain <- gChain, sent <- gSent,
    unread <- gUnread, bus <- gBus, wire <- gWire, unsure <- gUnsure
Roles == INSTANCE GroupRoles WITH
    MaxFilled <- iMaxFilled, place <- iPlace, bound <- iBound, gaRoles <- iGaRoles, address <- iAddress,
    telegram <- iTelegram
Listen == INSTANCE SceneListen WITH
    Rooms <- sRooms, MaxStarts <- sMaxStarts, listen <- sListen, heard <- sHeard, starting <- sStarting,
    own <- sOwn, stray <- sStray, wizards <- sWizards, calm <- sCalm
Contrast == INSTANCE SceneContrast WITH
    Lights <- cLights, Shades <- cShades, scene <- cScene, talks <- cTalks, foreign <- cForeign,
    level <- cLevel, seen <- cSeen, fresh <- cFresh, phase <- cPhase, pass <- cPass,
    before <- cBefore, learned <- cLearned, late <- cLate, missed <- cMissed
Locks == INSTANCE HvacLock WITH
    Climates <- hClimates, held <- hHeld, file <- hFile, unsaved <- hUnsaved
Commands == INSTANCE DeviceCommands WITH
    MaxJobs <- dMaxJobs, has <- dHas, up <- dUp, bus <- dBus, jobs <- dJobs, virtual <- dVirtual,
    fire <- dFire, dimmed <- dDimmed, half <- dHalf, calm <- dCalm
Vent == INSTANCE VentLogic WITH
    Logics <- vLogics, Setup <- vSetup, Sensors <- vSensors, Models <- vModels,
    Houses <- vHouses, model <- vModel, house <- vHouse,
    registered <- vRegistered, unit <- vUnit, status <- vStatus, sensor <- vSensor,
    timing <- vTiming, held <- vHeld, runs <- vRuns, due <- vDue, wish <- vWish, calm <- vCalm,
    out <- vOut

ASSUME BusAssumption ==
    /\ Groups!KnxGroupsAssumption /\ Roles!GroupRolesAssumption /\ Listen!SceneListenAssumption
    /\ Contrast!SceneContrastAssumption /\ Commands!DeviceCommandsAssumption
    /\ Vent!VentLogicAssumption

-----------------------------------------------------------------------------
gOff ==
    gTunnel = None /\ gAlive = None /\ gWanted = None /\ gAsked = None /\ gPoints = None /\ gCache = None
    /\ gMine = None /\ gChain = None /\ gSent = None /\ gUnread = None /\ gBus = None /\
    gWire = None /\ gUnsure = None
iOff ==
    iPlace = None /\ iBound = None /\ iGaRoles = None /\ iAddress = None /\
    iTelegram = None
sOff ==
    sListen = None /\ sHeard = None /\ sStarting = None /\ sOwn = None /\ sStray = None
    /\ sWizards = None /\ sCalm = None
cOff ==
    cScene = None /\ cTalks = None /\ cForeign = None /\ cLevel = None /\ cSeen = None
    /\ cFresh = None /\ cPhase = None /\ cPass = None /\ cBefore = None /\ cLearned = None /\
    cLate = None /\ cMissed = None
hOff ==
    hHeld = None /\ hFile = None /\ hUnsaved = None
dOff ==
    dHas = None /\ dUp = None /\ dBus = None /\ dJobs = None /\ dVirtual = None /\
    dFire = None /\ dDimmed = None /\ dHalf = None /\ dCalm = None
vOff ==
    vModel = None /\ vHouse = None /\ vRegistered = None /\ vUnit = None /\
    vStatus = None /\ vSensor = None /\ vTiming = None /\ vHeld = None /\ vRuns = None /\
    vDue = None /\ vWish = None /\ vCalm = None /\ vOut = None

Init ==
    \/ part = "groups" /\ Groups!Init /\ iOff /\ sOff /\ cOff /\ hOff /\ dOff /\ vOff
    \/ part = "roles" /\ Roles!Init /\ gOff /\ sOff /\ cOff /\ hOff /\ dOff /\ vOff
    \/ part = "listen" /\ Listen!Init /\ gOff /\ iOff /\ cOff /\ hOff /\ dOff /\ vOff
    \/ part = "contrast" /\ Contrast!Init /\ gOff /\ iOff /\ sOff /\ hOff /\ dOff /\ vOff
    \/ part = "locks" /\ Locks!Init /\ gOff /\ iOff /\ sOff /\ cOff /\ dOff /\ vOff
    \/ part = "commands" /\ Commands!Init /\ gOff /\ iOff /\ sOff /\ cOff /\ hOff /\ vOff
    \/ part = "vent" /\ Vent!Init /\ gOff /\ iOff /\ sOff /\ cOff /\ hOff /\ dOff

Next ==
    /\ UNCHANGED part
    /\ \/ part = "groups" /\ Groups!Next /\ UNCHANGED <<iVars, sVars, cVars, hVars, dVars, vVars>>
       \/ part = "roles" /\ Roles!Next /\ UNCHANGED <<gVars, sVars, cVars, hVars, dVars, vVars>>
       \/ part = "listen" /\ Listen!Next /\ UNCHANGED <<gVars, iVars, cVars, hVars, dVars, vVars>>
       \/ part = "contrast" /\ Contrast!Next
          /\ UNCHANGED <<gVars, iVars, sVars, hVars, dVars, vVars>>
       \/ part = "locks" /\ Locks!Next /\ UNCHANGED <<gVars, iVars, sVars, cVars, dVars, vVars>>
       \/ part = "commands" /\ Commands!Next
          /\ UNCHANGED <<gVars, iVars, sVars, cVars, hVars, vVars>>
       \/ part = "vent" /\ Vent!Next /\ UNCHANGED <<gVars, iVars, sVars, cVars, hVars, dVars>>

allVars == <<part, gVars, iVars, sVars, cVars, hVars, dVars, vVars>>

Spec == Init /\ [][Next]_allVars

-----------------------------------------------------------------------------
(* The state of each component has its type.                                  *)
TypesOK ==
    /\ part = "groups" => Groups!TypesOK
    /\ part = "roles" => Roles!TypesOK
    /\ part = "listen" => Listen!TypesOK
    /\ part = "contrast" => Contrast!TypesOK
    /\ part = "locks" => Locks!TypesOK
    /\ part = "commands" => Commands!TypesOK
    /\ part = "vent" => Vent!TypesOK

(* The value cache of knxBus.ts agrees with the bus: see KnxGroups.           *)
CacheFollowsBus == part = "groups" => Groups!CacheFollowsBus

(* Every address entered is listened to, and its telegrams are read by the    *)
(* type of its role: see GroupRoles.                                          *)
GroupRolesSound == part = "roles" => Roles!GroupRolesSound

(* A learning session has its own timer and no other, and what is learned is  *)
(* what the scene sets: see SceneListen and SceneContrast.                    *)
LearningSound ==
    /\ part = "listen" => Listen!TimerOfSession
    /\ part = "contrast" => Contrast!LearnsTheScene

(* What a client is told ends a session is about the room of that session:    *)
(* see SceneListen.                                                           *)
AnswersItsRoom == [][part = "listen" => Listen!AnswerIsOfRoom]_sVars

(* Contacts open again, the shown fire is the real one: see DeviceCommands.   *)
CommandsSound == part = "commands" => Commands!CommandsSound

(* A lock of a climate device survives a restart; the clauses that end a run   *)
(* of a ventilation logic are watched, and the unit goes back to where it was: *)
(* see HvacLock and VentLogic.                                                 *)
ClimateSound ==
    /\ part = "locks" => Locks!LocksSurvive
    /\ part = "vent" => Vent!EndsAreWatched /\ Vent!PutBack
=============================================================================
