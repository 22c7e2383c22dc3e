----------------------------- MODULE HouseParts ------------------------------
(* Media, the Lutron gateway, the programs the backend keeps running, the      *)
(* doors, the accounts, the telephone book, the link to Asterisk, the agent on *)
(* the host and the alarm service side by side: each has variables of its own, *)
(* a behaviour is of one of them, chosen at the start, and the others stand    *)
(* still.  A name is that of its component's module behind a letter of its own. *)
CONSTANTS
    zSonos, zBluesound, zHouses, zLevels, zVolume0, zMaxMoves, zRounds,  \* MediaZones
    zMaxPolls,
    hRockers, hButtons, hNibbles, hVolumes, hVolumeStep, hMaxHolds,    \* VolumeHold
    kLists, kCore, kRadio, kOther, kTexts, kLabels, kInside, kHeads, kShows,   \* MediaSkip
    pApps, pMaxLogins, pMaxCalls,                                      \* SpotifyLink
    lProcessors, lHouses, lHouse, lMaxSaves, lMaxSockets,              \* LutronGateway
    cYamls, cMaxStarts,                                                \* ChildProcs
    dDoors, dSetup, dSipOf,                                            \* DoorRings
    aPeople, aSids, aPairing, aRoles, aWishes, aMaxPuts, Gone,         \* Accounts
    bPeople, bNumbers, bMaxFresh, bMaxSaves,                           \* VoipBook
    uMaxSaves, uCodes, uMaxBoots, Torn,                                \* HostAgent
    mMaxClients, mMaxChanges, mMaxQueue,                               \* AmiLink
    yModes, yMaxSlot, yMaxWire, yMaxChanges,                           \* SatelBridge
    fMaxPuts,                                                          \* SatelConfig
    None

VARIABLES
    part,  \* the component that moves: the others stand still
    zDrivers, zView, zGroupMap, zUuidTried, zUuidKnown, zHw, zPolls, zJoins, zWrites, zLeft, zAsks,
    zCalm, zMoves,  \* media/manager.ts: states, groups, volumes
    hBound, hSaved, hVolume, hMuted, hPrev, hHold, hTimers, hApplying, hToggles, hAsked,
    hStarted, hLastDim,  \* media/knxBridge.ts
    kPresets, kSeen, kHint, kCaught,  \* media/skipLogic.ts
    pStore, pNonces, pLogins, pCalls, pUsed, pLinked, pCrossed,
    lSlots, lTimers, lOpen, lSaves, lSockets, lSent, lBus,  \* lutron/manager.ts
    cKid, cProcs, cEnabled, cTimers, cFailed, cHeld, cYaml, cWritten,
    dCall, dShown, dHook, dLast, dAnswered, dChan, dPulse, dTold, dHeard, dCrossed,
    aUsers, aSessions, aCodes, aEdit, aLogin, aEditor, aPuts,
    bHouse, bEdit, bPut, bPbx, bBehind, bSaves,  \* voip/normalize.ts, voip/asteriskConfig.ts
    uPc, uStatus, uNext, uAsked, uLock, uCode, uHand, uEnrol, uHalf, uDisk, uMem, uBak, uSaves,
    uBoots, uDuring, uHasty, uTried,
    mEnabled, mPbx, mClients, mAmi, mReload, mVia, mContact, mRegistered, mChanges, mOverlapped,
    mOutrun,
    yEncrypted, yUp, ySent, yLink, yHolders, yQuery, yByCmd, yArmed, ySlot, yFound, yLayout,
    yPanel, yChanges, yStale, ySlow,
    fConf, fFile, fReloads, fPuts, fCrossed

zVars == <<zDrivers, zView, zGroupMap, zUuidTried, zUuidKnown, zHw, zPolls, zJoins, zWrites,
           zLeft, zAsks, zCalm, zMoves>>
hVars == <<hBound, hSaved, hVolume, hMuted, hPrev, hHold, hTimers, hApplying, hToggles, hAsked,
           hStarted, hLastDim>>
kVars == <<kPresets, kSeen, kHint, kCaught>>
pVars == <<pStore, pNonces, pLogins, pCalls, pUsed, pLinked, pCrossed>>
lVars == <<lSlots, lTimers, lOpen, lSaves, lSockets, lSent, lBus>>
cVars == <<cKid, cProcs, cEnabled, cTimers, cFailed, cHeld, cYaml, cWritten>>
dVars == <<dCall, dShown, dHook, dLast, dAnswered, dChan, dPulse, dTold, dHeard, dCrossed>>
aVars == <<aUsers, aSessions, aCodes, aEdit, aLogin, aEditor, aPuts>>
bVars == <<bHouse, bEdit, bPut, bPbx, bBehind, bSaves>>
uVars == <<uPc, uStatus, uNext, uAsked, uLock, uCode, uHand, uEnrol, uHalf, uDisk, uMem, uBak,
           uSaves, uBoots, uDuring, uHasty, uTried>>
mVars == <<mEnabled, mPbx, mClients, mAmi, mReload, mVia, mContact, mRegistered, mChanges,
           mOverlapped, mOutrun>>
yVars == <<yEncrypted, yUp, ySent, yLink, yHolders, yQuery, yByCmd, yArmed, ySlot, yFound,
           yLayout, yPanel, yChanges, yStale, ySlow>>
fVars == <<fConf, fFile, fReloads, fPuts, fCrossed>>

Zones == INSTANCE MediaZones WITH
    Sonos <- zSonos, Bluesound <- zBluesound, Houses <- zHouses, Levels <- zLevels,
    Volume0 <- zVolume0, MaxMoves <- zMaxMoves, Rounds <- zRounds, MaxPolls <- zMaxPolls,
    drivers <- zDrivers, view <- zView, groupMap <- zGroupMap, uuidTried <- zUuidTried,
    uuidKnown <- zUuidKnown, hw <- zHw, polls <- zPolls, joins <- zJoins, writes <- zWrites,
    left <- zLeft, asks <- zAsks, calm <- zCalm, moves <- zMoves
Hold == INSTANCE VolumeHold WITH
    Rockers <- hRockers, Buttons <- hButtons, Nibbles <- hNibbles, Volumes <- hVolumes,
    VOLUME_STEP <- hVolumeStep, MaxHolds <- hMaxHolds, bound <- hBound, saved <- hSaved,
    volume <- hVolume, muted <- hMuted, prev <- hPrev, hold <- hHold, timers <- hTimers,
    applying <- hApplying, toggles <- hToggles, asked <- hAsked, started <- hStarted,
    lastDim <- hLastDim
Skips == INSTANCE MediaSkip WITH
    Lists <- kLists, Core <- kCore, Radio <- kRadio, Other <- kOther, Labels <- kLabels,
    Texts <- kTexts, Inside <- kInside, Heads <- kHeads, Shows <- kShows, presets <- kPresets, seen <- kSeen,
    hint <- kHint, caught <- kCaught
Spotify == INSTANCE SpotifyLink WITH
    Apps <- pApps, MaxLogins <- pMaxLogins, MaxCalls <- pMaxCalls, store <- pStore,
    nonces <- pNonces, logins <- pLogins, calls <- pCalls, used <- pUsed, linked <- pLinked,
    crossed <- pCrossed
Lutron == INSTANCE LutronGateway WITH
    Processors <- lProcessors, Houses <- lHouses, House <- lHouse, MaxSaves <- lMaxSaves,
    MaxSockets <- lMaxSockets, slots <- lSlots, timers <- lTimers, open <- lOpen,
    saves <- lSaves, sockets <- lSockets, sent <- lSent, bus <- lBus
Procs == INSTANCE ChildProcs WITH
    Yamls <- cYamls, MaxStarts <- cMaxStarts, kid <- cKid, procs <- cProcs,
    enabled <- cEnabled, timers <- cTimers, failed <- cFailed, held <- cHeld, yaml <- cYaml,
    written <- cWritten
Rings == INSTANCE DoorRings WITH
    Doors <- dDoors, Setup <- dSetup, SipOf <- dSipOf, call <- dCall, shown <- dShown,
    hook <- dHook, last <- dLast, answered <- dAnswered, chan <- dChan, pulse <- dPulse,
    told <- dTold, heard <- dHeard, crossed <- dCrossed
Accts == INSTANCE Accounts WITH
    Users <- aPeople, Sids <- aSids, Codes <- aPairing, Roles <- aRoles, Wishes <- aWishes,
    MaxPuts <- aMaxPuts, users <- aUsers, sessions <- aSessions, codes <- aCodes,
    edit <- aEdit, login <- aLogin, editor <- aEditor, puts <- aPuts
Book == INSTANCE VoipBook WITH
    Users <- bPeople, Numbers <- bNumbers, MaxFresh <- bMaxFresh, MaxSaves <- bMaxSaves,
    house <- bHouse,
    edit <- bEdit, put <- bPut, pbx <- bPbx, behind <- bBehind, saves <- bSaves
Host == INSTANCE HostAgent WITH
    MaxSaves <- uMaxSaves, Codes <- uCodes, MaxBoots <- uMaxBoots, pc <- uPc,
    status <- uStatus, next <- uNext, asked <- uAsked, lock <- uLock, code <- uCode,
    hand <- uHand, enrol <- uEnrol, half <- uHalf, disk <- uDisk, mem <- uMem, bak <- uBak,
    saves <- uSaves, boots <- uBoots, during <- uDuring, hasty <- uHasty, tried <- uTried
Ami == INSTANCE AmiLink WITH
    MaxClients <- mMaxClients, MaxChanges <- mMaxChanges, MaxQueue <- mMaxQueue,
    enabled <- mEnabled, pbx <- mPbx, clients <- mClients, ami <- mAmi, reload <- mReload,
    via <- mVia, contact <- mContact, registered <- mRegistered, changes <- mChanges,
    overlapped <- mOverlapped, outrun <- mOutrun
Alarm == INSTANCE SatelBridge WITH
    Modes <- yModes, MaxSlot <- yMaxSlot, MaxWire <- yMaxWire, MaxChanges <- yMaxChanges,
    encrypted <- yEncrypted, up <- yUp, sent <- ySent, link <- yLink, holders <- yHolders,
    query <- yQuery, byCmd <- yByCmd, armed <- yArmed, slot <- ySlot, found <- yFound,
    layout <- yLayout, panel <- yPanel, changes <- yChanges, stale <- yStale, slow <- ySlow
AlarmConf == INSTANCE SatelConfig WITH
    MaxPuts <- fMaxPuts,
    conf <- fConf, file <- fFile, reloads <- fReloads, puts <- fPuts, crossed <- fCrossed

ASSUME HouseAssumption ==
    /\ Zones!MediaAssumption /\ Hold!HoldAssumption /\ Skips!SkipAssumption
    /\ Spotify!SpotifyAssumption /\ Lutron!LutronAssumption /\ Procs!ProcsAssumption
    /\ Rings!SetupAssumption /\ Accts!AccountsAssumption /\ Book!BookAssumption
    /\ Host!HostAssumption /\ Ami!AmiAssumption /\ Alarm!SatelAssumption /\ AlarmConf!SatelConfigAssumption

-----------------------------------------------------------------------------
zOff ==
    zDrivers = None /\ zView = None /\ zGroupMap = None /\ zUuidTried = None /\
    zUuidKnown = None /\ zHw = None /\ zPolls = None /\ zJoins = None /\ zWrites = None /\
    zLeft = None /\ zAsks = None /\ zCalm = None /\ zMoves = None
hOff ==
    hBound = None /\ hSaved = None /\ hVolume = None /\ hMuted = None /\ hPrev = None /\
    hHold = None /\ hTimers = None /\ hApplying = None /\ hToggles = None /\ hAsked = None /\
    hStarted = None /\ hLastDim = None
kOff ==
    kPresets = None /\ kSeen = None /\ kHint = None /\ kCaught = None
pOff ==
    pStore = None /\ pNonces = None /\ pLogins = None /\ pCalls = None /\ pUsed = None
    /\ pLinked = None /\ pCrossed = None
lOff ==
    lSlots = None /\ lTimers = None /\ lOpen = None /\ lSaves = None /\ lSockets = None
    /\ lSent = None /\ lBus = None
cOff ==
    cKid = None /\ cProcs = None /\ cEnabled = None /\ cTimers = None /\ cFailed = None
    /\ cHeld = None /\ cYaml = None /\ cWritten = None
dOff ==
    dCall = None /\ dShown = None /\ dHook = None /\ dLast = None /\ dAnswered = None /\
    dChan = None /\ dPulse = None /\ dTold = None /\ dHeard = None /\ dCrossed = None
aOff ==
    aUsers = None /\ aSessions = None /\ aCodes = None /\ aEdit = None /\ aLogin = None
    /\ aEditor = None /\ aPuts = None
bOff ==
    bHouse = None /\ bEdit = None /\ bPut = None /\ bPbx = None /\ bBehind = None /\ bSaves = None
uOff ==
    uPc = None /\ uStatus = None /\ uNext = None /\ uAsked = None /\ uLock = None /\
    uCode = None /\ uHand = None /\ uEnrol = None /\ uHalf = None /\ uDisk = None /\
    uMem = None /\ uBak = None /\ uSaves = None /\ uBoots = None /\ uDuring = None /\
    uHasty = None /\ uTried = None
mOff ==
    mEnabled = None /\ mPbx = None /\ mClients = None /\ mAmi = None /\ mReload = None /\
    mVia = None /\ mContact = None /\ mRegistered = None /\ mChanges = None /\
    mOverlapped = None /\ mOutrun = None
yOff ==
    yEncrypted = None /\ yUp = None /\ ySent = None /\ yLink = None /\ yHolders = None /\
    yQuery = None /\ yByCmd = None /\ yArmed = None /\ ySlot = None /\ yFound = None /\
    yLayout = None /\ yPanel = None /\ yChanges = None /\ yStale = None /\ ySlow = None
fOff ==
    fConf = None /\ fFile = None /\ fReloads = None /\ fPuts = None /\ fCrossed = None

(* Outside the house: the host, Asterisk, the alarm panel.                    *)
outOff == uOff /\ mOff /\ yOff /\ fOff
outVars == <<uVars, mVars, yVars, fVars>>
inOff == zOff /\ hOff /\ kOff /\ pOff /\ lOff /\ cOff /\ dOff /\ aOff /\ bOff
inVars == <<zVars, hVars, kVars, pVars, lVars, cVars, dVars, aVars, bVars>>

Init ==
    \/ /\ outOff
       /\ \/ part = "zones" /\ Zones!Init /\ hOff /\ kOff /\ pOff /\ lOff /\ cOff /\ dOff /\ aOff /\ bOff
          \/ part = "hold" /\ Hold!Init /\ zOff /\ kOff /\ pOff /\ lOff /\ cOff /\ dOff /\ aOff /\ bOff
          \/ part = "skip" /\ Skips!Init /\ zOff /\ hOff /\ pOff /\ lOff /\ cOff /\ dOff /\ aOff /\ bOff
          \/ part = "spotify" /\ Spotify!Init /\ zOff /\ hOff /\ kOff /\ lOff /\ cOff /\ dOff /\ aOff /\ bOff
          \/ part = "lutron" /\ Lutron!Init /\ zOff /\ hOff /\ kOff /\ pOff /\ cOff /\ dOff /\ aOff /\ bOff
          \/ part = "procs" /\ Procs!Init /\ zOff /\ hOff /\ kOff /\ pOff /\ lOff /\ dOff /\ aOff /\ bOff
          \/ part = "doors" /\ Rings!Init /\ zOff /\ hOff /\ kOff /\ pOff /\ lOff /\ cOff /\ aOff /\ bOff
          \/ part = "accounts" /\ Accts!Init /\ zOff /\ hOff /\ kOff /\ pOff /\ lOff /\ cOff /\ dOff /\ bOff
          \/ part = "book" /\ Book!Init /\ zOff /\ hOff /\ kOff /\ pOff /\ lOff /\ cOff /\ dOff /\ aOff
    \/ part = "update" /\ Host!Init /\ inOff /\ mOff /\ yOff /\ fOff
    \/ part = "ami" /\ Ami!Init /\ inOff /\ uOff /\ yOff /\ fOff
    \/ part = "alarm" /\ Alarm!Init /\ inOff /\ uOff /\ mOff /\ fOff
    \/ part = "alarmConfig" /\ AlarmConf!Init /\ inOff /\ uOff /\ mOff /\ yOff

Next ==
    /\ UNCHANGED part
    /\ \/ part = "zones" /\ Zones!Next
          /\ UNCHANGED <<hVars, kVars, pVars, lVars, cVars, dVars, aVars, bVars, outVars>>
       \/ part = "hold" /\ Hold!Next
          /\ UNCHANGED <<zVars, kVars, pVars, lVars, cVars, dVars, aVars, bVars, outVars>>
       \/ part = "skip" /\ Skips!Next
          /\ UNCHANGED <<zVars, hVars, pVars, lVars, cVars, dVars, aVars, bVars, outVars>>
       \/ part = "spotify" /\ Spotify!Next
          /\ UNCHANGED <<zVars, hVars, kVars, lVars, cVars, dVars, aVars, bVars, outVars>>
       \/ part = "lutron" /\ Lutron!Next
          /\ UNCHANGED <<zVars, hVars, kVars, pVars, cVars, dVars, aVars, bVars, outVars>>
       \/ part = "procs" /\ Procs!Next
          /\ UNCHANGED <<zVars, hVars, kVars, pVars, lVars, dVars, aVars, bVars, outVars>>
       \/ part = "doors" /\ Rings!Next
          /\ UNCHANGED <<zVars, hVars, kVars, pVars, lVars, cVars, aVars, bVars, outVars>>
       \/ part = "accounts" /\ Accts!Next
          /\ UNCHANGED <<zVars, hVars, kVars, pVars, lVars, cVars, dVars, bVars, outVars>>
       \/ part = "book" /\ Book!Next
          /\ UNCHANGED <<zVars, hVars, kVars, pVars, lVars, cVars, dVars, aVars, outVars>>
       \/ part = "update" /\ Host!Next
          /\ UNCHANGED <<inVars, mVars, yVars, fVars>>
       \/ part = "ami" /\ Ami!Next
          /\ UNCHANGED <<inVars, uVars, yVars, fVars>>
       \/ part = "alarm" /\ Alarm!Next
          /\ UNCHANGED <<inVars, uVars, mVars, fVars>>
       \/ part = "alarmConfig" /\ AlarmConf!Next
          /\ UNCHANGED <<inVars, uVars, mVars, yVars>>

allVars == <<part, inVars, outVars>>

Spec == Init /\ [][Next]_allVars

-----------------------------------------------------------------------------
(* The state of each component has its type.                                  *)
TypesOK ==
    /\ part = "zones" => Zones!TypesOK
    /\ part = "hold" => Hold!TypesOK
    /\ part = "skip" => Skips!TypesOK
    /\ part = "spotify" => Spotify!TypesOK
    /\ part = "lutron" => Lutron!TypesOK
    /\ part = "procs" => Procs!TypesOK
    /\ part = "doors" => Rings!TypesOK
    /\ part = "accounts" => Accts!TypesOK
    /\ part = "book" => Book!TypesOK
    /\ part = "update" => Host!TypesOK
    /\ part = "ami" => Ami!TypesOK
    /\ part = "alarm" => Alarm!TypesOK
    /\ part = "alarmConfig" => AlarmConf!TypesOK

(* What each zone is shown to be in agrees with the group map, a group's      *)
(* volumes move together, and after a quiet round the shown groups are the    *)
(* real ones: see MediaZones.                                                 *)
ZonesSound == part = "zones" => Zones!ZonesSound /\ Zones!GroupsCatchUp

(* A volume hold is the rocker's; next and previous go round the favourites:  *)
(* see VolumeHold and MediaSkip.                                              *)
ButtonsSound ==
    /\ part = "hold" => Hold!HoldFollowsRocker
    /\ part = "skip" => Skips!RingsComeRound

(* The household is linked to Spotify when its last login was the last word:  *)
(* see SpotifyLink.                                                           *)
LinkIsTheWish == part = "spotify" => Spotify!LinkIsTheWish

(* Each processor of the house has one socket or one reconnect timer; what is *)
(* shown and read of the alarm panel is what it has, and its service keeps the *)
(* configuration it saved: see LutronGateway, SatelBridge and SatelConfig.     *)
GatewaysKept ==
    /\ part = "lutron" => Lutron!GatewaysKept
    /\ part = "alarm" => Alarm!SatelSound
    /\ part = "alarmConfig" => AlarmConf!FileIsConfig

(* One Asterisk with one link to it, programs that come back, streams as they *)
(* were saved; one update or enrolment at a time, also when the agent is cut  *)
(* short: see ChildProcs, AmiLink and HostAgent.                              *)
ProcsSound ==
    /\ part = "procs" => Procs!ProcsSound
    /\ part = "ami" => Ami!LinkSound
    /\ part = "update" => Host!HostSound

(* Doors that ring one at a time are shown and opened as they should be: see  *)
(* DoorRings.                                                                 *)
LoneRing == part = "doors" => Rings!LoneRing

(* Whoever gets a new password is signed out everywhere: see Accounts.        *)
CutOff == part = "accounts" => Accts!CutOff

(* The SIP accounts belong to people who have one, and a dialled number        *)
(* reaches whom the dial plan should let it reach: see VoipBook.               *)
ListsSound == part = "book" => Book!BookSound /\ Book!DialSound

(* A save never changes the SIP password of an account that stays: see        *)
(* VoipBook.                                                                  *)
PasswordsKept == [][part = "book" => Book!SecretsKept]_bVars
=============================================================================
