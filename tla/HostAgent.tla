------------------------------ MODULE HostAgent -------------------------------
(* The agent on the host (docker/update-agent.sh) that replaces the program    *)
(* and enrols the house with the cloud, and the backend's side of it           *)
(* (serverUpdate.ts, remoteEnroll.ts).  The two have only files in common:     *)
(* requests that the backend writes and the agent removes, and statuses that   *)
(* are read while they are being written.  house.json is a third such file:    *)
(* the agent puts back its copy of it after fetching the program.              *)
EXTENDS Naturals, FiniteSets

CONSTANTS
    MaxSaves,  \* bound: how often the house is saved
    Codes,     \* enrolment codes, each given out once
    MaxBoots,  \* bound: how often the agent starts
    Torn,      \* the content of a file that is being written
    None

HostAssumption ==
    /\ MaxSaves \in Nat /\ MaxBoots \in Nat /\ Torn # None
    /\ \A s \in [state : {"idle", "running", "success", "error"}, beat : BOOLEAN,
                 start : {"recent", "old", None}],
           t \in {"begin", "build", "poll", "endError", "endSuccess"} :
        [status |-> s, then |-> t] # None

VARIABLES
    pc,       \* where the agent is
    status,   \* update-status.json, or Torn
    next,     \* what write_status is writing and what the agent does then, or None
    asked,    \* is update-request.json there?
    lock,     \* is update.lock there?
    code,     \* the code in enroll-request.json, or None
    hand,     \* the code the agent has read
    enrol,    \* enroll-status.json: its state, and is it older than its limit?
    half,     \* the backend has written a request and not yet its status
    disk, mem, bak,  \* the saves in house.json, in the backend's memory, in the copy
    saves, boots,    \* how many there were
    during,   \* history: the saves made while the program was fetched
    hasty,    \* history: was the request made before "running" was written?
    tried     \* history: code -> how often the agent used it

vars == <<pc, status, next, asked, lock, code, hand, enrol, half, disk, mem, bak, saves, boots,
          during, hasty, tried>>
files == <<status, next, asked, lock>>
cloud == <<code, hand, enrol, half, tried>>
house == <<disk, mem, bak, saves, during>>

Updating == {"begin", "fetch", "build"}
Empty == [state |-> "idle", beat |-> FALSE, start |-> None]
Busy(state) == state \in {"queued", "running"}

TypesOK ==
    /\ pc \in Updating \cup {"down", "boot", "poll", "write", "take", "start", "endError",
                           "endSuccess", "enroll", "enrolling"}
    /\ status = Torn \/ (status.state \in {"idle", "running", "success", "error"}
                         /\ status.beat \in BOOLEAN /\ status.start \in {"recent", "old", None})
    /\ asked \in BOOLEAN /\ lock \in BOOLEAN /\ hasty \in BOOLEAN
    /\ (pc = "write") = (next # None)
    /\ code \in Codes \cup {None} /\ hand \in Codes \cup {None} /\ half \in BOOLEAN
    /\ enrol.state \in {"idle", "queued", "running", "success", "error"} /\ enrol.stale \in BOOLEAN
    /\ mem \subseteq 1..saves /\ disk \subseteq mem /\ bak \subseteq mem

Init ==
    /\ pc = "down" /\ status = Empty /\ next = None /\ asked = FALSE /\ lock = FALSE
    /\ code = None /\ hand = None /\ half = FALSE
    /\ enrol = [state |-> "idle", stale |-> FALSE]
    /\ disk = {} /\ mem = {} /\ bak = {} /\ saves = 0 /\ boots = 0
    /\ during = {} /\ hasty = FALSE /\ tried = [c \in Codes |-> 0]

-----------------------------------------------------------------------------
(* readServerUpdateStatus: a file that cannot be parsed reads as idle.        *)
Read == IF status = Torn THEN Empty ELSE status
ShownState == IF asked /\ ~Busy(Read.state) THEN "queued" ELSE Read.state
AgentReady == Read.beat \/ (Busy(ShownState) /\ Read.start = "recent")

(* Mutant: an agent that looks dead is no reason to refuse.                   *)
MayAskDead == ~Busy(ShownState)

(* requestServerUpdate: 503 without an agent, 409 during an update.           *)
MayAsk == (AgentReady \/ ShownState = "running") /\ ~Busy(ShownState)

AskUpdate ==
    /\ MayAsk /\ ~half
    /\ asked' = TRUE /\ hasty' = (pc = "start")
    /\ UNCHANGED <<pc, status, next, lock, boots, house, cloud>>

(* persistConfig: the whole house as it is in memory, renamed into place.     *)
SaveHouse ==
    /\ saves < MaxSaves /\ ~half
    /\ saves' = saves + 1
    /\ mem' = mem \cup {saves'} /\ disk' = mem'
    /\ during' = IF pc = "fetch" THEN during \cup {saves'} ELSE during
    /\ UNCHANGED <<pc, files, boots, hasty, cloud, bak>>

(* The container is started again, by hand or by the installer's restart.     *)
BackendRestarts ==
    /\ mem' = disk /\ half' = FALSE
    /\ UNCHANGED <<pc, files, boots, hasty, code, hand, enrol, tried, disk, bak, saves, during>>

-----------------------------------------------------------------------------
(* releaseStuckRemoteEnroll, which every look at the enrolment begins with.   *)
Stuck == Busy(enrol.state) /\ enrol.stale
EnrolSeen == IF Stuck THEN [state |-> "error", stale |-> FALSE] ELSE enrol
CodeSeen == IF Stuck \/ enrol.state = "error" THEN None ELSE code

LookAtEnrol ==
    /\ ~half
    /\ enrol' = EnrolSeen /\ code' = CodeSeen
    /\ UNCHANGED <<pc, files, boots, hasty, house, hand, half, tried>>

(* requestRemoteEnroll: the request first, then the status.                   *)
GiveCode(c) ==
    /\ ~half /\ ~Busy(EnrolSeen.state)
    /\ tried[c] = 0 /\ c \notin {code, hand}
    /\ enrol' = EnrolSeen
    /\ code' = c /\ half' = TRUE
    /\ UNCHANGED <<pc, files, boots, hasty, house, hand, tried>>

CodeQueued ==
    /\ half
    /\ half' = FALSE /\ enrol' = [state |-> "queued", stale |-> FALSE]
    /\ UNCHANGED <<pc, files, boots, hasty, house, code, hand, tried>>

-----------------------------------------------------------------------------
(* write_status: the old file is read, the new one written over it.           *)
Writes(s, then) ==
    /\ status' = Torn /\ pc' = "write"
    /\ next' = [status |-> s, then |-> then]

WriteEnds ==
    /\ pc = "write"
    /\ status' = next.status /\ pc' = next.then /\ next' = None
    /\ UNCHANGED <<asked, lock, boots, hasty, house, cloud>>

AgentStarts ==
    /\ pc = "down" /\ boots < MaxBoots
    /\ pc' = "boot" /\ boots' = boots + 1
    /\ UNCHANGED <<files, hasty, house, cloud>>

(* Mutant: a boot leaves every state as it was.                               *)
BootStatusKept == [Read EXCEPT !.beat = TRUE]

(* The outcome of the last update is kept for the tablets that poll it; an    *)
(* update that was cut short is forgotten.                                    *)
BootStatus ==
    IF Read.state \in {"success", "error"} THEN [Read EXCEPT !.beat = TRUE]
    ELSE [state |-> "idle", beat |-> TRUE, start |-> None]

Boot ==
    /\ pc = "boot"
    /\ lock' = FALSE
    /\ Writes(BootStatus, "poll")
    /\ UNCHANGED <<asked, boots, hasty, house, cloud>>

Heartbeat ==
    /\ pc = "poll" /\ ~asked /\ code = None
    /\ Writes([Read EXCEPT !.beat = TRUE], "poll")
    /\ UNCHANGED <<asked, lock, boots, hasty, house, cloud>>

TakeUpdate ==
    /\ pc = "poll" /\ asked /\ ~lock
    /\ lock' = TRUE /\ pc' = "take"
    /\ UNCHANGED <<status, next, asked, boots, hasty, house, cloud>>

RemoveRequest ==
    /\ pc = "take"
    /\ asked' = FALSE /\ pc' = "start"
    /\ UNCHANGED <<status, next, lock, boots, hasty, house, cloud>>

StartUpdate ==
    /\ pc = "start"
    /\ Writes([state |-> "running", beat |-> TRUE, start |-> "recent"], "begin")
    /\ UNCHANGED <<asked, lock, boots, hasty, house, cloud>>

Ended(state) == [Read EXCEPT !.state = state, !.beat = TRUE]

(* Mutant: a copy that is there already is not made again.                    *)
CopyOnce == IF bak = {} THEN disk ELSE bak

(* house_bak                                                                  *)
Copy == disk

(* Docker must be there; then the house and .env are copied.                  *)
BeginUpdate ==
    /\ pc = "begin"
    /\ \/ Writes(Ended("error"), "endError") /\ UNCHANGED bak
       \/ pc' = "fetch" /\ bak' = Copy /\ UNCHANGED <<status, next>>
    /\ UNCHANGED <<asked, lock, boots, hasty, disk, mem, saves, during, cloud>>

(* git, else a tarball; restore_secrets whatever came of it.                  *)
FetchEnds ==
    /\ pc = "fetch"
    /\ disk' = bak
    /\ \/ Writes(Ended("error"), "endError")
       \/ Writes(Ended("running"), "build")
    /\ UNCHANGED <<asked, lock, boots, hasty, mem, bak, saves, during, cloud>>

(* compose up --build: the container is replaced when the image has changed.  *)
BuildEnds ==
    /\ pc = "build"
    /\ \/ Writes(Ended("error"), "endError") /\ UNCHANGED <<mem, half>>
       \/ /\ Writes(Ended("success"), "endSuccess")
          /\ \/ mem' = disk /\ half' = FALSE
             \/ UNCHANGED <<mem, half>>
    /\ UNCHANGED <<asked, lock, boots, hasty, disk, bak, saves, during, code, hand, enrol, tried>>

(* The lock goes; after a success the agent starts anew as its new version.   *)
UpdateEnds ==
    /\ pc \in {"endError", "endSuccess"}
    /\ lock' = FALSE
    /\ pc' = IF pc = "endSuccess" THEN "boot" ELSE "poll"
    /\ UNCHANGED <<status, next, asked, boots, hasty, house, cloud>>

-----------------------------------------------------------------------------
(* run_enroll: an update goes before it.                                      *)
ReadCode ==
    /\ pc = "poll" /\ ~asked /\ code # None
    /\ hand' = code /\ pc' = "enroll"
    /\ UNCHANGED <<files, boots, hasty, house, code, enrol, half, tried>>

(* Mutant: the request is removed when the enrolment is over.                 *)
RequestKept == code

(* rm -f "$req"                                                               *)
RequestUsed == None

(* A request that cannot be read is an error; else it is used.                *)
UseCode ==
    /\ pc = "enroll"
    /\ code' = RequestUsed
    /\ \/ /\ enrol' = [state |-> "error", stale |-> FALSE]
          /\ pc' = "poll" /\ hand' = None /\ UNCHANGED tried
       \/ /\ enrol' = [state |-> "running", stale |-> FALSE]
          /\ pc' = "enrolling" /\ tried' = [tried EXCEPT ![hand] = @ + 1] /\ UNCHANGED hand
    /\ UNCHANGED <<files, boots, hasty, house, half>>

(* It fails at any point, or the container is started with its new address.   *)
EnrolEnds ==
    /\ pc = "enrolling"
    /\ hand' = None /\ pc' = "poll"
    /\ \/ enrol' = [state |-> "error", stale |-> FALSE] /\ UNCHANGED <<mem, half>>
       \/ /\ enrol' = [state |-> "success", stale |-> FALSE]
          /\ mem' = disk /\ half' = FALSE
    /\ UNCHANGED <<files, boots, hasty, disk, bak, saves, during, code, tried>>

-----------------------------------------------------------------------------
AgentDies ==
    /\ pc # "down"
    /\ pc' = "down" /\ next' = None /\ hand' = None
    /\ UNCHANGED <<status, asked, lock, boots, hasty, house, code, enrol, half, tried>>

(* 20 s without a heartbeat, 45 min since the start of the update, 2 min in   *)
(* the queue or 10 min of enrolling.                                          *)
BeatAges ==
    /\ status # Torn /\ status.beat /\ pc # "poll"
    /\ status' = [status EXCEPT !.beat = FALSE]
    /\ UNCHANGED <<pc, next, asked, lock, boots, hasty, house, cloud>>
StartAges ==
    /\ status # Torn /\ status.start = "recent" /\ ~status.beat
    /\ status' = [status EXCEPT !.start = "old"]
    /\ UNCHANGED <<pc, next, asked, lock, boots, hasty, house, cloud>>
EnrolAges ==
    /\ Busy(enrol.state) /\ ~enrol.stale /\ ~half
    /\ enrol' = [enrol EXCEPT !.stale = TRUE]
    /\ UNCHANGED <<pc, files, boots, hasty, house, code, hand, half, tried>>

Next ==
    \/ AskUpdate \/ SaveHouse \/ BackendRestarts
    \/ LookAtEnrol \/ CodeQueued \/ \E c \in Codes : GiveCode(c)
    \/ WriteEnds \/ AgentStarts \/ Boot \/ Heartbeat
    \/ TakeUpdate \/ RemoveRequest \/ StartUpdate \/ BeginUpdate \/ FetchEnds \/ BuildEnds
    \/ UpdateEnds \/ ReadCode \/ UseCode \/ EnrolEnds
    \/ AgentDies \/ BeatAges \/ StartAges \/ EnrolAges

Spec == Init /\ [][Next]_vars

-----------------------------------------------------------------------------
(* While an update runs no second one is queued behind it, although the       *)
(* status is read while it is being written and the agent may have died:      *)
(* only in the moment between the agent's taking the request and its saying   *)
(* so can another one be accepted.                                            *)
OneAtATime ==
    asked /\ (pc \in Updating \/ (pc = "write" /\ next.then \in Updating)) => hasty

(* An agent that waits for work is never shown as busy: an update that was    *)
(* cut short, with its status running or half written, does not refuse every  *)
(* later one.                                                                 *)
ComesFree == pc = "poll" /\ status # Torn => status.state # "running"

(* Whatever updates fail, succeed or are cut short, and whenever the backend  *)
(* is restarted, it has every save but those made while the program was being *)
(* fetched.                                                                   *)
SavesSurvive == 1..saves \subseteq mem \cup during

(* A code, which the cloud takes once, is used once, also when the agent dies *)
(* while it enrols.                                                           *)
CodesOnce == \A c \in Codes : tried[c] <= 1

HostSound == OneAtATime /\ ComesFree /\ SavesSurvive /\ CodesOnce

(* "config/house.json stays with an update" (docs/DEPLOY.md): the backend     *)
(* has every save.  It fails: the house goes on working while the program is  *)
(* fetched, and what is saved then is overwritten by the copy made before.    *)
KeepsSaves == 1..saves \subseteq mem
=============================================================================
