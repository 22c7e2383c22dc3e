------------------------------ MODULE SceneListen ------------------------------
(***************************************************************************)
(* The listen sessions of the scene wizard (knxSceneLearn.ts).  A user     *)
(* asks to learn the scene button of a room; the lights of the room are    *)
(* put out, and after 1.4 s a session listens until a button of the room   *)
(* is pressed, and the wizard (SceneContrast) has found out what it does,  *)
(* or 20 s have passed.  There is one session and one last answer for the  *)
(* whole house.                                                            *)
(***************************************************************************)
EXTENDS Naturals, Sequences

CONSTANTS
    Rooms,     \* rooms with a scene address
    MaxStarts, \* BOUND: no start when so many are being prepared
    None

SceneListenAssumption ==
    /\ None \notin Rooms /\ None \notin [room : Rooms, phase : {"wait_button", "busy"}]
    /\ MaxStarts \in Nat

VARIABLES
    listen,    \* listen: None or the room and phase of the session
    heard,     \* lastHeard: None, or the room it is about and what it says
    starting,  \* rooms whose startListen waits for the lights, oldest first
    own,       \* does the session's own timer run?
    stray,     \* rooms of the timers still running of overwritten sessions
    wizards,   \* the wizards that run, by the room of their button
    calm       \* history: no start overlapped a start or a wizard

listenVars == <<listen, heard, starting, own, stray, wizards, calm>>

\* The state has its type; only a session that waits for a button has a timer.
TypesOK ==
    /\ listen \in [room : Rooms, phase : {"wait_button", "busy"}] \cup {None}
    /\ heard \in [room : Rooms, says : {"learned", "timeout", "failed"}] \cup {None}
    /\ \A i \in DOMAIN starting : starting[i] \in Rooms
    /\ \A i \in DOMAIN wizards : wizards[i] \in Rooms
    /\ stray \subseteq Rooms
    /\ own \in BOOLEAN /\ calm \in BOOLEAN
    /\ own => listen # None

Init ==
    /\ listen = None /\ heard = None
    /\ starting = <<>> /\ wizards = <<>>
    /\ stray = {} /\ own = FALSE /\ calm = TRUE

\* MUTANT: the timer of the session that is left keeps running.
StopKeepingTimer ==
    /\ listen' = None /\ own' = FALSE
    /\ stray' = IF own THEN stray \cup {listen.room} ELSE stray
\* stopListen: the session goes, and its timer with it.
StopListen == listen' = None /\ own' = FALSE /\ UNCHANGED stray

\* emitHeard: the answer is kept for those who ask and ends whatever listens.
EmitHeard(room, says) ==
    /\ heard' = [room |-> room, says |-> says]
    /\ StopListen

\* startListen up to its waits (a user of the room, POST .../listen).
StartListen(room) ==
    /\ Len(starting) < MaxStarts
    /\ StopListen
    /\ heard' = None
    /\ starting' = Append(starting, room)
    /\ calm' = (calm /\ starting = <<>> /\ wizards = <<>>)
    /\ UNCHANGED wizards

\* The lights have settled: the session begins and its timer runs.  A session
\* that another start has begun meanwhile is overwritten, its timer is not.
Settled ==
    LET room == Head(starting)
    IN /\ starting # <<>>
       /\ starting' = Tail(starting)
       /\ listen' = [room |-> room, phase |-> "wait_button"]
       /\ own' = TRUE
       /\ stray' = IF own THEN stray \cup {listen.room} ELSE stray
       /\ UNCHANGED <<heard, wizards, calm>>

\* The bus failed while the lights were put out.
StartFails ==
    /\ starting # <<>>
    /\ starting' = Tail(starting)
    /\ UNCHANGED <<listen, heard, own, stray, wizards, calm>>

\* onBusTelegram: a scene telegram of a switch of the session's room; others
\* are ignored.  (The timer runs on; it does nothing while the wizard runs.)
ButtonPressed ==
    /\ listen # None /\ listen.phase = "wait_button"
    /\ Len(wizards) < MaxStarts
    /\ listen' = [listen EXCEPT !.phase = "busy"]
    /\ wizards' = Append(wizards, listen.room)
    /\ UNCHANGED <<heard, starting, own, stray, calm>>

\* The wizard has its result, or failed on the bus.
WizardEnds(i) ==
    /\ i \in DOMAIN wizards
    /\ wizards' = [j \in 1..Len(wizards) - 1 |-> IF j < i THEN wizards[j] ELSE wizards[j + 1]]
    /\ \E says \in {"learned", "failed"} : EmitHeard(wizards[i], says)
    /\ UNCHANGED <<starting, calm>>

\* MUTANT: a session that is busy is timed out too.
TimesOutAny(s) == s # None
\* A timer looks at the session there is, whose it may not be.
TimesOut(s) == s # None /\ s.phase = "wait_button"

OwnTimer ==
    /\ own
    /\ IF TimesOut(listen)
       THEN EmitHeard(listen.room, "timeout")
       ELSE own' = FALSE /\ UNCHANGED <<listen, heard, stray>>
    /\ UNCHANGED <<starting, wizards, calm>>

StrayTimer(room) ==
    /\ room \in stray
    /\ stray' = stray \ {room}
    /\ IF TimesOut(listen)
       THEN /\ heard' = [room |-> room, says |-> "timeout"]
            /\ listen' = None /\ own' = FALSE
       ELSE UNCHANGED <<listen, heard, own>>
    /\ UNCHANGED <<starting, wizards, calm>>

\* The user gives up (POST .../listen/stop); a wizard goes on.
Stop ==
    /\ listen # None
    /\ StopListen
    /\ calm' = (calm /\ wizards = <<>>)
    /\ UNCHANGED <<heard, starting, wizards>>

Next ==
    \/ \E r \in Rooms : StartListen(r) \/ StrayTimer(r)
    \/ OwnTimer \/ Settled \/ StartFails \/ ButtonPressed \/ Stop
    \/ \E i \in 1..MaxStarts : WizardEnds(i)

-------------------------------------------------------------------------------
\* An answer is about the room whose session it ends, as long as nobody starts
\* while another start is being prepared or a wizard runs: the app that waits
\* polls for its own room (getListenStatus).
AnswerIsOfRoom ==
    heard' # heard /\ heard' # None /\ listen # None /\ calm => heard'.room = listen.room
AnswersItsRoom == [][AnswerIsOfRoom]_listenVars

\* While nothing overlaps a session that listens has its timer, no timer runs
\* without one, and a wizard has its session: nobody listens for ever and no
\* session is ended by the timer of another.
TimerOfSession ==
    calm =>
        /\ TimesOut(listen) => own
        /\ stray = {}
        /\ wizards # <<>> => listen # None /\ listen.phase = "busy"
===============================================================================
