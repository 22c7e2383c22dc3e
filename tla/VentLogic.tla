------------------------------- MODULE VentLogic -------------------------------
(***************************************************************************)
(* The logic runtime of a ventilation unit of one of the other families    *)
(* (wtwRuntime.ts, wtw.ts): Duco, MV with one contact, MV by scene, MV of  *)
(* 0-10 V and Modbus.  Each has its own copy of the handlers; the copies   *)
(* do the same and differ in how a stand is written and read, which is     *)
(* what `model` stands for.  A stand is one write, so that nothing comes   *)
(* between the start of a logic and the record of its run (unlike          *)
(* WtwLogic, of the Zehnder interface).                                    *)
(*                                                                         *)
(* Here a logic has several clauses, joined by and/or, each of which may   *)
(* have to hold for some minutes; logics come and go with the saved house; *)
(* temperatures are kept for the addresses that a house had at boot.       *)
(***************************************************************************)
EXTENDS FiniteSets

CONSTANTS
    Logics,   \* logics of the unit in any house
    Setup,    \* how each of them is configured
    Sensors,  \* the group addresses of clauses
    Models,   \* the families of the unit
    Houses,   \* the sets of logics (enabled) that saved houses have
    None

Stands == {"low", "high", "auto"}
Clause == [sensor : Sensors, want : BOOLEAN, timed : BOOLEAN]
Join == {"and", "or"}
\* A logic: its clauses to start by, or a rise of the temperature; the stand it
\* chooses; how it ends; the stand for afterwards.
Config == [rise : BOOLEAN, when : SUBSET Clause, whenJoin : Join, stand : Stands,
           end : {"duration", "untilStatus"}, untilWhen : SUBSET Clause, untilJoin : Join,
           after : Stands \cup {"previous"}]

VentLogicAssumption ==
    /\ Setup \in [Logics -> Config] /\ None \notin Stands \cup {""}
    /\ Houses \subseteq SUBSET Logics
    /\ Models \subseteq {"duco", "mv_1contact", "mv_scene", "mv_0_10v", "modbus"}
    /\ \A l \in Logics : \A c \in Setup[l].untilWhen : c.timed

VARIABLES
    model,      \* the family
    house,      \* the logics of the saved house
    registered, \* tempHistory: those whose temperature is kept
    unit,       \* the stand of the unit
    status,     \* what the cache has of it; None: not reported
    sensor,     \* prev and the cache of each sensor
    timing,     \* triggerTimers: clauses whose minutes run
    held,       \* triggerHeld: clauses whose minutes are over
    runs,       \* logicRuns: None, or the stand to go back to
    due,        \* runs with a duration timer
    wish,       \* history: the stand the unit should be in without a run
    calm,       \* history: no logics overlapped, no write failed, since a press
    out         \* history: logics that left the house with a run or minutes of theirs

vars == <<model, house, registered, unit, status, sensor, timing, held, runs, due, wish, calm, out>>

Key(l, side, c) == <<l, side, c>>
KeysOf(l) == {Key(l, "when", c) : c \in Setup[l].when} \cup {Key(l, "until", c) : c \in Setup[l].untilWhen}
Keys == UNION {KeysOf(l) : l \in Logics}

\* The state has its type.
TypesOK ==
    /\ model \in Models /\ house \in Houses /\ registered \in Houses
    /\ unit \in Stands /\ status \in Stands \cup {None} /\ wish \in Stands
    /\ sensor \in [Sensors -> BOOLEAN \cup {None}]
    /\ timing \subseteq Keys /\ held \subseteq Keys /\ out \subseteq Logics
    /\ timing \cap held = {}
    /\ runs \in [Logics -> Stands \cup {"", None}]
    /\ due \subseteq {l \in Logics : runs[l] # None} /\ calm \in BOOLEAN

Init ==
    /\ model \in Models /\ house \in Houses /\ registered = house
    /\ unit \in {"low"} /\ status = None /\ wish = unit
    /\ sensor = [s \in Sensors |-> None]
    /\ timing = {} /\ held = {} /\ out = {} /\ due = {} /\ calm = TRUE
    /\ runs = [l \in Logics |-> None]

Running(l) == runs[l] # None
-------------------------------------------------------------------------------
(* Stands.                                                                 *)

\* The stand in the cache, or what a unit counts as that has not reported.
ReadDuco == IF status = None THEN "auto" ELSE status
\* A unit by scene never reports.
ReadMv == IF model = "mv_scene" THEN "" ELSE IF status = None THEN "low" ELSE status
ReadModbus == IF status = None THEN "low" ELSE status

ReadStand == CASE model = "duco" -> ReadDuco [] model = "modbus" -> ReadModbus [] OTHER -> ReadMv

\* The stands that can be written; another is an error.
DucoStands == Stands
MvStands == Stands \ {"auto"}
ModbusStands == Stands \ {"auto"}
Pressable == CASE model = "duco" -> DucoStands [] model = "modbus" -> ModbusStands [] OTHER -> MvStands

\* The stand is written, unless there is no such stand or no bus.
Write(stand) ==
    \/ stand \in Pressable /\ unit' = stand
    \/ UNCHANGED unit

Wrote(stand) == stand \in Pressable /\ unit' = stand

\* The unit reports its stand.
Report ==
    /\ model # "mv_scene" /\ status # unit
    /\ status' = unit
    /\ UNCHANGED <<model, house, registered, unit, sensor, timing, held, runs, due, wish, calm, out>>

\* pressDuco, pressMv, pressModbus: the user chooses a stand; cancelDeviceLogics.
Press(stand) ==
    /\ stand \in Pressable
    /\ Write(stand)
    /\ runs' = [l \in Logics |-> None]
    /\ timing' = {} /\ held' = {} /\ due' = {} /\ out' = {}
    /\ wish' = stand /\ calm' = (unit' = stand)
    /\ UNCHANGED <<model, house, registered, status, sensor>>
-------------------------------------------------------------------------------
(* Starting and ending a logic.                                            *)

\* The clauses of the end that are met when they are looked at.
UntilMet(l, values) ==
    IF Setup[l].end = "untilStatus"
    THEN {Key(l, "until", c) : c \in {c \in Setup[l].untilWhen : values[c.sensor] = c.want}}
    ELSE {}

\* MUTANT: the end condition is looked at from the next telegram on only.
TimersLater(l, values) == {}
\* The minutes that begin with a run: those of clauses that are met already.
TimersAtStart(l, values) == UntilMet(l, values)

\* startDucoLogic and its copies, after a telegram that left the minutes at t
\* and h: the logic's are cleared, the stand to go back to is read, the new one
\* is written.  If that fails there is no run.
Start(l, values, t, h) ==
    LET quiet == (\A k \in Logics : ~Running(k)) /\ (model = "mv_scene" \/ status = unit)
        ok == Wrote(Setup[l].stand)
    IN /\ Write(Setup[l].stand)
       /\ held' = h \ KeysOf(l)
       /\ timing' = (t \ KeysOf(l)) \cup (IF ok THEN TimersAtStart(l, values) ELSE {})
       /\ out' = out \ {l}
       /\ runs' = IF ok THEN [runs EXCEPT ![l] = ReadStand] ELSE runs
       /\ due' = IF ok /\ Setup[l].end = "duration" THEN due \cup {l} ELSE due
       /\ wish' = IF Setup[l].after = "previous" THEN wish ELSE Setup[l].after
       /\ calm' = (calm /\ quiet /\ ok)
       /\ UNCHANGED <<model, house, registered, status>>

\* MUTANT: the logic's own stand for afterwards is not looked at.
TargetBefore(l) == runs[l]
\* The stand after the run.
Target(l) == IF Setup[l].after = "previous" THEN runs[l] ELSE Setup[l].after

\* The end of a run: its timers go, and the stand is written unless another
\* logic runs.  A unit by scene has no stand to go back to: nothing failed.
End(l) ==
    /\ Running(l)
    /\ runs' = [runs EXCEPT ![l] = None]
    /\ due' = due \ {l}
    /\ held' = held \ KeysOf(l) /\ timing' = timing \ KeysOf(l) /\ out' = out \ {l}
    /\ IF \E k \in Logics \ {l} : Running(k)
       THEN UNCHANGED <<unit, calm>>
       ELSE Write(Target(l)) /\ calm' = (calm /\ (Wrote(Target(l)) \/ Target(l) = ""))
    /\ UNCHANGED <<model, house, registered, status, sensor, wish>>
-------------------------------------------------------------------------------
(* Clauses.                                                                *)

\* allArmsReady: every clause is met, and those with minutes have held.
AllReady(l, side, clauses, values, keys) ==
    /\ clauses # {}
    /\ \A c \in clauses : values[c.sensor] = c.want /\ (c.timed => Key(l, side, c) \in keys)

\* The clauses that a telegram of s is about.
About(l, side, s) ==
    {c \in IF side = "when" THEN Setup[l].when ELSE Setup[l].untilWhen : c.sensor = s}

\* tickDucoTrigger and its copies: a clause without minutes fires when its value
\* changes to the wanted one, or, among joined clauses, is the first to come in.
Fires(l, s, v) ==
    \E c \in About(l, "when", s) :
        /\ ~c.timed /\ c.want = v
        /\ \/ sensor[s] \notin {None, v}
           \/ Setup[l].whenJoin = "and" /\ sensor[s] = None

\* Does the telegram start the logic?
Starts(l, s, v) ==
    LET values == [sensor EXCEPT ![s] = v]
    IN /\ l \in house /\ ~Running(l) /\ ~Setup[l].rise
       /\ Fires(l, s, v)
       /\ Setup[l].whenJoin = "and" => AllReady(l, "when", Setup[l].when, values, held)

\* The clauses that a telegram of s is looked at for: of a logic that does not
\* run those of its start, of one that does those of its end.
Ticked(s) ==
    UNION {{Key(l, "when", c) : c \in {c \in About(l, "when", s) : ~Running(l) /\ ~Setup[l].rise}}
           \cup {Key(l, "until", c) : c \in {c \in About(l, "until", s) :
                                              Running(l) /\ Setup[l].end = "untilStatus"}} : l \in house}

\* MUTANT: a clause whose minutes are over stays so when its value changes.
StillHeld(unmet) == held
\* A telegram with another value undoes a clause's minutes (clearTrigger).
HeldAfter(unmet) == held \ unmet

\* onDucoLogicTelegram and its copies: clauses that are not met any more are
\* cleared, others begin their minutes, and a logic may start.
Telegram(s, v) ==
    LET values == [sensor EXCEPT ![s] = v]
        unmet == {k \in Ticked(s) : k[3].want # v}
        met == {k \in Ticked(s) : k[3].want = v /\ k[3].timed}
        t == (timing \ unmet) \cup (met \ held)
        h == HeldAfter(unmet)
    IN /\ sensor' = values
       /\ \/ \E l \in Logics : Starts(l, s, v) /\ Start(l, values, t, h)
          \/ /\ \A l \in Logics : ~Starts(l, s, v)
             /\ held' = h /\ timing' = t
             /\ UNCHANGED <<model, house, registered, unit, status, runs, due, wish, calm, out>>

\* The minutes of a clause are over.  It counts as held if it is still met, and
\* starts or ends the logic if the house still has that, alone or with all others.
MinutesOver(l, side, c) ==
    LET k == Key(l, side, c)
        clauses == IF side = "when" THEN Setup[l].when ELSE Setup[l].untilWhen
        join == IF side = "when" THEN Setup[l].whenJoin ELSE Setup[l].untilJoin
        met == sensor[c.sensor] = c.want
        acts == /\ met /\ l \in house
                /\ join = "and" => AllReady(l, side, clauses, sensor, held \cup {k})
    IN /\ k \in timing
       /\ CASE acts /\ side = "when" /\ ~Running(l) -> Start(l, sensor, timing, held) /\ UNCHANGED sensor
            [] acts /\ side = "until" -> End(l)
            [] OTHER -> /\ timing' = timing \ {k}
                        /\ held' = IF met THEN held \cup {k} ELSE held
                        /\ UNCHANGED <<model, house, registered, unit, status, sensor, runs, due, wish, calm, out>>

\* A temperature comes in so much above the lowest of the last seconds: tempRise,
\* of a sensor that was registered when the runtime was attached.
TemperatureRises(l) ==
    /\ Setup[l].rise /\ l \in house \cap registered /\ ~Running(l)
    /\ Start(l, sensor, timing, held)
    /\ UNCHANGED sensor

\* The duration of a run is over.
DurationOver(l) == l \in due /\ End(l)

\* The house is saved with other logics; a run keeps what it was started with.
Save(now) ==
    /\ house' = now /\ now # house
    /\ out' = out \cup (house \ now)
    /\ calm' = FALSE
    /\ UNCHANGED <<model, registered, unit, status, sensor, timing, held, runs, due, wish>>

\* A restart: attach.
Restart ==
    /\ registered' = house
    /\ status' = None /\ sensor' = [s \in Sensors |-> None]
    /\ timing' = {} /\ held' = {} /\ due' = {} /\ out' = {}
    /\ runs' = [l \in Logics |-> None]
    /\ calm' = FALSE
    /\ UNCHANGED <<model, house, unit, wish>>

\* The handlers of a unit; each family has a copy of them.
Handlers ==
    \/ \E stand \in Stands : Press(stand)
    \/ \E s \in Sensors, v \in BOOLEAN : Telegram(s, v)
    \/ \E l \in Logics :
        \/ TemperatureRises(l) \/ DurationOver(l)
        \/ \E c \in Setup[l].when : MinutesOver(l, "when", c)
        \/ \E c \in Setup[l].untilWhen : MinutesOver(l, "until", c)

DucoHandlers == model = "duco" /\ Handlers
MvHandlers == model \in {"mv_1contact", "mv_scene", "mv_0_10v"} /\ Handlers
ModbusHandlers == model = "modbus" /\ Handlers

Next ==
    \/ DucoHandlers \/ MvHandlers \/ ModbusHandlers
    \/ \E now \in Houses : Save(now)
    \/ Report \/ Restart
-------------------------------------------------------------------------------
Timed(k) == k \in timing \/ k \in held
AllHeld(ends) == ends # {} /\ ends \subseteq held

\* Minutes that run or are over are of clauses that are met now, so that no
\* logic starts or ends on a condition that was interrupted; each clause of the
\* end of a run that is met has them; and a run whose end is met, by all its
\* clauses or by one, is no longer there.  Only a logic that was left out of
\* the house meanwhile may be stuck or stale.
EndsAreWatched ==
    \A l \in house \ out :
        LET ends == {Key(l, "until", c) : c \in Setup[l].untilWhen}
        IN /\ \A k \in KeysOf(l) : Timed(k) => sensor[k[3].sensor] = k[3].want
           /\ Running(l) /\ Setup[l].end = "untilStatus" =>
                /\ \A k \in UntilMet(l, sensor) : Timed(k)
                /\ IF Setup[l].untilJoin = "and" THEN ~AllHeld(ends) ELSE ends \cap held = {}
           /\ Running(l) /\ Setup[l].end = "duration" => l \in due

Settled == \A l \in Logics : ~Running(l)

\* When no logic runs the unit is in the stand that the user chose or that a
\* logic was to leave it in, if logics did not overlap, nothing failed and its
\* status was up to date; but not a unit by scene, whose stand cannot be read.
PutBack == Settled /\ calm /\ model # "mv_scene" => unit = wish

\* The same of every family: "previous" of een stand-id (types.ts:1109).  Does
\* not hold for a unit by scene.
PutBackAlways == Settled /\ calm => unit = wish
===============================================================================
