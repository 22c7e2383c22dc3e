---------------------------- MODULE DeviceCommands ----------------------------
(***************************************************************************)
(* What a command of the app does (commands.ts dispatch, fireplacePulse.ts,*)
(* intercoms.ts, scenes.ts) and the virtual status of a discrete fireplace *)
(* (fireplaceVirtual.ts) that it leaves behind.                            *)
(*                                                                         *)
(* Every command is a program: a few group writes, waits (setTimeout)      *)
(* between them, and what is noted afterwards.  A request runs its program *)
(* up to the next wait without interruption; during a wait other requests  *)
(* run and the tunnel may be lost, after which a write fails and the rest  *)
(* of the program is left out (a scene logs the error and goes on).        *)
(*                                                                         *)
(* There is one device of each kind with a program of several steps.       *)
(***************************************************************************)
EXTENDS Naturals, Sequences

CONSTANT MaxJobs  \* BOUND: no request while so many wait

DeviceCommandsAssumption == MaxJobs \in Nat

Contacts == {"fireOn", "fireOff", "door"}           \* addresses that are pulsed
Addresses == Contacts \cup {"switch", "dim", "onOff", "flame", "button", "level", "other"}
Kept == Contacts \cup {"switch"}                     \* BOUND: other values are not kept
Values == {"off", "low", "on"}
Options == {"switch", "dim", "other", "onPercent", "discrete", "planika"}

VARIABLES
    has,        \* what the installer configured of the dimmer and the fireplace
    up,         \* is there a tunnel to write to?
    bus,        \* the value last written to each address that is Kept
    jobs,       \* programs that wait, oldest first
    virtual,    \* fireplaceVirtual: is the discrete fire shown as on?
    fire,       \* history: what the contact that closed last asked of the fire
    dimmed,     \* history: the last command to the dimmer
    half,       \* history: commands refused after they had written something
    calm        \* history: no write failed, no command came during a wait

commandVars == <<has, up, bus, jobs, virtual, fire, dimmed, half, calm>>

Step == [do : {"write"}, ga : Addresses, val : Values]
        \cup [do : {"wait", "next"}]
        \cup [do : {"virtual"}, val : Values]

Write(ga, v) == [do |-> "write", ga |-> ga, val |-> v]
Wait == [do |-> "wait"]
NextAction == [do |-> "next"]  \* where runScene goes on after an error
Virtual(v) == [do |-> "virtual", val |-> v]

\* MUTANT: the pulse's end is forgotten.
PulseOpen(ga) == <<Write(ga, "on"), Wait>>
\* pulseKnxGa and releaseDoor: on, 50 ms to 3 s, off.
Pulse(ga) == <<Write(ga, "on"), Wait, Write(ga, "off")>>
-------------------------------------------------------------------------------
(* The programs.                                                           *)

\* Commands that write one address, if the device has it, with the value cut to
\* the range that the address takes: colours,
RgbwWrites == {"rgbw_ww.channel", "rgbw_ww.composite", "rgbw_ww.rgb232"}
\* shades,
ShadingWrites == {"shading.move", "shading.position", "shading.slats"}
\* thermostats (climate.mode also arms HvacLock),
ClimateWrites == {"climate.setpoint", "climate.mode", "climate.opmode"}
\* air conditioners and fans,
AirWrites == {"ac.on", "ac.setpoint", "ac.mode", "ac.fanSpeed",
              "fan.on", "fan.speed", "fan.oscillate", "fan.direction"}
\* and what is left.
OtherWrites == {"fireplace.flame", "universal.level", "wtw.setBoostMinutes", "melding.reset"}

SingleWrites == RgbwWrites \cup ShadingWrites \cup ClimateWrites \cup AirWrites \cup OtherWrites

\* Tunable white: the warm and the cold channel, or brightness and kelvin; what
\* the device does not have is passed over.
TunableProgram == <<Write("other", "on"), Write("other", "on")>>

\* light.switch; light.dim writes the bit before a level and after a zero.
LightProgram(kind, v) ==
    IF kind = "light.switch" THEN <<Write("switch", v)>>
    ELSE IF v = "off" THEN <<Write("dim", v), Write("switch", "off")>>
    ELSE <<Write("switch", "on"), Write("dim", v)>>

\* fireplace.on, for a discrete fire (pulses, or with Planika a single on), and
\* for one with a bit and perhaps a flame height to begin with.
FireProgram(kind, v) ==
    LET contact == IF v = "off" THEN "fireOff" ELSE "fireOn"
    IN IF kind = "fireplace.discrete" /\ "discrete" \notin has THEN <<>>
       ELSE IF "planika" \in has THEN <<Write(contact, "on"), Virtual(v)>>
       ELSE IF "discrete" \in has THEN Pulse(contact) \o <<Virtual(v)>>
       ELSE IF v # "off" /\ "onPercent" \in has
            THEN <<Write("onOff", v), Wait, Write("flame", "low")>>
       ELSE <<Write("onOff", v)>>

\* universal.press of a switch with a heater level.
UniversalProgram(v) ==
    <<Write("button", v)>> \o (IF v = "on" THEN <<Wait, Write("level", "low")>> ELSE <<>>)

\* runScene: writes and pulses, with a delay in between; an error is logged.
SceneProgram == <<Write("switch", "on"), NextAction, Wait>> \o Pulse("fireOn") \o <<Virtual("on"), NextAction>>

Program(kind, v) ==
    CASE kind \in SingleWrites -> <<Write("other", v)>>
      [] kind = "rgbw_ww.tunable_white" -> TunableProgram
      [] kind \in {"light.switch", "light.dim"} -> LightProgram(kind, v)
      [] kind \in {"fireplace.on", "fireplace.discrete"} -> FireProgram(kind, v)
      [] kind = "universal.press" -> UniversalProgram(v)
      [] kind = "releaseDoor" -> Pulse("door")
      [] kind = "scene" -> SceneProgram

\* CommandSchema, and the two that have a route of their own.  What goes to
\* MediaZones, LutronSlots and WtwLogic is left to them.
Kinds == SingleWrites \cup {"rgbw_ww.tunable_white", "light.switch", "light.dim", "fireplace.on",
                            "fireplace.discrete", "universal.press", "releaseDoor", "scene"}
-------------------------------------------------------------------------------
(* Running them.                                                           *)

\* The state has its type; what waits is the rest of a program.
TypesOK ==
    /\ has \subseteq Options /\ up \in BOOLEAN /\ calm \in BOOLEAN
    /\ bus \in [Kept -> Values]
    /\ \A i \in DOMAIN jobs : \A j \in DOMAIN jobs[i] : jobs[i][j] \in Step
    /\ virtual \in Values /\ fire \in Values /\ dimmed \in Values
    /\ half \subseteq Kinds

Init ==
    /\ has \in SUBSET Options /\ ("planika" \in has => "discrete" \in has)
    /\ up = TRUE
    /\ bus = [ga \in Kept |-> "off"]
    /\ jobs = <<>> /\ virtual = "off" /\ fire = "off" /\ dimmed = "off" /\ half = {} /\ calm = TRUE

\* A write is refused without a tunnel, and when the address is not configured.
Writes(step) == up /\ (step.ga \in {"switch", "dim", "other"} => step.ga \in has)

\* The state after a write that went through.
Written(st, s) ==
    [st EXCEPT !.bus = [ga \in Kept |-> IF ga = s.ga THEN s.val ELSE @[ga]], !.wrote = TRUE,
               !.fire = IF s.val = "on" /\ s.ga \in {"fireOn", "fireOff"}
                        THEN IF s.ga = "fireOn" THEN "on" ELSE "off" ELSE @]

\* One step of a program.  What comes after a wait is left for later, and after
\* an error everything is passed over up to the next action of a scene.
Does(st, s) ==
    IF st.mode = "waiting" THEN [st EXCEPT !.rest = Append(@, s)]
    ELSE IF st.mode = "failing" THEN [st EXCEPT !.mode = IF s.do = "next" THEN "running" ELSE @]
    ELSE CASE s.do = "wait" -> [st EXCEPT !.mode = "waiting"]
           [] s.do = "next" -> st
           [] s.do = "virtual" -> [st EXCEPT !.virtual = s.val]
           [] s.do = "write" -> IF Writes(s) THEN Written(st, s)
                                ELSE [st EXCEPT !.failed = TRUE, !.mode = "failing"]

\* The state after a program has run up to its next wait: after[n] is that after
\* its first n steps.
Run(st, prog) ==
    LET after[n \in 0..Len(prog)] == IF n = 0 THEN st ELSE Does(after[n - 1], prog[n])
    IN  after[Len(prog)]

\* Runs a program and leaves what waits behind the other jobs.
Execute(prog, others, quiet, kind) ==
    LET st == Run([bus |-> bus, virtual |-> virtual, fire |-> fire, rest |-> <<>>,
                   failed |-> FALSE, wrote |-> FALSE, mode |-> "running"], prog)
    IN /\ bus' = st.bus /\ virtual' = st.virtual /\ fire' = st.fire
       /\ jobs' = IF st.rest = <<>> THEN others ELSE Append(others, st.rest)
       /\ calm' = (calm /\ quiet /\ ~st.failed)
       /\ half' = IF st.failed /\ st.wrote /\ up THEN half \cup {kind} ELSE half
       /\ UNCHANGED <<has, up>>

\* POST /command, a scene, or the release of a door.
Request(kind, v) ==
    /\ Len(jobs) < MaxJobs
    /\ v = "low" => kind = "light.dim"
    /\ kind \in SingleWrites \cup {"rgbw_ww.tunable_white", "releaseDoor", "scene"} => v = "on"
    /\ Execute(Program(kind, v), jobs, jobs = <<>>, kind)
    /\ dimmed' = IF kind \in {"light.switch", "light.dim"} THEN v ELSE
                 IF kind = "scene" THEN "on" ELSE dimmed

\* The wait of any job ends: they are of different lengths.
WaitOver(i) ==
    /\ i \in DOMAIN jobs
    /\ Execute(jobs[i], [j \in 1..Len(jobs) - 1 |-> IF j < i THEN jobs[j] ELSE jobs[j + 1]], TRUE, "scene")
    /\ UNCHANGED dimmed

\* The tunnel is lost or comes back.
TunnelChanges ==
    /\ up' = ~up
    /\ UNCHANGED <<has, bus, jobs, virtual, fire, dimmed, half, calm>>

\* The process restarts: programs and the virtual state are lost.
Restart ==
    /\ jobs' = <<>> /\ virtual' = "off"
    /\ calm' = FALSE
    /\ UNCHANGED <<has, up, bus, fire, dimmed, half>>

Next ==
    \/ \E kind \in Kinds, v \in Values : Request(kind, v)
    \/ \E i \in 1..MaxJobs : WaitOver(i)
    \/ TunnelChanges \/ Restart
-------------------------------------------------------------------------------
\* When no program is left, and none overlapped or failed: every contact is open
\* again (but for a Planika, which makes the pulse itself), the fire is shown as
\* what its contacts were last told, and the dimmer's bit agrees with its level.
CommandsSettle ==
    jobs = <<>> /\ calm =>
        /\ bus["door"] = "off"
        /\ "planika" \notin has => bus["fireOn"] = "off" /\ bus["fireOff"] = "off"
        /\ virtual = fire
        /\ bus["switch"] = "off" <=> dimmed = "off"

\* A command that is refused because an address is missing has written nothing;
\* only a dimmer that lacks one of its two addresses is left half way.
RefusedWhole == half \subseteq {"light.dim"}

CommandsSound == CommandsSettle /\ RefusedWhole
===============================================================================
