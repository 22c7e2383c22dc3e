---------------------------- MODULE VolumeHold ----------------------------
(* The KNX buttons of one media zone (media/knxBridge.ts): a rocker whose  *)
(* dim telegrams start and stop a volume hold, a repeating timer that each *)
(* 250 ms asks for a volume 5 further unless its previous request is still *)
(* out, and the toggles that answer the rising edge of a button.  The      *)
(* volume is the zone's or its group's, whichever the binding names; it is *)
(* the media manager's cached one, which a late poll may set back.         *)
EXTENDS Integers, FiniteSets

CONSTANTS
    Rockers,            \* addresses bound to volumeDim
    Buttons,            \* addresses bound to playPause (a toggle like mute)
    Nibbles,            \* the DPT 3.007 values telegrams carry, within 0..15
    Volumes,            \* volumes the zone may start with
    VOLUME_STEP,        \* 5 in the code
    MaxHolds,           \* bound: holds of a behaviour
    None

HoldAssumption ==
    /\ Rockers \cap Buttons = {} /\ Nibbles \subseteq 0..15
    /\ Volumes \subseteq 0..100 /\ VOLUME_STEP \in 1..100 /\ MaxHolds \in Nat

VOLUME_MIN == 1

VARIABLES
    bound,              \* the index holds the zone's bindings
    saved,              \* the house has them (the index follows on a telegram)
    volume, muted,      \* of the manager's cached state
    prev,               \* prevValues: the last value of each button
    hold,               \* holds: the number of the zone's hold, or None
    timers,             \* the repeating timers that run
    applying,           \* requests for a volume that are out
    toggles,            \* requests of toggles that are out: what each asks for
    asked,              \* a poll under way: the volume it will bring, or None
    started,            \* how many holds there were
    lastDim             \* history: the last dim telegram acted upon

vars == <<bound, saved, volume, muted, prev, hold, timers, applying, toggles,
          asked, started, lastDim>>

Init ==
    /\ bound = TRUE /\ saved = TRUE
    /\ volume \in Volumes /\ muted = FALSE
    /\ prev = [b \in Buttons |-> FALSE]
    /\ hold = None /\ timers = {} /\ applying = {} /\ toggles = {}
    /\ asked = None /\ started = 0
    /\ lastDim = "stop"

(* decodeDimControl: bits 0-2 are the step, 0 stops; bit 3 is upwards.     *)
DecodeDim(nibble) ==
    IF nibble % 8 = 0 THEN "stop" ELSE IF nibble >= 8 THEN "up" ELSE "down"

(* Mutant: the steps go on past silence and past full volume.              *)
NextVolumeUnbounded(v, direction) ==
    IF direction = "up" THEN v + VOLUME_STEP ELSE v - VOLUME_STEP

(* nextVolume *)
NextVolume(v, direction) ==
    LET n == IF direction = "up" THEN v + VOLUME_STEP ELSE v - VOLUME_STEP
    IN IF n < VOLUME_MIN THEN VOLUME_MIN ELSE IF n > 100 THEN 100 ELSE n

(* stopHold, and the tick of a timer: the first comes with the start.      *)
Ticks(t) == ~\E a \in applying : a.of = t.id

Request(t) ==
    IF NextVolume(volume, t.direction) = volume THEN {}
    ELSE {[of |-> t.id, volume |-> NextVolume(volume, t.direction)]}

TimerTicks(t) ==
    /\ Ticks(t)
    /\ applying' = applying \cup Request(t)
    /\ applying' # applying
    /\ UNCHANGED <<bound, saved, volume, muted, prev, hold, timers, toggles,
                   asked, started, lastDim>>

StopHold == hold' = None /\ timers' = {t \in timers : t.id # hold}

(* Mutant: a new hold does not stop the one before it.                     *)
HoldBesides(direction) ==
    LET t == [id |-> started + 1, direction |-> direction] IN
    /\ started < MaxHolds
    /\ started' = started + 1
    /\ timers' = timers \cup {t}
    /\ hold' = t.id
    /\ applying' = applying \cup Request(t)

StartHold(direction) ==
    LET t == [id |-> started + 1, direction |-> direction] IN
    /\ started < MaxHolds
    /\ started' = started + 1
    /\ timers' = {x \in timers : x.id # hold} \cup {t}
    /\ hold' = t.id
    /\ applying' = applying \cup Request(t)

(* onBusState on a rocker; every telegram first rebuilds the index when    *)
(* the house was saved.                                                    *)
Dimmed(nibble) ==
    LET dim == DecodeDim(nibble) IN
    /\ bound' = saved
    /\ IF ~saved THEN UNCHANGED <<hold, timers, applying, started, lastDim>>
       ELSE /\ lastDim' = dim
            /\ IF dim = "stop" THEN StopHold /\ UNCHANGED <<applying, started>>
               ELSE StartHold(dim)
    /\ UNCHANGED <<saved, volume, muted, prev, toggles, asked>>

(* onBusState on a toggle: only a 1 after something else counts.  One      *)
(* request of a toggle is out at a time here.                              *)
Pressed(b, value) ==
    LET rising == value /\ ~prev[b] IN
    /\ toggles = {} /\ bound' = saved
    /\ IF ~saved THEN UNCHANGED <<prev, toggles>>
       ELSE /\ prev' = [prev EXCEPT ![b] = value]
            /\ toggles' = IF rising THEN {~muted} ELSE {}
    /\ UNCHANGED <<saved, volume, muted, hold, timers, applying, asked, started, lastDim>>

(* The manager's answers: a volume is stored when the speaker took it; a   *)
(* mute shows with the next poll.                                          *)
Applied(a, ok) ==
    /\ applying' = applying \ {a}
    /\ volume' = IF ok THEN a.volume ELSE volume
    /\ UNCHANGED <<bound, saved, muted, prev, hold, timers, toggles, asked,
                   started, lastDim>>

Toggled(value) ==
    /\ toggles' = toggles \ {value} /\ muted' = value
    /\ UNCHANGED <<bound, saved, volume, prev, hold, timers, applying, asked,
                   started, lastDim>>

PollAsks ==
    /\ asked = None /\ asked' = volume
    /\ UNCHANGED <<bound, saved, volume, muted, prev, hold, timers, applying,
                   toggles, started, lastDim>>

PollEnds ==
    /\ asked # None /\ volume' = asked /\ asked' = None
    /\ UNCHANGED <<bound, saved, muted, prev, hold, timers, applying, toggles,
                   started, lastDim>>

(* A save takes the zone's bindings away or gives them back; the holds are *)
(* left alone.                                                             *)
Saves ==
    /\ saved' = ~saved
    /\ UNCHANGED <<bound, volume, muted, prev, hold, timers, applying, toggles,
                   asked, started, lastDim>>

(* close *)
Closes ==
    /\ StopHold /\ lastDim' = "stop"
    /\ UNCHANGED <<bound, saved, volume, muted, prev, applying, toggles, asked,
                   started>>

Next ==
    \/ \E t \in timers : TimerTicks(t)
    \/ \E n \in Nibbles : Rockers # {} /\ Dimmed(n)
    \/ \E b \in Buttons, value \in BOOLEAN : Pressed(b, value)
    \/ \E a \in applying, ok \in BOOLEAN : Applied(a, ok)
    \/ \E value \in toggles : Toggled(value)
    \/ PollAsks \/ PollEnds \/ Saves \/ Closes

-----------------------------------------------------------------------------
TypesOK ==
    /\ volume \in 0..100 /\ started \in 0..MaxHolds
    /\ hold \in 1..MaxHolds \cup {None}

(* The only timer that runs is the hold of the last dim telegram acted     *)
(* upon, in its direction, and none after a stop; whatever request was out *)
(* when the rocker turned or was let go, each hold has at most one of them *)
(* out.                                                                    *)
HoldFollowsRocker ==
    /\ timers = IF lastDim = "stop" THEN {} ELSE {[id |-> hold, direction |-> lastDim]}
    /\ \A a, b \in applying : a.of = b.of => a = b
=============================================================================
