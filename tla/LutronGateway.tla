--------------------------- MODULE LutronGateway ---------------------------
(* The telnet clients of the Lutron processors (lutron/manager.ts): one    *)
(* slot per processor of the house, thrown away and made anew by every     *)
(* save; its socket, login conversation and reconnect timer; the button    *)
(* lines that become KNX writes; the outputs the commands drive.  A slot   *)
(* is named by its processor and the save that made it, a socket by a      *)
(* number.  What the processor makes of a password is not asked: the slot  *)
(* counts as logged in once it sent one.                                   *)
EXTENDS Integers, FiniteSets

CONSTANTS
    Processors,         \* the house's own ("house") and lutron_homeworks devices
    Houses,             \* [with a login, without]: processors of a configuration
    House,              \* the processor that is the house's own
    MaxSaves,           \* bound: saves of a behaviour
    MaxSockets,         \* bound: sockets made in a behaviour
    None

LutronAssumption ==
    /\ House \in Processors /\ IsFiniteSet(Processors)
    /\ None \notin Processors \cup 1..MaxSockets /\ MaxSaves \in Nat /\ MaxSockets \in Nat
    /\ \A h \in Houses : h.login \cup h.open \subseteq Processors

VARIABLES
    slots,              \* slots: processor -> slot
    timers,             \* the reconnect timers that run: <<processor, save>>
    open,               \* sockets not destroyed: number -> <<processor, save>>
    saves, sockets,     \* how many there were
    sent,               \* history: post-login commands sent on a socket
    bus                 \* KNX writes a button asked for and not made yet

vars == <<slots, timers, open, saves, sockets, sent, bus>>

Fresh(h, p) ==
    [save |-> saves + 1, asks |-> p \in h.login, socket |-> None,
     connected |-> FALSE, loggedIn |-> FALSE, loginSent |-> FALSE, posted |-> FALSE]

Init ==
    /\ slots = [p \in {} |-> None] /\ timers = {} /\ open = [n \in {} |-> None]
    /\ saves = 0 /\ sockets = 0 /\ sent = [n \in {} |-> 0] /\ bus = {}

Id(p) == <<p, slots[p].save>>

(* stopAll: timers cleared, sockets destroyed and deaf.                    *)
Stopped(t) == t \notin {Id(p) : p \in DOMAIN slots}

(* Mutant: a save leaves the reconnect timers of the old slots running.    *)
KeepsTimers(h) == timers \cup {<<p, saves + 1>> : p \in h.login \cup h.open}

TimersOf(h) ==
    {t \in timers : Stopped(t)} \cup {<<p, saves + 1>> : p \in h.login \cup h.open}

(* rebuild: stopAll, then an empty slot per enabled processor, each of     *)
(* which is to connect at once.                                            *)
Rebuild(h) ==
    /\ saves < MaxSaves
    /\ slots' = [p \in h.login \cup h.open |-> Fresh(h, p)]
    /\ timers' = TimersOf(h)
    /\ open' = [n \in {m \in DOMAIN open : Stopped(open[m])} |-> open[n]]
    /\ saves' = saves + 1
    /\ UNCHANGED <<sockets, sent, bus>>

(* connect, when the timer fires: the slot's state starts over.            *)
Connect(p) ==
    /\ p \in DOMAIN slots /\ Id(p) \in timers /\ sockets < MaxSockets
    /\ timers' = timers \ {Id(p)}
    /\ sockets' = sockets + 1
    /\ slots' = [slots EXCEPT ![p] =
          [@ EXCEPT !.socket = sockets', !.connected = FALSE,
                    !.loggedIn = FALSE, !.loginSent = FALSE, !.posted = FALSE]]
    /\ open' = [n \in (DOMAIN open \ {slots[p].socket}) \cup {sockets'} |->
                  IF n = sockets' THEN Id(p) ELSE open[n]]
    /\ sent' = [n \in 1..sockets' |-> IF n = sockets' THEN 0 ELSE sent[n]]
    /\ UNCHANGED <<saves, bus>>

Up(p) == p \in DOMAIN slots /\ slots[p].socket \in DOMAIN open

(* The connect callback: without a user name the slot is logged in.        *)
Connected(p) ==
    /\ Up(p) /\ ~slots[p].connected
    /\ slots' = [slots EXCEPT ![p].connected = TRUE, ![p].loggedIn = ~slots[p].asks]
    /\ UNCHANGED <<timers, open, saves, sockets, sent, bus>>

(* handleLine: the prompts.                                                *)
LoginAsked(p) ==
    /\ Up(p) /\ slots[p].connected /\ slots[p].asks
    /\ ~slots[p].loggedIn /\ ~slots[p].loginSent
    /\ slots' = [slots EXCEPT ![p].loginSent = TRUE]
    /\ UNCHANGED <<timers, open, saves, sockets, sent, bus>>

PasswordAsked(p) ==
    /\ Up(p) /\ slots[p].connected /\ slots[p].loginSent /\ ~slots[p].loggedIn
    /\ slots' = [slots EXCEPT ![p].loggedIn = TRUE]
    /\ UNCHANGED <<timers, open, saves, sockets, sent, bus>>

(* sendPostLogin, from setImmediate: monitoring is asked for once.         *)
PostLogin(p) ==
    /\ Up(p) /\ slots[p].loggedIn /\ ~slots[p].posted
    /\ slots' = [slots EXCEPT ![p].posted = TRUE]
    /\ sent' = [sent EXCEPT ![slots[p].socket] = @ + 1]
    /\ UNCHANGED <<timers, open, saves, sockets, bus>>

(* close, after an error, an idle timeout or the processor's goodbye: the  *)
(* slot forgets the socket and tries again in ten seconds.                 *)
Closes(p) ==
    /\ Up(p)
    /\ open' = [n \in DOMAIN open \ {slots[p].socket} |-> open[n]]
    /\ slots' = [slots EXCEPT ![p].socket = None, ![p].connected = FALSE, ![p].loggedIn = FALSE]
    /\ timers' = timers \cup {Id(p)}
    /\ UNCHANGED <<saves, sockets, sent, bus>>

(* handleLine: a ~DEVICE line of a mapped button, after the debounce; the  *)
(* mapping is carried out besides.  fireMapping from the app does the same *)
(* without the slot.                                                       *)
Button(p) ==
    /\ Up(p) /\ slots[p].connected /\ slots[p].posted
    /\ bus' = bus \cup {<<p, "on">>}
    /\ UNCHANGED <<slots, timers, open, saves, sockets, sent>>

FireMapping(p) ==
    /\ p \in DOMAIN slots
    /\ bus' = bus \cup {<<p, "on">>}
    /\ UNCHANGED <<slots, timers, open, saves, sockets, sent>>

(* executeLutronToKnx: the write and, for a pulse, its opposite; a write   *)
(* that fails ends it.                                                     *)
Mapped(b, ok) ==
    /\ bus' = (bus \ {b}) \cup (IF ok /\ b[2] = "on" THEN {<<b[1], "off">>} ELSE {})
    /\ UNCHANGED <<slots, timers, open, saves, sockets, sent>>

(* pickSlot and sendLine: the named processor, else the house's, else the  *)
(* only one; refused unless it is logged in.                               *)
PickSlot(p) ==
    IF p \in DOMAIN slots THEN p
    ELSE IF House \in DOMAIN slots THEN House
    ELSE IF Cardinality(DOMAIN slots) = 1 THEN CHOOSE q \in DOMAIN slots : TRUE
    ELSE None

Sends(p) == LET q == PickSlot(p) IN
    q # None /\ slots[q].socket # None /\ slots[q].connected /\ slots[q].loggedIn

Next ==
    \/ \E h \in Houses : Rebuild(h)
    \/ \E p \in Processors :
          \/ Connect(p) \/ Connected(p) \/ LoginAsked(p) \/ PasswordAsked(p)
          \/ PostLogin(p) \/ Closes(p) \/ Button(p) \/ FireMapping(p)
    \/ \E b \in bus, ok \in BOOLEAN : Mapped(b, ok)

Spec == Init /\ [][Next]_vars

-----------------------------------------------------------------------------
TypesOK ==
    /\ DOMAIN slots \subseteq Processors
    /\ saves \in 0..MaxSaves /\ sockets \in 0..MaxSockets
    /\ DOMAIN open \subseteq 1..sockets

(* Each processor of the house as saved last has either its one socket or  *)
(* its one reconnect timer, no socket or timer outlives its slot, what the *)
(* status shows is that socket's, monitoring is asked for at most once on  *)
(* each, and a command is sent only over an open one.                      *)
GatewaysKept ==
    /\ timers \cup {open[n] : n \in DOMAIN open} = {Id(p) : p \in DOMAIN slots}
    /\ Cardinality(timers) + Cardinality(DOMAIN open) = Cardinality(DOMAIN slots)
    /\ \A p \in DOMAIN slots :
          slots[p].connected \/ slots[p].loggedIn => Up(p) /\ open[slots[p].socket] = Id(p)
    /\ \A n \in DOMAIN sent : sent[n] <= 1
    /\ \A p \in Processors : Sends(p) => slots[PickSlot(p)].socket \in DOMAIN open
=============================================================================
