------------------------------ MODULE KnxTunnel ------------------------------
(***************************************************************************)
(* The life of the KNXnet/IP tunnel (src/backend/src/knxBus.ts): boot      *)
(* connect, the handlers that the knx library calls, the give-up timeout   *)
(* of an attempt, the automatic reconnect timer and the reconnect that the *)
(* installer or the scene learner asks for.                                *)
(*                                                                         *)
(* The knx library is external.  It is modelled from how connect() uses    *)
(* it: a connection object performs a handshake, may lose the tunnel, may  *)
(* restart its handshake by itself (connect() guards against a second      *)
(* `connected`), and is silent once Disconnect() was called.               *)
(* KNX_SIMULATE=1, which has no tunnel at all, is not modelled.            *)
(***************************************************************************)
EXTENDS FiniteSets

CONSTANTS
    Conns,  \* connection objects; BOUND on how many are remembered at once
    None

ASSUME KnxAssumption == None \notin Conns

VARIABLES
    connection,    \* this.connection: the current connection object or None
    busConnected,  \* this.busConnected
    bound,         \* connection objects that this.datapoints are bound to
    closing,       \* this.closing: torn down on purpose
    timer,         \* is this.reconnectTimer set?
    disabled,      \* this.disabled, copied from house.json on reconnect
    enabledInFile, \* house.json knx.enabled
    reconnecting,  \* stage of the one doReconnect in flight
    settled,       \* attempts whose connect() promise is settled
    lib,           \* library state of every connection object
    gateway        \* does the gateway answer?

vars == <<connection, busConnected, bound, closing, timer, disabled,
          enabledInFile, reconnecting, settled, lib, gateway>>

TypeOK ==
    /\ connection \in Conns \cup {None}
    /\ busConnected \in BOOLEAN
    /\ bound \subseteq Conns
    /\ closing \in BOOLEAN
    /\ timer \in BOOLEAN
    /\ disabled \in BOOLEAN
    /\ enabledInFile \in BOOLEAN
    /\ reconnecting \in {"idle", "teardown", "connecting"}
    /\ settled \subseteq Conns
    /\ lib \in [Conns -> {"connecting", "up", "dropped", "closed"}]
    /\ gateway \in BOOLEAN

(* get connected() *)
connected == busConnected /\ connection # None

-----------------------------------------------------------------------------

(* Boot: connect() creates the first attempt unless the bus is disabled. *)
Init ==
    /\ enabledInFile \in BOOLEAN
    /\ disabled = ~enabledInFile
    /\ gateway \in BOOLEAN
    /\ busConnected = FALSE /\ closing = FALSE /\ timer = FALSE
    /\ bound = {}
    /\ reconnecting = "idle"
    /\ \E c \in Conns :
          /\ connection = IF disabled THEN None ELSE c
          /\ settled = IF disabled THEN Conns ELSE Conns \ {c}
          /\ lib = [d \in Conns |-> IF d = c /\ ~disabled THEN "connecting" ELSE "closed"]

(* Mutant: a drop does not schedule a reconnect. *)
TimerUntouched == timer

(* scheduleAutoReconnect as called by markDropped: not while closing on
   purpose, not when disabled, and one timer at a time. *)
TimerAfterDrop == timer \/ (~closing /\ ~disabled)

(* Mutant: the datapoints of the lost tunnel are kept. *)
MarkDroppedKeepingBound ==
    IF ~busConnected /\ connection = None
    THEN UNCHANGED <<connection, busConnected, bound, timer>>
    ELSE /\ connection' = None
         /\ busConnected' = FALSE
         /\ timer' = TimerAfterDrop
         /\ UNCHANGED bound

(* markDropped: forget the tunnel and schedule a reconnect. *)
MarkDropped ==
    IF ~busConnected /\ connection = None
    THEN UNCHANGED <<connection, busConnected, bound, timer>>
    ELSE /\ connection' = None
         /\ busConnected' = FALSE
         /\ bound' = {}
         /\ timer' = TimerAfterDrop

(* Mutant: only a tunnel that was up is dropped. *)
DropIfUp(c) ==
    IF connection = c /\ busConnected THEN MarkDropped
    ELSE UNCHANGED <<connection, busConnected, bound, timer>>

(* if (this.connection === conn) this.markDropped() *)
DropIfCurrent(c) ==
    IF connection = c THEN MarkDropped
    ELSE UNCHANGED <<connection, busConnected, bound, timer>>

(* Mutant: the handler returns without settling the promise. *)
SettleNothing(c) == UNCHANGED <<settled, reconnecting>>

(* ok() and fail(): the connect() promise settles, and with it the doReconnect
   that awaits it.  The reconnect's own attempt is always the current one. *)
Settle(c) ==
    /\ settled' = settled \cup {c}
    /\ reconnecting' = IF reconnecting = "connecting" /\ connection = c
                       THEN "idle" ELSE reconnecting

Disconnect(c) == lib' = [lib EXCEPT ![c] = "closed"]

(* Mutant: a late `connected` is taken for the current one. *)
NeverTooLate(c) == FALSE

(* Is the `connected` event one of a handshake nobody waits for any more? *)
TooLate(c) == c \in settled

(* handlers.connected *)
OnConnected(c) ==
    /\ gateway /\ lib[c] = "connecting"
    /\ IF TooLate(c)
       THEN /\ Disconnect(c)
            /\ UNCHANGED <<busConnected, bound, settled, reconnecting>>
       ELSE /\ lib' = [lib EXCEPT ![c] = "up"]
            /\ bound' = bound \cup {c}
            /\ busConnected' = TRUE
            /\ Settle(c)
    /\ UNCHANGED <<connection, closing, timer, disabled, enabledInFile, gateway>>

(* handlers.error, during the handshake or later; the library may or may not
   have lost the tunnel. *)
OnError(c) ==
    /\ ~gateway /\ lib[c] \in {"connecting", "up"}
    /\ \E after \in {lib[c], "dropped"} : lib' = [lib EXCEPT ![c] = after]
    /\ DropIfCurrent(c)
    /\ Settle(c)
    /\ UNCHANGED <<closing, disabled, enabledInFile, gateway>>

(* The "disconnected" listener, which exists once the tunnel was up; a lost
   handshake is silent. *)
OnDisconnected(c) ==
    /\ ~gateway /\ lib[c] \in {"connecting", "up"}
    /\ lib' = [lib EXCEPT ![c] = "dropped"]
    /\ IF lib[c] = "up" THEN DropIfCurrent(c)
       ELSE UNCHANGED <<connection, busConnected, bound, timer>>
    /\ UNCHANGED <<closing, disabled, enabledInFile, reconnecting, settled, gateway>>

(* The library restarts the handshake of an object nobody disconnected. *)
LibRetries(c) ==
    /\ lib[c] = "dropped"
    /\ lib' = [lib EXCEPT ![c] = "connecting"]
    /\ UNCHANGED <<connection, busConnected, bound, closing, timer, disabled,
                   enabledInFile, reconnecting, settled, gateway>>

(* giveUp, 20 s after the attempt began.  A gateway that answers all that time
   has completed the handshake. *)
GiveUp(c) ==
    /\ c \notin settled
    /\ ~gateway \/ lib[c] # "connecting"
    /\ DropIfCurrent(c)
    /\ Disconnect(c)
    /\ Settle(c)
    /\ UNCHANGED <<closing, disabled, enabledInFile, gateway>>

(* Objects a new attempt may take the name of: nobody holds or awaits them.
   BOUND: the remaining events of that object, all ignored, are forgotten. *)
Reusable == {c \in settled : c # connection}

(* closing = false, and connect() creates the attempt unless disabled. *)
BeginAttempt(off) ==
    /\ closing' = FALSE
    /\ IF off
       THEN /\ reconnecting' = "idle"
            /\ connection' = None
            /\ UNCHANGED <<settled, lib>>
       ELSE \E c \in Reusable :
            /\ reconnecting' = "connecting"
            /\ connection' = c
            /\ settled' = settled \ {c}
            /\ lib' = [lib EXCEPT ![c] = "connecting"]

(* Mutant: the pending automatic reconnect is left pending. *)
TimerNotCleared == timer

(* clearReconnectTimer *)
TimerCleared == FALSE

(* doReconnect up to its first await: take the gateway settings over, clear the
   timer and tear the tunnel down.  Without a connection object there is nothing
   to await and the new attempt begins at once. *)
StartReconnect ==
    /\ disabled' = ~enabledInFile
    /\ timer' = TimerCleared
    /\ busConnected' = FALSE
    /\ bound' = {}
    /\ IF connection = None
       THEN BeginAttempt(~enabledInFile)
       ELSE /\ closing' = TRUE
            /\ connection' = None
            /\ Disconnect(connection)
            /\ reconnecting' = "teardown"
            /\ UNCHANGED settled
    /\ UNCHANGED <<enabledInFile, gateway>>

(* reconnect() as called by the installer route and by recoverBusIfDropped; a
   call during another reconnect joins it and changes nothing. *)
Reconnect == reconnecting = "idle" /\ StartReconnect

(* The reconnect timer fires. *)
TimerFires ==
    /\ timer
    /\ IF reconnecting = "idle" THEN StartReconnect
       ELSE /\ timer' = FALSE
            /\ UNCHANGED <<connection, busConnected, bound, closing, disabled,
                           enabledInFile, reconnecting, settled, lib, gateway>>

(* Disconnect() called back, or 5 s passed. *)
TeardownDone ==
    /\ reconnecting = "teardown"
    /\ BeginAttempt(disabled)
    /\ UNCHANGED <<busConnected, bound, timer, disabled, enabledInFile, gateway>>

(* Mutant: datapoints are made without looking for a connection. *)
RefreshWithoutConnection ==
    /\ bound' = bound \cup {connection}
    /\ UNCHANGED <<connection, busConnected, closing, timer, disabled, enabledInFile,
                   reconnecting, settled, lib, gateway>>

(* refreshGroupAddresses after the house was saved: new datapoints are bound to
   the current object, be it up or still in its handshake. *)
RefreshGroupAddresses ==
    /\ connection # None
    /\ bound' = bound \cup {connection}
    /\ UNCHANGED <<connection, busConnected, closing, timer, disabled, enabledInFile,
                   reconnecting, settled, lib, gateway>>

(* The installer switches KNX on or off; it counts from the next reconnect. *)
SaveEnabled ==
    /\ enabledInFile' = ~enabledInFile
    /\ UNCHANGED <<connection, busConnected, bound, closing, timer, disabled,
                   reconnecting, settled, lib, gateway>>

(* The gateway, or the network to it, fails or comes back. *)
GatewayChanges ==
    /\ gateway' = ~gateway
    /\ UNCHANGED <<connection, busConnected, bound, closing, timer, disabled,
                   enabledInFile, reconnecting, settled, lib>>

Next ==
    \/ \E c \in Conns :
          OnConnected(c) \/ OnError(c) \/ OnDisconnected(c) \/ LibRetries(c) \/ GiveUp(c)
    \/ Reconnect
    \/ TimerFires
    \/ TeardownDone
    \/ RefreshGroupAddresses
    \/ SaveEnabled
    \/ GatewayChanges

Spec == Init /\ [][Next]_vars

(* Timers fire, a Disconnect is answered or times out, and a handshake with a
   gateway that answers is completed.  The give-up timer runs from the start of
   the attempt whatever the gateway does meanwhile, hence SF.  Nothing is assumed
   of the installer, nor of errors, nor that a gateway ever answers. *)
Fairness ==
    /\ WF_vars(TimerFires)
    /\ WF_vars(TeardownDone)
    /\ \A c \in Conns : WF_vars(OnConnected(c)) /\ SF_vars(GiveUp(c))

FairSpec == Spec /\ Fairness

-----------------------------------------------------------------------------
(* Properties *)

(* "Tunnel alive (false after a gateway drop until reconnect)" (knxBus.ts:264):
   `connected` is only true while the handshake of the current object is done
   and its tunnel has not been lost, whatever late events older objects send. *)
ConnectedIsAlive == connected => lib[connection] = "up"

(* Datapoints never outlive their tunnel: reads and writes through them go to
   the current connection object. *)
BoundToCurrent == bound \subseteq {connection}

(* "Tunnel gone or start failed: try again" (knxBus.ts:235): an enabled bus
   without a tunnel always has a timer, a reconnect or an attempt under way. *)
AlwaysRetrying ==
    ~disabled =>
        \/ connected
        \/ timer
        \/ reconnecting # "idle"
        \/ connection # None /\ connection \notin settled

(* A pending reconnect timer never coexists with a tunnel that is up, which it
   would tear down. *)
NoSpuriousReconnect == timer => ~connected

(* What the bus class (knxBus.ts) shows and writes through is a live tunnel, and the
   reconnect timer (scheduleAutoReconnect) runs when it has to and only then. *)
TunnelSound == ConnectedIsAlive /\ BoundToCurrent /\ AlwaysRetrying /\ NoSpuriousReconnect

(* The promise of a reconnect settles: the installer's request gets an answer
   however the gateway behaves. *)
ReconnectSettles == reconnecting # "idle" ~> reconnecting = "idle"

(* When the gateway answers from some time on and the bus is enabled, the tunnel
   is up again and again, also if the installer keeps reconnecting. *)
EventuallyConnected == <>[](gateway /\ ~disabled) => []<>connected
=============================================================================
