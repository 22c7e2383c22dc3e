--------------------------- MODULE KnxTunnelProofs ---------------------------
(***************************************************************************)
(* The safety of the tunnel's lifecycle, for any number of connection      *)
(* objects.  The four properties need each other: what late events may do  *)
(* depends on which objects are awaited, and whether a timer is needed on  *)
(* what a teardown leaves behind.                                          *)
(***************************************************************************)
EXTENDS KnxTunnelLife, TLAPS

(* An attempt that is still awaited is the current one or was disconnected, and
   no handshake is done before it is settled. *)
AwaitedInv ==
    \A c \in Conns : c \notin settled =>
        lib[c] # "up" /\ (c = connection \/ lib[c] = "closed")

(* The current object is awaited or has a tunnel with datapoints, and it only. *)
CurrentInv ==
    /\ connection # None /\ connection \in settled => busConnected
    /\ busConnected => connection \in bound /\ connection # None /\ lib[connection] = "up"
    /\ bound \subseteq {connection}

(* The stages of a reconnect. *)
ReconnectInv ==
    /\ reconnecting = "connecting" => connection # None /\ connection \notin settled
    /\ reconnecting = "teardown" => connection = None /\ ~timer
    /\ closing => reconnecting = "teardown"

(* There is a timer when nothing else will bring the tunnel back, and none while
   there is an object that it would tear down; a bus that is off has neither. *)
TimerInv ==
    /\ disabled => connection = None /\ ~timer
    /\ connection # None => ~timer
    /\ ~disabled /\ connection = None /\ reconnecting = "idle" => timer

TunnelInv == TypeOK /\ AwaitedInv /\ CurrentInv /\ ReconnectInv /\ TimerInv

(* Boot leaves one awaited attempt, or none when the bus is switched off. *)
LEMMA TunnelInit == Init => TunnelInv
<1> SUFFICES ASSUME Init PROVE TunnelInv
    OBVIOUS
<1>1. None \notin Conns BY KnxAssumption
<1>2. PICK c \in Conns :
        /\ connection = IF disabled THEN None ELSE c
        /\ settled = IF disabled THEN Conns ELSE Conns \ {c}
        /\ lib = [d \in Conns |-> IF d = c /\ ~disabled THEN "connecting" ELSE "closed"]
      BY DEF Init
<1>3. TypeOK BY <1>2 DEF Init, TypeOK
<1>4. AwaitedInv BY <1>1, <1>2 DEF AwaitedInv
<1>5. CurrentInv /\ ReconnectInv /\ TimerInv
      BY <1>1, <1>2 DEF Init, CurrentInv, ReconnectInv, TimerInv
<1> QED BY <1>3, <1>4, <1>5 DEF TunnelInv

(* What the handlers have in common: object c is settled, and the tunnel is
   dropped if it was c's; c has no tunnel afterwards. *)
LEMMA DropKeeps ==
    ASSUME TunnelInv, NEW c \in Conns, DropIfCurrent(c),
           settled' = settled \cup {c} /\ reconnecting' =
               (IF reconnecting = "connecting" /\ connection = c THEN "idle" ELSE reconnecting),
           NEW after \in {"connecting", "up", "dropped", "closed"},
           lib' = [lib EXCEPT ![c] = after],
           UNCHANGED <<closing, disabled, enabledInFile, gateway>>
    PROVE  TunnelInv'
<1> USE KnxAssumption DEF TunnelInv, TypeOK
<1>1. CASE connection = c
  <2>1. /\ connection' = None /\ busConnected' = FALSE /\ bound' = {}
        /\ timer' = (timer \/ (~closing /\ ~disabled))
        BY <1>1 DEF DropIfCurrent, MarkDropped, TimerAfterDrop
  <2>2. reconnecting # "teardown" /\ ~closing
        BY <1>1 DEF ReconnectInv
  <2>3. TypeOK' BY <2>1
  <2>4. AwaitedInv' BY <1>1, <2>1 DEF AwaitedInv
  <2>5. CurrentInv' /\ TimerInv' BY <2>1, <2>2 DEF CurrentInv, TimerInv
  <2>6. ReconnectInv' BY <1>1, <2>1, <2>2 DEF ReconnectInv
  <2> QED BY <2>3, <2>4, <2>5, <2>6
<1>2. CASE connection # c
  <2>1. UNCHANGED <<connection, busConnected, bound, timer, reconnecting>>
        BY <1>2 DEF DropIfCurrent
  <2>2. TypeOK' BY <2>1
  <2>3. AwaitedInv' BY <1>2, <2>1 DEF AwaitedInv
  <2>4. CurrentInv' BY <1>2, <2>1 DEF CurrentInv
  <2>5. ReconnectInv' /\ TimerInv' BY <1>2, <2>1 DEF ReconnectInv, TimerInv
  <2> QED BY <2>2, <2>3, <2>4, <2>5
<1> QED BY <1>1, <1>2

(* A handshake that is completed in time gives the bus a tunnel; a late one is
   disconnected. *)
LEMMA ConnectedKeeps ==
    ASSUME TunnelInv, NEW c \in Conns, OnConnected(c)
    PROVE  TunnelInv'
<1> USE KnxAssumption DEF TunnelInv, TypeOK
<1>1. CASE c \in settled
  <2>1. /\ lib' = [lib EXCEPT ![c] = "closed"] /\ lib[c] = "connecting"
        /\ UNCHANGED <<connection, busConnected, bound, timer, reconnecting, settled,
                       closing, disabled, enabledInFile, gateway>>
        BY <1>1 DEF OnConnected, TooLate, Disconnect
  <2> QED BY <1>1, <2>1 DEF AwaitedInv, CurrentInv, ReconnectInv, TimerInv
<1>2. CASE c \notin settled
  <2>1. /\ lib' = [lib EXCEPT ![c] = "up"] /\ lib[c] = "connecting"
        /\ bound' = bound \cup {c} /\ busConnected' = TRUE
        /\ settled' = settled \cup {c}
        /\ reconnecting' = IF reconnecting = "connecting" /\ connection = c
                           THEN "idle" ELSE reconnecting
        /\ UNCHANGED <<connection, timer, closing, disabled, enabledInFile, gateway>>
        BY <1>2 DEF OnConnected, TooLate, Settle
  <2>2. c = connection BY <1>2, <2>1 DEF AwaitedInv
  <2>3. TypeOK' BY <2>1
  <2>4. AwaitedInv' BY <2>1, <2>2 DEF AwaitedInv
  <2>5. CurrentInv' BY <2>1, <2>2 DEF CurrentInv
  <2>6. ReconnectInv' /\ TimerInv' BY <2>1, <2>2 DEF ReconnectInv, TimerInv
  <2> QED BY <2>3, <2>4, <2>5, <2>6
<1> QED BY <1>1, <1>2

(* A lost tunnel is dropped; a lost handshake of the current object leaves it
   awaited. *)
LEMMA DisconnectedKeeps ==
    ASSUME TunnelInv, NEW c \in Conns, OnDisconnected(c)
    PROVE  TunnelInv'
<1> USE KnxAssumption DEF TunnelInv, TypeOK
<1>1. /\ lib' = [lib EXCEPT ![c] = "dropped"] /\ lib[c] \in {"connecting", "up"}
      /\ UNCHANGED <<closing, disabled, enabledInFile, reconnecting, settled, gateway>>
      BY DEF OnDisconnected
<1>2. CASE lib[c] = "up" /\ connection = c
  <2>1. DropIfCurrent(c) BY <1>2 DEF OnDisconnected
  <2>2. c \in settled BY <1>2 DEF AwaitedInv
  <2>3. settled' = settled \cup {c} BY <1>1, <2>2
  <2>4. reconnecting # "connecting" BY <1>2, <2>2 DEF ReconnectInv
  <2>5. reconnecting' = IF reconnecting = "connecting" /\ connection = c
                        THEN "idle" ELSE reconnecting
        BY <1>1, <2>4
  <2> HIDE DEF TunnelInv, TypeOK
  <2> QED BY <1>1, <2>1, <2>3, <2>5, DropKeeps
<1>3. CASE ~(lib[c] = "up" /\ connection = c)
  <2>1. UNCHANGED <<connection, busConnected, bound, timer>>
        BY <1>1, <1>3 DEF OnDisconnected, DropIfCurrent
  <2> QED BY <1>1, <1>3, <2>1 DEF AwaitedInv, CurrentInv, ReconnectInv, TimerInv
<1> QED BY <1>2, <1>3

(* A new attempt begins when there is no object and no timer. *)
LEMMA BeginKeeps ==
    ASSUME TunnelInv, BeginAttempt(disabled'), connection = None,
           busConnected' = FALSE, bound' = {}, timer' = FALSE, disabled' \in BOOLEAN,
           UNCHANGED <<enabledInFile, gateway>>
    PROVE  TunnelInv'
<1> USE KnxAssumption DEF TunnelInv, TypeOK
<1>1. CASE disabled'
  <2>1. /\ closing' = FALSE /\ reconnecting' = "idle" /\ connection' = None
        /\ settled' = settled /\ lib' = lib
        BY <1>1 DEF BeginAttempt
  <2> QED BY <1>1, <2>1 DEF AwaitedInv, CurrentInv, ReconnectInv, TimerInv
<1>2. CASE ~disabled'
  <2>1. PICK c \in Conns :
          /\ closing' = FALSE /\ reconnecting' = "connecting" /\ connection' = c
          /\ settled' = settled \ {c} /\ lib' = [lib EXCEPT ![c] = "connecting"]
        BY <1>2 DEF BeginAttempt, Reusable
  <2>2. TypeOK' BY <2>1
  <2>3. AwaitedInv' BY <2>1 DEF AwaitedInv
  <2>4. CurrentInv' BY <2>1 DEF CurrentInv
  <2>5. ReconnectInv' /\ TimerInv' BY <1>2, <2>1 DEF ReconnectInv, TimerInv
  <2> QED BY <2>2, <2>3, <2>4, <2>5
<1> QED BY <1>1, <1>2

(* A reconnect tears the current object down, or begins at once without one. *)
LEMMA StartReconnectKeeps ==
    ASSUME TunnelInv, StartReconnect, reconnecting = "idle"
    PROVE  TunnelInv'
<1>1. /\ disabled' = ~enabledInFile /\ timer' = FALSE
      /\ busConnected' = FALSE /\ bound' = {}
      /\ UNCHANGED <<enabledInFile, gateway>>
      BY DEF StartReconnect, TimerCleared
<1>2. CASE connection = None
  <2>1. BeginAttempt(disabled') BY <1>1, <1>2 DEF StartReconnect
  <2>2. disabled' \in BOOLEAN BY <1>1 DEF TunnelInv, TypeOK
  <2> QED BY <1>1, <1>2, <2>1, <2>2, BeginKeeps
<1>3. CASE connection # None
  <2>1. /\ closing' = TRUE /\ connection' = None /\ reconnecting' = "teardown"
        /\ lib' = [lib EXCEPT ![connection] = "closed"] /\ settled' = settled
        BY <1>3 DEF StartReconnect, Disconnect
  <2>2. TypeOK' BY <1>1, <1>3, <2>1 DEF TunnelInv, TypeOK
  <2>3. AwaitedInv' BY <1>3, <2>1 DEF TunnelInv, TypeOK, AwaitedInv
  <2>4. CurrentInv' /\ ReconnectInv' /\ TimerInv'
        BY <1>1, <2>1 DEF CurrentInv, ReconnectInv, TimerInv
  <2> QED BY <2>2, <2>3, <2>4 DEF TunnelInv
<1> QED BY <1>2, <1>3

(* Every handler, timer and request keeps the invariant. *)
LEMMA TunnelStep == TunnelInv /\ [Next]_vars => TunnelInv'
<1> SUFFICES ASSUME TunnelInv, [Next]_vars PROVE TunnelInv'
    OBVIOUS
<1>1. ASSUME NEW c \in Conns, OnConnected(c) PROVE TunnelInv'
      BY <1>1, ConnectedKeeps
<1>2. ASSUME NEW c \in Conns, OnError(c) PROVE TunnelInv'
  <2>1. PICK after \in {lib[c], "dropped"} : lib' = [lib EXCEPT ![c] = after]
        BY <1>2 DEF OnError
  <2>2. after \in {"connecting", "up", "dropped", "closed"}
        BY <2>1 DEF TunnelInv, TypeOK
  <2> QED BY <1>2, <2>1, <2>2, DropKeeps DEF OnError, Settle
<1>3. ASSUME NEW c \in Conns, OnDisconnected(c) PROVE TunnelInv'
      BY <1>3, DisconnectedKeeps
<1>4. ASSUME NEW c \in Conns, LibRetries(c) PROVE TunnelInv'
  <2>1. /\ lib[c] = "dropped" /\ lib' = [lib EXCEPT ![c] = "connecting"]
        /\ UNCHANGED <<connection, busConnected, bound, closing, timer, disabled,
                       enabledInFile, reconnecting, settled, gateway>>
        BY <1>4 DEF LibRetries
  <2> QED BY <2>1 DEF TunnelInv, TypeOK, AwaitedInv, CurrentInv, ReconnectInv, TimerInv
<1>5. ASSUME NEW c \in Conns, GiveUp(c) PROVE TunnelInv'
  <2>1. lib' = [lib EXCEPT ![c] = "closed"] BY <1>5 DEF GiveUp, Disconnect
  <2> QED BY <1>5, <2>1, DropKeeps DEF GiveUp, Settle
<1>6. CASE Reconnect BY <1>6, StartReconnectKeeps DEF Reconnect
<1>7. CASE TimerFires
  <2>1. reconnecting = "idle"
        BY <1>7 DEF TimerFires, TunnelInv, TypeOK, ReconnectInv, TimerInv
  <2> QED BY <1>7, <2>1, StartReconnectKeeps DEF TimerFires
<1>8. CASE TeardownDone
  <2>1. /\ BeginAttempt(disabled) /\ connection = None /\ timer = FALSE
        /\ UNCHANGED <<busConnected, bound, timer, disabled, enabledInFile, gateway>>
        BY <1>8 DEF TeardownDone, TunnelInv, TypeOK, ReconnectInv
  <2>2. busConnected = FALSE /\ bound = {} /\ disabled \in BOOLEAN
        BY <2>1, KnxAssumption DEF TunnelInv, TypeOK, CurrentInv
  <2> QED BY <2>1, <2>2, BeginKeeps
<1>9. CASE RefreshGroupAddresses
  <2>1. connection # None /\ bound' = bound \cup {connection}
        /\ UNCHANGED <<connection, busConnected, closing, timer, disabled, enabledInFile,
                       reconnecting, settled, lib, gateway>>
        BY <1>9 DEF RefreshGroupAddresses
  <2> QED BY <2>1 DEF TunnelInv, TypeOK, AwaitedInv, CurrentInv, ReconnectInv, TimerInv
<1>10. CASE SaveEnabled \/ GatewayChanges
  <2>1. /\ enabledInFile' \in BOOLEAN /\ gateway' \in BOOLEAN
        /\ UNCHANGED <<connection, busConnected, bound, closing, timer, disabled,
                       reconnecting, settled, lib>>
        BY <1>10 DEF SaveEnabled, GatewayChanges, TunnelInv, TypeOK
  <2> QED BY <2>1 DEF TunnelInv, TypeOK, AwaitedInv, CurrentInv, ReconnectInv, TimerInv
<1>11. CASE UNCHANGED vars
      BY <1>11 DEF vars, TunnelInv, TypeOK, AwaitedInv, CurrentInv, ReconnectInv, TimerInv
<1> QED BY <1>1, <1>2, <1>3, <1>4, <1>5, <1>6, <1>7, <1>8, <1>9, <1>10, <1>11 DEF Next

(* The invariant holds for any number of connection objects. *)
THEOREM TunnelAlways == Spec => []TunnelInv
BY TunnelInit, TunnelStep, PTL DEF Spec

(* The state of the bus class has its type. *)
THEOREM TunnelTyped == Spec => []TypeOK
<1>1. TunnelInv => TypeOK BY DEF TunnelInv
<1> QED BY <1>1, TunnelAlways, PTL

(* The bus is shown as connected only while its tunnel is alive, whatever events
   older connection objects send (the guards of connect's handlers). *)
THEOREM NeverDeadTunnel == Spec => []ConnectedIsAlive
<1>1. TunnelInv => ConnectedIsAlive
      BY DEF TunnelInv, CurrentInv, ConnectedIsAlive, connected
<1> QED BY <1>1, TunnelAlways, PTL

(* Datapoints belong to the current connection object (markDropped, doReconnect). *)
THEOREM NeverBoundElsewhere == Spec => []BoundToCurrent
<1>1. TunnelInv => BoundToCurrent BY DEF TunnelInv, CurrentInv, BoundToCurrent
<1> QED BY <1>1, TunnelAlways, PTL

(* An enabled bus without a tunnel has something under way that brings it back, in
   every order of errors, give-ups, drops and reconnects (scheduleAutoReconnect). *)
THEOREM NeverStopsTrying == Spec => []AlwaysRetrying
<1>1. TunnelInv => AlwaysRetrying
      BY DEF TunnelInv, TypeOK, CurrentInv, TimerInv, AlwaysRetrying, connected
<1> QED BY <1>1, TunnelAlways, PTL

(* The reconnect timer does not tear down a tunnel that is up (markDropped,
   clearReconnectTimer). *)
THEOREM NeverTornDown == Spec => []NoSpuriousReconnect
<1>1. TunnelInv => NoSpuriousReconnect
      BY DEF TunnelInv, CurrentInv, TimerInv, NoSpuriousReconnect, connected
<1> QED BY <1>1, TunnelAlways, PTL

(* Together: what the bus shows and writes through is a live tunnel, and the reconnect
   timer runs when it has to and only then. *)
THEOREM TunnelAlwaysSound == Spec => []TunnelSound
<1>1. ConnectedIsAlive /\ BoundToCurrent /\ AlwaysRetrying /\ NoSpuriousReconnect => TunnelSound
      BY DEF TunnelSound
<1> QED BY <1>1, NeverDeadTunnel, NeverBoundElsewhere, NeverStopsTrying, NeverTornDown, PTL

-----------------------------------------------------------------------------
(* In which stage the bus is: the variables of the tunnel always fit together. *)
StageOf ==
    /\ connection # None /\ busConnected => Stage = "up"
    /\ connection # None /\ ~busConnected => Stage = "trying"
    /\ connection = None /\ timer => Stage = "waiting"
    /\ connection = None /\ reconnecting = "teardown" => Stage = "closing"
    /\ connection = None /\ reconnecting # "teardown" /\ ~timer => Stage = "off" /\ disabled

LEMMA StageFits == TunnelInv => StageOf
<1> SUFFICES ASSUME TunnelInv PROVE StageOf
    OBVIOUS
<1>1. connection # None /\ busConnected => Stage = "up"
      BY DEF TunnelInv, TypeOK, CurrentInv, TimerInv, Stage, HasTunnel, Awaited, connected
<1>2. connection # None /\ ~busConnected => Stage = "trying"
      BY DEF TunnelInv, TypeOK, CurrentInv, TimerInv, Stage, HasTunnel, Awaited, connected
<1>3. connection = None => ~busConnected /\ reconnecting # "connecting"
      BY DEF TunnelInv, CurrentInv, ReconnectInv
<1>4. connection = None /\ timer => Stage = "waiting"
      BY <1>3 DEF TunnelInv, TypeOK, ReconnectInv, Stage, HasTunnel, Awaited, connected
<1>5. connection = None /\ reconnecting = "teardown" => Stage = "closing"
      BY <1>3 DEF TunnelInv, TypeOK, ReconnectInv, Stage, HasTunnel, Awaited, connected
<1>6. connection = None /\ reconnecting # "teardown" /\ ~timer => Stage = "off" /\ disabled
      BY <1>3 DEF TunnelInv, TypeOK, TimerInv, Stage, HasTunnel, Awaited, connected
<1> QED BY <1>1, <1>2, <1>4, <1>5, <1>6 DEF StageOf

(* Boot, with an attempt or switched off, is where a life begins. *)
LEMMA LifeBegins == Init => Life!Init
<1> SUFFICES ASSUME Init PROVE Life!Init
    OBVIOUS
<1>1. StageOf BY TunnelInit, StageFits
<1>2. /\ enabledInFile \in BOOLEAN /\ gateway \in BOOLEAN /\ disabled = ~enabledInFile
      /\ busConnected = FALSE /\ timer = FALSE /\ bound = {} /\ reconnecting = "idle"
      BY DEF Init
<1>3. connection = None <=> disabled BY KnxAssumption, <1>2 DEF Init
<1>4. Stage = IF ~disabled THEN "trying" ELSE "off" BY <1>1, <1>2, <1>3 DEF StageOf
<1>5. (~disabled) = enabledInFile BY <1>2
<1>6. (connection \in bound) = FALSE /\ (reconnecting # "idle") = FALSE BY <1>2
<1> QED BY <1>2, <1>4, <1>5, <1>6 DEF Life!Init

(* A handler that drops the current object loses the tunnel or the attempt; one that
   settles an older object changes nothing. *)
LEMMA DropLoses ==
    ASSUME TunnelInv, StageOf, StageOf', NEW c \in Conns, DropIfCurrent(c),
           settled' = settled \cup {c} /\ reconnecting' =
               (IF reconnecting = "connecting" /\ connection = c THEN "idle" ELSE reconnecting),
           UNCHANGED <<closing, disabled, enabledInFile, gateway>>,
           busConnected /\ connection = c => ~gateway
    PROVE  Life!Next \/ UNCHANGED Life!lifeVars
<1>0. None \notin Conns BY KnxAssumption
<1>1. CASE connection = c
  <2>1. /\ connection' = None /\ busConnected' = FALSE /\ bound' = {}
        /\ timer' = (timer \/ (~closing /\ ~disabled))
        BY <1>0, <1>1 DEF DropIfCurrent, MarkDropped, TimerAfterDrop
  <2>2. reconnecting # "teardown" /\ ~closing
        BY <1>0, <1>1 DEF TunnelInv, ReconnectInv
  <2>3. Stage \in {"trying", "up"} /\ (Stage = "up" => ~gateway)
        BY <1>0, <1>1 DEF StageOf
  <2>4. Stage' = "waiting"
        BY <1>0, <1>1, <2>1, <2>2 DEF StageOf, TunnelInv, TypeOK, TimerInv
  <2>5. (connection \in bound)' = FALSE /\ (reconnecting # "idle")' = FALSE
        BY <1>1, <2>1, <2>2 DEF TunnelInv, TypeOK
  <2>6. Life!Lost BY <2>3, <2>4, <2>5 DEF Life!Lost
  <2> QED BY <2>6 DEF Life!Next
<1>2. CASE connection # c
  <2>1. UNCHANGED <<connection, busConnected, bound, timer, reconnecting>>
        BY <1>2 DEF DropIfCurrent
  <2>2. UNCHANGED Stage BY <2>1 DEF StageOf
  <2> QED BY <2>1, <2>2 DEF Life!lifeVars
<1> QED BY <1>1, <1>2

(* A handshake that is completed in time answers the attempt, a late one is none of
   the bus's concern. *)
LEMMA ConnectedAnswers ==
    ASSUME TunnelInv, StageOf, StageOf', NEW c \in Conns, OnConnected(c)
    PROVE  Life!Next \/ UNCHANGED Life!lifeVars
<1>0. None \notin Conns BY KnxAssumption
<1>1. CASE c \in settled
  <2>1. UNCHANGED <<connection, busConnected, bound, timer, reconnecting, disabled,
                    enabledInFile, gateway>>
        BY <1>1 DEF OnConnected, TooLate
  <2>2. UNCHANGED Stage BY <2>1 DEF StageOf
  <2> QED BY <2>1, <2>2 DEF Life!lifeVars
<1>2. CASE c \notin settled
  <2>1. /\ gateway /\ lib[c] = "connecting"
        /\ bound' = bound \cup {c} /\ busConnected' = TRUE
        /\ reconnecting' = IF reconnecting = "connecting" /\ connection = c
                           THEN "idle" ELSE reconnecting
        /\ UNCHANGED <<connection, disabled, enabledInFile, gateway>>
        BY <1>2 DEF OnConnected, TooLate, Settle
  <2>2. c = connection /\ ~busConnected
        BY <1>2, <2>1 DEF TunnelInv, AwaitedInv, CurrentInv
  <2>3. Stage = "trying" /\ Stage' = "up" BY <1>0, <2>1, <2>2 DEF StageOf
  <2>4. (connection \in bound)' = TRUE /\ (reconnecting # "idle")' = FALSE
        BY <1>0, <2>1, <2>2 DEF TunnelInv, TypeOK, ReconnectInv
  <2>5. Life!Answered BY <2>1, <2>3, <2>4 DEF Life!Answered
  <2> QED BY <2>5 DEF Life!Next
<1> QED BY <1>1, <1>2

(* The end of a wait or a request: what there is of a tunnel is closed, and without it
   the next attempt begins at once. *)
LEMMA BeginAttempts ==
    ASSUME TunnelInv, StageOf', BeginAttempt(disabled'), bound' = {}, timer' = FALSE, busConnected' = FALSE
    PROVE  Life!Attempt(~disabled') /\ (connection \in bound)' = FALSE
<1>0. None \notin Conns BY KnxAssumption
<1>1. CASE disabled'
  <2>1. reconnecting' = "idle" /\ connection' = None BY <1>1 DEF BeginAttempt
  <2>2. Stage' = "off" BY <2>1 DEF StageOf
  <2> QED BY <1>1, <2>1, <2>2 DEF Life!Attempt
<1>2. CASE ~disabled'
  <2>1. PICK c \in Reusable : reconnecting' = "connecting" /\ connection' = c
        BY <1>2 DEF BeginAttempt
  <2>3. connection' # None BY <1>0, <2>1 DEF Reusable, TunnelInv, TypeOK
  <2>2. Stage' = "trying" BY <2>1, <2>3 DEF StageOf
  <2> QED BY <1>2, <2>1, <2>2 DEF Life!Attempt
<1> QED BY <1>1, <1>2

LEMMA ReconnectsAgain ==
    ASSUME TunnelInv, TunnelInv', StageOf, StageOf', StartReconnect, reconnecting = "idle"
    PROVE  Life!Next
<1>1. /\ disabled' = ~enabledInFile /\ timer' = FALSE /\ busConnected' = FALSE /\ bound' = {}
      /\ UNCHANGED <<enabledInFile, gateway>> /\ enabledInFile \in BOOLEAN
      BY DEF StartReconnect, TimerCleared, TunnelInv, TypeOK
<1>2. (~disabled') = enabledInFile BY <1>1
<1>3. CASE connection = None
  <2>1. BeginAttempt(disabled') BY <1>1, <1>3 DEF StartReconnect
  <2>2. Life!Attempt(~disabled') /\ (connection \in bound)' = FALSE
        BY <1>1, <2>1, BeginAttempts
  <2>3. Stage \in {"off", "waiting"} BY <1>3 DEF StageOf, TunnelInv, TypeOK
  <2> QED BY <1>1, <1>2, <2>2, <2>3 DEF Life!Next, Life!Again
<1>4. CASE connection # None
  <2>1. connection' = None /\ reconnecting' = "teardown" BY <1>4 DEF StartReconnect
  <2>2. Stage \in {"trying", "up"} /\ Stage' = "closing"
        BY <1>4, <2>1 DEF StageOf, TunnelInv, TypeOK
  <2>3. (connection \in bound)' = FALSE BY <1>1
  <2> QED BY <1>1, <1>2, <2>1, <2>2, <2>3 DEF Life!Next, Life!Again
<1> QED BY <1>3, <1>4

(* Each handler, timer and request is a step of the bus's life, or none. *)
LEMMA LifeGoesOn ==
    TunnelInv /\ TunnelInv' /\ StageOf /\ StageOf' /\ [Next]_vars => [Life!Next]_(Life!lifeVars)
<1> SUFFICES ASSUME TunnelInv, TunnelInv', StageOf, StageOf', [Next]_vars
             PROVE  Life!Next \/ UNCHANGED Life!lifeVars
    OBVIOUS
<1>0. None \notin Conns BY KnxAssumption
<1>1. ASSUME NEW c \in Conns, OnConnected(c) PROVE Life!Next \/ UNCHANGED Life!lifeVars
      BY <1>1, ConnectedAnswers
<1>2. ASSUME NEW c \in Conns, OnError(c) PROVE Life!Next \/ UNCHANGED Life!lifeVars
      BY <1>2, DropLoses DEF OnError, Settle
<1>3. ASSUME NEW c \in Conns, OnDisconnected(c) PROVE Life!Next \/ UNCHANGED Life!lifeVars
  <2>1. /\ ~gateway /\ lib[c] \in {"connecting", "up"}
        /\ UNCHANGED <<closing, disabled, enabledInFile, reconnecting, settled, gateway>>
        BY <1>3 DEF OnDisconnected
  <2>2. CASE lib[c] = "up" /\ connection = c
    <3>1. DropIfCurrent(c) BY <1>3, <2>2 DEF OnDisconnected
    <3>2. c \in settled BY <2>2 DEF TunnelInv, AwaitedInv
    <3>3. settled' = settled \cup {c} BY <2>1, <3>2
    <3>4. reconnecting' = IF reconnecting = "connecting" /\ connection = c THEN "idle" ELSE reconnecting
          BY <2>1, <2>2, <3>2 DEF TunnelInv, ReconnectInv
    <3> QED BY <2>1, <3>1, <3>3, <3>4, DropLoses
  <2>3. CASE ~(lib[c] = "up" /\ connection = c)
    <3>1. UNCHANGED <<connection, busConnected, bound, timer>>
          BY <1>3, <2>3 DEF OnDisconnected, DropIfCurrent
    <3>2. UNCHANGED Stage BY <2>1, <3>1 DEF StageOf
    <3> QED BY <2>1, <3>1, <3>2 DEF Life!lifeVars
  <2> QED BY <2>2, <2>3
<1>4. ASSUME NEW c \in Conns, LibRetries(c) PROVE Life!Next \/ UNCHANGED Life!lifeVars
  <2>1. UNCHANGED <<connection, busConnected, bound, timer, disabled, enabledInFile, reconnecting, gateway>>
        BY <1>4 DEF LibRetries
  <2>2. UNCHANGED Stage BY <2>1 DEF StageOf
  <2> QED BY <2>1, <2>2 DEF Life!lifeVars
<1>5. ASSUME NEW c \in Conns, GiveUp(c) PROVE Life!Next \/ UNCHANGED Life!lifeVars
  <2>1. ~(busConnected /\ connection = c)
        BY <1>5 DEF GiveUp, TunnelInv, AwaitedInv, CurrentInv
  <2> QED BY <1>5, <2>1, DropLoses DEF GiveUp, Settle
<1>6. CASE Reconnect BY <1>6, ReconnectsAgain DEF Reconnect
<1>7. CASE TimerFires
  <2>1. reconnecting = "idle"
        BY <1>7 DEF TimerFires, TunnelInv, TypeOK, ReconnectInv, TimerInv
  <2> QED BY <1>7, <2>1, ReconnectsAgain DEF TimerFires
<1>8. CASE TeardownDone
  <2>1. /\ reconnecting = "teardown" /\ connection = None /\ BeginAttempt(disabled)
        /\ UNCHANGED <<busConnected, bound, timer, disabled, enabledInFile, gateway>>
        BY <1>8 DEF TeardownDone, TunnelInv, ReconnectInv
  <2>2. busConnected = FALSE /\ timer = FALSE /\ bound = {}
        BY <1>0, <2>1 DEF TunnelInv, TypeOK, CurrentInv, ReconnectInv
  <2>3. Life!Attempt(~disabled') /\ (connection \in bound)' = FALSE
        BY <2>1, <2>2, BeginAttempts
  <2>4. Stage = "closing" BY <2>1 DEF StageOf
  <2>5. Life!Attempt(~disabled) BY <2>1, <2>3
  <2>6. (connection \in bound) = FALSE BY <2>2
  <2>7. Life!Closed BY <2>1, <2>3, <2>4, <2>5, <2>6 DEF Life!Closed
  <2> QED BY <2>7 DEF Life!Next
<1>9. CASE RefreshGroupAddresses
  <2>1. /\ connection # None /\ bound' = bound \cup {connection}
        /\ UNCHANGED <<connection, busConnected, timer, disabled, enabledInFile, reconnecting, gateway>>
        BY <1>9 DEF RefreshGroupAddresses
  <2>2. UNCHANGED Stage /\ Stage \in {"trying", "up"} BY <2>1 DEF StageOf, TunnelInv, TypeOK
  <2>3. (connection \in bound)' = TRUE BY <2>1
  <2>4. Life!Refreshed BY <2>1, <2>2, <2>3 DEF Life!Refreshed
  <2> QED BY <2>4 DEF Life!Next
<1>10. CASE SaveEnabled
  <2>1. /\ enabledInFile' = ~enabledInFile
        /\ UNCHANGED <<connection, busConnected, bound, timer, disabled, reconnecting, gateway>>
        BY <1>10 DEF SaveEnabled
  <2>2. UNCHANGED Stage BY <2>1 DEF StageOf
  <2>3. Life!Saved BY <2>1, <2>2 DEF Life!Saved
  <2> QED BY <2>3 DEF Life!Next
<1>11. CASE GatewayChanges
  <2>1. /\ gateway' = ~gateway
        /\ UNCHANGED <<connection, busConnected, bound, timer, disabled, enabledInFile, reconnecting>>
        BY <1>11 DEF GatewayChanges
  <2>2. UNCHANGED Stage BY <2>1 DEF StageOf
  <2>3. Life!GatewayTurns BY <2>1, <2>2 DEF Life!GatewayTurns
  <2> QED BY <2>3 DEF Life!Next
<1>12. CASE UNCHANGED vars
  <2>1. UNCHANGED <<connection, busConnected, bound, timer, disabled, enabledInFile, reconnecting, gateway>>
        BY <1>12 DEF vars
  <2>2. UNCHANGED Stage BY <2>1 DEF StageOf
  <2> QED BY <2>1, <2>2 DEF Life!lifeVars
<1> QED BY <1>1, <1>2, <1>3, <1>4, <1>5, <1>6, <1>7, <1>8, <1>9, <1>10, <1>11, <1>12 DEF Next

(* The refinement: seen from outside, connection objects, handlers and timers (connect,
   markDropped, scheduleAutoReconnect, doReconnect) lead the life of BusLife, for any
   number of connection objects. *)
THEOREM ImplementsLife == Spec => FollowsLife
<1>1. TunnelInv => StageOf BY StageFits
<1>2. TunnelInv /\ TunnelInv' /\ StageOf /\ StageOf' /\ [Next]_vars => [Life!Next]_(Life!lifeVars)
      BY LifeGoesOn
<1> QED BY <1>1, <1>2, LifeBegins, TunnelAlways, PTL DEF Spec, FollowsLife
=============================================================================
