------------------------------ MODULE DoorRings ------------------------------
(* What the doors of the house share: the overlay the panels show for a ring, *)
(* the memory voip/manager.ts has of the last ring and the last answer, the   *)
(* channel voip/dtmfRelease.ts has noted for each door, and the ways a door   *)
(* is opened.  IntercomLine models the book of one door; here several doors   *)
(* ring through one backend.                                                  *)
(*                                                                           *)
(* Reports are handled as they are sent (AMI keeps their order; IntercomLine  *)
(* models the delay and the loss of them).  No report carries INTERCOM_ID:    *)
(* the manager.conf of asteriskConfig.ts asks for no channel variables, so    *)
(* channelIntercom, which is filled from that field only, stays empty.        *)
EXTENDS Naturals, FiniteSets

CONSTANTS
    Doors,
    Setup,      \* door -> the fields that choose how it is opened
    SipOf,      \* the doors whose group has a SIP panel
    None

VARIABLES
    call,       \* door -> "none" | "ring" | "talk" | "dialed" (a panel called it)
    shown,      \* door -> do the panels show its ring?
    hook,       \* door -> was that by a webhook or a test, without a call?
    last,       \* lastRingIntercomId
    answered,   \* answeredBroadcastFor
    chan,       \* door -> "none" | "live" | "dead": doorChannelByIntercom
    pulse,      \* the KNX-opened doors whose release is on
    told,       \* what the app was told of its last release
    heard,      \* the last digit of a panel: whose call, which door it opened
    crossed     \* did calls of two doors, or a test, overlap since all was idle?

vars == <<call, shown, hook, last, answered, chan, pulse, told, heard, crossed>>

Stages == {"none", "ring", "talk", "dialed"}

TypesOK ==
    /\ call \in [Doors -> Stages]
    /\ shown \in [Doors -> BOOLEAN] /\ hook \in [Doors -> BOOLEAN]
    /\ last \in Doors \cup {None} /\ answered \in Doors \cup {None}
    /\ chan \in [Doors -> {"none", "live", "dead"}]
    /\ pulse \subseteq Doors
    /\ told \in {"ok", "error"}
    /\ heard.from \in Doors \cup {None} /\ heard.opened \in Doors \cup {None}
    /\ crossed \in BOOLEAN

Init ==
    /\ call = [d \in Doors |-> "none"]
    /\ shown = [d \in Doors |-> FALSE] /\ hook = [d \in Doors |-> FALSE]
    /\ last = None /\ answered = None
    /\ chan = [d \in Doors |-> "none"]
    /\ pulse = {}
    /\ told = "ok"
    /\ heard = [from |-> None, opened |-> None]
    /\ crossed = FALSE

-----------------------------------------------------------------------------
(* resolvedDoorbird: what the DoorBird block leaves out comes from the login  *)
(* in the RTSP address (credentialsFromRtsp), when that is complete.          *)
DoorFields == [want : {"http", "doorbird", "knx", "none"},
               filled : SUBSET {"http", "knx", "sip"},
               block : SUBSET {"host", "username", "password"},
               rtsp : SUBSET {"host", "username", "password"}]
Login == {"host", "username", "password"}
CredentialsFromRtsp(f) == IF f.rtsp = Login THEN Login ELSE {}
ResolvedDoorbird(f) == f.block \cup CredentialsFromRtsp(f)

(* hasHttp, hasKnx, hasDoorbird and hasDtmf.                                  *)
Has(f) == (f.filled \cap {"http", "knx"})
          \cup {m \in {"doorbird"} : ResolvedDoorbird(f) = Login}
          \cup {m \in {"dtmf"} : "sip" \in f.filled}

(* effectiveIntercomReleaseMode: the wish wins when what it needs is filled   *)
(* in, else the first way that is.                                            *)
ReleaseMode(f) ==
    IF f.want \in Has(f) THEN f.want
    ELSE IF "http" \in Has(f) THEN "http"
    ELSE IF "knx" \in Has(f) THEN "knx"
    ELSE IF "doorbird" \in Has(f) THEN "doorbird"
    ELSE IF "dtmf" \in Has(f) THEN "dtmf"
    ELSE IF f.want = "none" THEN "knx" ELSE f.want
SupportsRelease(f) == ReleaseMode(f) \in Has(f)

SetupAssumption == Setup \in [Doors -> DoorFields] /\ None \notin Doors

-----------------------------------------------------------------------------
(* The overlay: broadcastIntercomRing and broadcastIntercomCleared.           *)
Overlay == [shown |-> shown, hook |-> hook, answered |-> answered]
Rung(o, d, byHook) ==
    [o EXCEPT !.shown[d] = TRUE, !.hook[d] = IF byHook THEN TRUE ELSE @]
Hidden(o, d) == [o EXCEPT !.shown[d] = FALSE, !.hook[d] = FALSE]

(* Whoever is taken to have been answered is broadcast once.                  *)
Answered(o, d) ==
    IF d = None \/ o.answered = d THEN o ELSE [Hidden(o, d) EXCEPT !.answered = d]

Shows(o) == shown' = o.shown /\ hook' = o.hook /\ answered' = o.answered

Others(d) == {e \in Doors \ {d} : call[e] # "none"}
Crosses(d) == crossed' = (crossed \/ Others(d) # {})

-----------------------------------------------------------------------------
(* The door station calls in: the UserEvent `ring`, whose channel is noted.   *)
DoorRings(d) ==
    /\ call[d] = "none"
    /\ call' = [call EXCEPT ![d] = "ring"]
    /\ last' = d
    /\ chan' = [chan EXCEPT ![d] = "live"]
    /\ Shows([Rung(Overlay, d, FALSE) EXCEPT !.answered = None])
    /\ Crosses(d)
    /\ UNCHANGED <<pulse, told, heard>>

(* A panel answers: DialEnd ANSWER, for whom the last ring stands in, and the *)
(* UserEvent `answered` with the door's own id, in either order.              *)
PanelAnswers(d) ==
    /\ call[d] = "ring" /\ d \in SipOf
    /\ call' = [call EXCEPT ![d] = "talk"]
    /\ \/ Shows(Answered(Answered(Overlay, last), d))
       \/ Shows(Answered(Answered(Overlay, d), last))
    /\ UNCHANGED <<last, chan, pulse, told, heard, crossed>>

(* A panel calls the door, or has it call back: a DialEnd ANSWER only.        *)
PanelCalls(d) ==
    /\ call[d] = "none" /\ d \in SipOf
    /\ call' = [call EXCEPT ![d] = "dialed"]
    /\ Shows(Answered(Overlay, last))
    /\ Crosses(d)
    /\ UNCHANGED <<last, chan, pulse, told, heard>>

(* Mutant: the end of a call is only noted, not told to the panels.           *)
ClearedSilently(d) == Shows(Overlay) /\ last' = IF last = d THEN None ELSE last

(* The call is over: the UserEvent `cleared`.  The Hangup finds no door for   *)
(* its channel, so clearDoorChannel is not called.                            *)
Cleared(d) == Shows(Hidden(Overlay, d)) /\ last' = IF last = d THEN None ELSE last

CallEnds(d) ==
    /\ call[d] # "none"
    /\ call' = [call EXCEPT ![d] = "none"]
    /\ Cleared(d)
    /\ chan' = [chan EXCEPT ![d] = IF @ = "live" THEN "dead" ELSE @]
    /\ crossed' = (crossed /\ (Others(d) # {} \/ last' # None))
    /\ UNCHANGED <<pulse, told, heard>>

(* The ring webhook, past its cool-down: an overlay without a call, which the *)
(* panels take away by themselves after the group's timeout.                  *)
Webhook(d) ==
    /\ Shows(Rung(Overlay, d, TRUE))
    /\ UNCHANGED <<call, last, chan, pulse, told, heard, crossed>>

OverlayTimesOut(d) ==
    /\ shown[d] /\ call[d] # "ring"
    /\ Shows(Hidden(Overlay, d))
    /\ UNCHANGED <<call, last, chan, pulse, told, heard, crossed>>

(* testRingGroup: the overlay at once; the SIP ring, when there are panels    *)
(* and AMI is up, comes in as a DoorRings.                                    *)
TestRing(d) ==
    /\ last' = d
    /\ Shows([Rung(Overlay, d, TRUE) EXCEPT !.answered = None])
    /\ crossed' = TRUE
    /\ UNCHANGED <<call, chan, pulse, told, heard>>

-----------------------------------------------------------------------------
(* releaseDoor: the ways a door opens.  KNX is a pulse; HTTP is one request   *)
(* that takes any answer below 400 for a yes, a DoorBird answers 204 when it  *)
(* refuses; DTMF needs the noted channel to be that of a call.  Status 0 is a *)
(* request that failed or timed out.                                          *)
Statuses == {0, 200, 204, 302, 401}
HttpOpens(status) == status \in 1..399
DoorbirdOpens(status) == status \in 200..299 /\ status # 204
DtmfOpens(d) == chan[d] = "live"
Opens(d, status) ==
    /\ SupportsRelease(Setup[d])
    /\ CASE ReleaseMode(Setup[d]) = "dtmf"     -> DtmfOpens(d)
         [] ReleaseMode(Setup[d]) = "http"     -> HttpOpens(status)
         [] ReleaseMode(Setup[d]) = "doorbird" -> DoorbirdOpens(status)
         [] OTHER                              -> TRUE
Pulsed(d) == {e \in {d} : SupportsRelease(Setup[d]) /\ ReleaseMode(Setup[d]) = "knx"}

(* POST /intercoms/:id/release by a user who may open the door.               *)
AppReleases(d, status) ==
    /\ told' = IF Opens(d, status) THEN "ok" ELSE "error"
    /\ pulse' = pulse \cup Pulsed(d)
    /\ UNCHANGED <<call, shown, hook, last, answered, chan, heard, crossed>>

PulseEnds(d) ==
    /\ d \in pulse /\ pulse' = pulse \ {d}
    /\ UNCHANGED <<call, shown, hook, last, answered, chan, told, heard, crossed>>

(* DTMFEnd: somebody in a call with d pressed the opening digit.  The last    *)
(* ring says which door is meant; a door opened by DTMF is left to the door.  *)
Meant(d) == last
DigitOpens(d, status) ==
    {e \in {Meant(d)} \ {None} : ReleaseMode(Setup[e]) # "dtmf" /\ Opens(e, status)}

Digit(d, status) ==
    /\ call[d] \in {"talk", "dialed"}
    /\ heard' = [from |-> d,
                 opened |-> IF DigitOpens(d, status) = {} THEN None
                            ELSE CHOOSE e \in DigitOpens(d, status) : TRUE]
    /\ pulse' = pulse \cup UNION {Pulsed(e) : e \in DigitOpens(d, status)}
    /\ UNCHANGED <<call, shown, hook, last, answered, chan, told, crossed>>

Next == \E d \in Doors :
    \/ DoorRings(d) \/ PanelAnswers(d) \/ PanelCalls(d) \/ CallEnds(d)
    \/ Webhook(d) \/ OverlayTimesOut(d) \/ TestRing(d)
    \/ PulseEnds(d)
    \/ \E status \in Statuses : AppReleases(d, status) \/ Digit(d, status)

-----------------------------------------------------------------------------
(* As long as the doors ring one at a time: the panels show a ring that       *)
(* nobody answered yet, and stop showing it when it was answered or is over   *)
(* (unless a webhook shows it).                                               *)
PanelsKeepUp == ~crossed => \A d \in Doors :
    /\ call[d] = "ring" => shown[d]
    /\ call[d] # "ring" /\ ~hook[d] => ~shown[d]

(* And a door that rang and was answered is the one a digit is meant for.     *)
DigitsGoHome == ~crossed => \A d \in Doors :
    call[d] = "talk" => Meant(d) = d

LoneRing == PanelsKeepUp /\ DigitsGoHome

(* "tags a monitor callback with the intercom so the gate DTMF finds the      *)
(* door" (asteriskConfig.test.ts): in any conversation the digit opens the    *)
(* door it is held with.  It fails: in a conversation the panel asked for no  *)
(* ring was remembered, and the tag never reaches the backend.                *)
GateDtmfFindsDoor ==
    heard.from # None /\ ReleaseMode(Setup[heard.from]) = "knx"
        => heard.opened = heard.from
=============================================================================
