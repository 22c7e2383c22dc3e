---------------------------- MODULE IntercomLine ----------------------------
(***************************************************************************)
(* One intercom line of the backend: the line book (voip/lineState.ts),    *)
(* the handler of the events that Asterisk reports over AMI                *)
(* (voip/manager.ts), the routes by which a panel claims and releases the  *)
(* line (routes.ts), and the calls themselves as the generated dialplan    *)
(* runs them (voip/asteriskConfig.ts).                                     *)
(*                                                                         *)
(* A call has one channel at the door station.  It is a "ring" (the door   *)
(* button, panels are dialled), a "bell" (the button of a station without  *)
(* panels to dial: nobody can answer), a "dial" (a panel that claimed the  *)
(* line calls the door) or a "callback" (a DoorBird asked by the backend   *)
(* calls the panel back).                                                  *)
(* Asterisk reports each step of a call in order; the backend handles the  *)
(* reports later, between the requests of the panels.                      *)
(***************************************************************************)
EXTENDS Naturals, Sequences

CONSTANTS
    Panels,       \* users that may claim the line (the holder is the user)
    Chans,        \* door channels; BOUND on calls at the same time
    DoorBirds,    \* subset of BOOLEAN: may the station be a DoorBird?
    Buttons,      \* BOOLEAN: is the door button used?
    LateCalls,    \* BOOLEAN: may a station call after its makecall timed out?
    Cancels,      \* BOOLEAN: may a panel release its claim once it called?
    AmiMayDrop,   \* BOOLEAN: may the AMI connection fail?
    MaxQueue,     \* BOUND on reports under way
    None

ASSUME LineAssumption ==
    /\ DoorBirds \subseteq BOOLEAN /\ DoorBirds # {}
    /\ Buttons \in BOOLEAN /\ LateCalls \in BOOLEAN /\ Cancels \in BOOLEAN
    /\ AmiMayDrop \in BOOLEAN
    /\ MaxQueue \in Nat
    /\ None \notin Panels
    /\ None \notin [phase : {"ringing", "dialing", "busy"}, holder : Panels \cup {None},
                    old : BOOLEAN]

VARIABLES
    doorbird,     \* is the station called back (isDoorbirdIntercom)?
    row,          \* the book's row: phase, holder, older than CLAIM_MS?; or None
    doorChannels, \* the door channels noted from DialBegin
    published,    \* the phase last broadcast to the clients
    call,         \* the calls in Asterisk: kind, stage and panel of a channel
    pending,      \* what a panel does with the claim it was granted
    events,       \* reports sent by Asterisk and not yet handled
    amiUp,        \* is the AMI connection up?
    lost,         \* history: was a report lost?
    clean         \* history: one call at a time used the line, see below

vars == <<doorbird, row, doorChannels, published, call, pending, events, amiUp, lost, clean>>

Phases == {"ringing", "dialing", "busy"}
Row == [phase : Phases, holder : Panels \cup {None}, old : BOOLEAN]
NoCall == [kind |-> None, stage |-> "none", panel |-> None]
Call == {NoCall} \cup [kind : {"ring", "bell", "dial", "callback"},
                       stage : {"calling", "talking"}, panel : Panels \cup {None}]
Report == [kind : {"ring", "answered", "cleared", "dialBegin", "dialAnswer", "hangup"},
           chan : Chans]

TypeOK ==
    /\ doorbird \in DoorBirds
    /\ row \in Row \cup {None}
    /\ doorChannels \subseteq Chans
    /\ published \in Phases \cup {"idle"}
    /\ call \in [Chans -> Call]
    /\ pending \in [Panels -> {"none", "dial", "makecall", "callback"}]
    /\ events \in Seq(Report) /\ Len(events) <= MaxQueue
    /\ amiUp \in BOOLEAN /\ lost \in BOOLEAN
    /\ clean \in BOOLEAN

-----------------------------------------------------------------------------
(* IntercomLineBook: every operator gives the row that the method leaves. *)

Expired(r) == r # None /\ r.phase = "dialing" /\ r.old

(* Mutant: an expired row is marked idle, but stays. *)
LookedMarking(r) == IF Expired(r) THEN [r EXCEPT !.phase = "idle"] ELSE r

(* phase(): a reservation older than CLAIM_MS is deleted when it is looked at. *)
Looked(r) == IF Expired(r) THEN None ELSE r
PhaseOf(r) == IF Looked(r) = None THEN "idle" ELSE r.phase

NewRow(phase, holder) == [phase |-> phase, holder |-> holder, old |-> FALSE]

(* onRing: a reservation or a conversation stays. *)
AfterRing(r) ==
    IF PhaseOf(r) \in {"busy", "dialing"} THEN r ELSE NewRow("ringing", None)

(* Mutants: the holder is not carried over; a first answer is not recorded. *)
AfterBusyNoHolder(r) == NewRow("busy", None)
AfterBusyIgnored(r) == r

(* onBusy: the holder stays whoever had reserved the line. *)
AfterBusy(r) == NewRow("busy", IF r = None THEN None ELSE r.holder)

(* Mutant: any panel may take over a reservation. *)
MayClaimOver(p) == PhaseOf(row) \in {"idle", "dialing"}

(* claim: from idle, or again by the holder of the reservation. *)
MayClaim(p) ==
    \/ PhaseOf(row) = "idle"
    \/ PhaseOf(row) = "dialing" /\ row.holder = p

HasHolder(r) == PhaseOf(r) # "idle" /\ r.holder # None

(* release: only one's own reservation, never a conversation. *)
MayRelease(p) == row # None /\ PhaseOf(row) = "dialing" /\ row.holder = p

-----------------------------------------------------------------------------
(* History: `clean` says that the line was used by one call at a time.  It ends
   when the book cannot know better: the door rings in a line that is in use, a
   claim is granted while a report is under way or to a panel that is already
   engaged, a reservation is forgotten under a caller, a station calls a panel that
   does not hold the line any more (it released the claim, or its makecall failed:
   a DoorBird that was asked is not recalled), reports are lost. *)

NoCalls == \A k \in Chans : call[k] = NoCall
Quiet == NoCalls /\ events = <<>>
Alone == Quiet /\ \A p \in Panels : pending[p] = "none"

(* p has neither a call nor a claim to act upon. *)
Unengaged(p) == pending[p] = "none" /\ \A k \in Chans : call[k].panel # p

(* A reservation is being looked at and deleted although the panel that made it
   is still calling, or about to, or while a released one is still to be called. *)
ForgetsCaller == Expired(row) /\ ~Alone

(* A release by p deletes the row of a panel that is still calling. *)
ReleasesCaller(p) ==
    row' # row /\ ~(Quiet /\ (row.holder = p \/ pending[row.holder] = "none"))

-----------------------------------------------------------------------------
Init ==
    /\ doorbird \in DoorBirds
    /\ row = None
    /\ doorChannels = {}
    /\ published = "idle"
    /\ call = [k \in Chans |-> NoCall]
    /\ pending = [p \in Panels |-> "none"]
    /\ events = <<>>
    /\ amiUp = TRUE /\ lost = FALSE
    /\ clean = TRUE

(* Reports of a step of a call; none arrives while AMI is down. *)
Send(reports) ==
    IF amiUp
    THEN /\ Len(events) + Len(reports) <= MaxQueue
         /\ events' = events \o reports
    ELSE UNCHANGED events

Rep(kind, k) == [kind |-> kind, chan |-> k]

Begin(k, kind, p) ==
    /\ call[k] = NoCall
    /\ \A i \in DOMAIN events : events[i].chan # k  \* channel names are unique
    /\ k \notin doorChannels
    /\ call' = [call EXCEPT ![k] = [kind |-> kind, stage |-> "calling", panel |-> p]]

(* doorDialBlock: the button is pressed; with SIP targets there is a Dial(). *)
PressButton(k, targets) ==
    /\ Buttons
    /\ Begin(k, IF targets THEN "ring" ELSE "bell", None)
    /\ Send(IF targets THEN <<Rep("ring", k), Rep("dialBegin", k)>> ELSE <<Rep("ring", k)>>)
    /\ clean' = (clean /\ Alone /\ PhaseOf(row) = "idle")
    /\ UNCHANGED <<doorbird, row, doorChannels, published, pending, amiUp, lost>>

(* A panel answers the ring: archie-on-answer. *)
AnswerRing(k, p) ==
    /\ call[k].kind = "ring" /\ call[k].stage = "calling"
    /\ call' = [call EXCEPT ![k].stage = "talking", ![k].panel = p]
    /\ Send(<<Rep("answered", k)>>)
    /\ UNCHANGED <<doorbird, row, doorChannels, published, pending, amiUp, lost, clean>>

(* Nobody answers before timeoutSec: Dial() or Wait() returns, "cleared" is sent,
   and the h extension sends it again. *)
RingTimesOut(k) ==
    /\ call[k].kind \in {"ring", "bell"} /\ call[k].stage = "calling"
    /\ call' = [call EXCEPT ![k] = NoCall]
    /\ Send(<<Rep("cleared", k), Rep("cleared", k), Rep("hangup", k)>>)
    /\ UNCHANGED <<doorbird, row, doorChannels, published, pending, amiUp, lost, clean>>

(* A panel that holds a claim dials the door (from-internal). *)
PanelDials(k, p) ==
    /\ pending[p] = "dial"
    /\ pending' = [pending EXCEPT ![p] = "none"]
    /\ Begin(k, "dial", p)
    /\ Send(<<Rep("dialBegin", k)>>)
    /\ clean' = (clean /\ Quiet)
    /\ UNCHANGED <<doorbird, row, doorChannels, published, amiUp, lost>>

Holds(p) == row # None /\ row.phase = "dialing" /\ row.holder = p

(* A DoorBird calls the panel back (monitorCallbackLines), whoever has the line by
   now. *)
DoorCallsBack(k, p) ==
    /\ pending[p] = "callback"
    /\ pending' = [pending EXCEPT ![p] = "none"]
    /\ Begin(k, "callback", p)
    /\ Send(<<Rep("dialBegin", k)>>)
    /\ clean' = (clean /\ Quiet /\ Holds(p))
    /\ UNCHANGED <<doorbird, row, doorChannels, published, amiUp, lost>>

(* The far end answers: the door for a "dial", the panel for a "callback"; in
   the latter the answered channel is the panel's. *)
FarEndAnswers(k) ==
    /\ call[k].kind \in {"dial", "callback"} /\ call[k].stage = "calling"
    /\ call' = [call EXCEPT ![k].stage = "talking"]
    /\ IF call[k].kind = "dial" THEN Send(<<Rep("dialAnswer", k)>>) ELSE UNCHANGED events
    /\ UNCHANGED <<doorbird, row, doorChannels, published, pending, amiUp, lost, clean>>

(* A call ends, answered or not: the h extension of the door's own context
   sends "cleared"; a panel's dial has no such extension. *)
HangUp(k) ==
    /\ call[k] # NoCall
    /\ call' = [call EXCEPT ![k] = NoCall]
    /\ Send(IF call[k].kind = "dial" THEN <<Rep("hangup", k)>>
            ELSE <<Rep("cleared", k), Rep("hangup", k)>>)
    /\ UNCHANGED <<doorbird, row, doorChannels, published, pending, amiUp, lost, clean>>

-----------------------------------------------------------------------------
(* onAmiEvent *)

(* Mutant: the line is freed without telling the clients. *)
IdleLineSilently ==
    /\ doorChannels' = {}
    /\ row' = None
    /\ UNCHANGED published

(* idleLine: forget the channels, and free the line if it was not idle. *)
IdleLine ==
    /\ doorChannels' = {}
    /\ row' = None
    /\ published' = IF PhaseOf(row) = "idle" THEN published ELSE "idle"

OnRing ==
    /\ row' = AfterRing(row)
    /\ published' = IF AfterRing(row).phase = "ringing" THEN "ringing" ELSE published
    /\ UNCHANGED doorChannels

OnAnswer ==
    /\ row' = AfterBusy(row)
    /\ published' = "busy"
    /\ UNCHANGED doorChannels

(* noteDoorChannel *)
OnDialBegin(k) ==
    /\ doorChannels' = doorChannels \cup {k}
    /\ UNCHANGED <<row, published>>

(* Mutant: a noted channel has to be the only call to count as the last. *)
LastNotedNever(k) == FALSE

(* forgetDoorChannel: was k the last noted channel? *)
LastNoted(k) == doorChannels # {} /\ doorChannels \ {k} = {}

(* Mutant: the channel is not taken out of the set. *)
ForgetNot(k) == doorChannels

Forget(k) == doorChannels \ {k}

(* Hangup: the end of the last door channel frees a line that a panel claimed. *)
OnHangup(k) ==
    IF LastNoted(k) /\ HasHolder(row)
    THEN IdleLine
    ELSE /\ doorChannels' = Forget(k)
         /\ row' = IF LastNoted(k) THEN Looked(row) ELSE row
         /\ UNCHANGED published

Handle(ev) ==
    \/ ev.kind = "ring" /\ OnRing
    \/ ev.kind \in {"answered", "dialAnswer"} /\ OnAnswer
    \/ ev.kind = "cleared" /\ IdleLine
    \/ ev.kind = "dialBegin" /\ OnDialBegin(ev.chan)
    \/ ev.kind = "hangup" /\ OnHangup(ev.chan)

HandleEvent ==
    /\ events # <<>>
    /\ events' = Tail(events)
    /\ Handle(Head(events))
    /\ UNCHANGED <<doorbird, call, pending, amiUp, lost, clean>>

(* The AMI connection fails: what was under way is lost, and so is what
   Asterisk reports until startVoipAmiWatch has connected again. *)
AmiDrops ==
    /\ AmiMayDrop /\ amiUp
    /\ amiUp' = FALSE
    /\ events' = <<>>
    /\ lost' = TRUE /\ clean' = FALSE
    /\ UNCHANGED <<doorbird, row, doorChannels, published, call, pending>>

AmiReconnects ==
    /\ ~amiUp
    /\ amiUp' = TRUE
    /\ UNCHANGED <<doorbird, row, doorChannels, published, call, pending, events, lost, clean>>

-----------------------------------------------------------------------------
(* Routes *)

(* POST /intercoms/:id/line, granted.  BOUND: of a panel that claims again while a
   DoorBird is still to call it, one request is followed. *)
Claim(p) ==
    /\ MayClaim(p)
    /\ row' = NewRow("dialing", p)
    /\ published' = "dialing"
    /\ pending' = [pending EXCEPT ![p] = IF doorbird THEN "makecall" ELSE "dial"]
    /\ clean' = (clean /\ events = <<>> /\ Unengaged(p) /\ ~ForgetsCaller)
    /\ UNCHANGED <<doorbird, doorChannels, call, events, amiUp, lost>>

(* ... granted and taken back at once: the panel of a DoorBird claim has no
   number, or is not registered.  BOUND: a panel has its number for as long as a
   claim or a call of it lasts. *)
ClaimWithoutNumber(p) ==
    /\ doorbird /\ MayClaim(p)
    /\ Unengaged(p)
    /\ row' = None
    /\ published' = "idle"
    /\ clean' = (clean /\ ~ForgetsCaller)
    /\ UNCHANGED <<doorbird, doorChannels, call, pending, events, amiUp, lost>>

(* releaseIntercomLine *)
ReleaseLine(p) ==
    /\ row' = IF MayRelease(p) THEN None ELSE Looked(row)
    /\ published' = IF MayRelease(p) THEN "idle" ELSE published

(* The makecall request ends: ok and the station will call the panel, or it
   failed and the claim is released.  A request that timed out after 15 s failed,
   and the station may call all the same. *)
MakeCallDone(p, ok, calls) ==
    /\ pending[p] = "makecall"
    /\ ok => calls
    /\ calls => ok \/ LateCalls
    /\ pending' = [pending EXCEPT ![p] = IF calls THEN "callback" ELSE "none"]
    /\ IF ok THEN UNCHANGED <<row, published, clean>>
       ELSE ReleaseLine(p) /\ clean' = (clean /\ ~ReleasesCaller(p))
    /\ UNCHANGED <<doorbird, doorChannels, call, events, amiUp, lost>>

(* POST /intercoms/:id/line/release: the panel gives up, or its user cancels
   during the call, which then ends too but not in the same step.  Only the row is
   freed: a DoorBird that is being asked, or was, calls the panel all the same. *)
Release(p) ==
    /\ Cancels \/ Quiet
    /\ pending' = [pending EXCEPT ![p] = IF @ = "dial" THEN "none" ELSE @]
    /\ ReleaseLine(p)
    /\ clean' = (clean /\ ~ReleasesCaller(p))
    /\ UNCHANGED <<doorbird, doorChannels, call, events, amiUp, lost>>

(* The panel goes away after its claim and never calls, or the DoorBird does not. *)
PanelVanishes(p) ==
    /\ pending[p] \in {"dial", "callback"}
    /\ pending' = [pending EXCEPT ![p] = "none"]
    /\ UNCHANGED <<doorbird, row, doorChannels, published, call, events, amiUp, lost, clean>>

(* GET /intercoms/:id/line, or a refused claim: the phase is looked at. *)
ReadPhase ==
    /\ row' = Looked(row)
    /\ clean' = (clean /\ ~ForgetsCaller)
    /\ UNCHANGED <<doorbird, doorChannels, published, call, pending, events, amiUp, lost>>

(* CLAIM_MS pass after a claim; a Dial() rings for 45 s. *)
ClaimAges ==
    /\ row # None /\ row.phase = "dialing" /\ ~row.old
    /\ row' = [row EXCEPT !.old = TRUE]
    /\ UNCHANGED <<doorbird, doorChannels, published, call, pending, events, amiUp, lost, clean>>

Next ==
    \/ \E k \in Chans :
          \/ \E targets \in BOOLEAN : PressButton(k, targets)
          \/ \E p \in Panels : AnswerRing(k, p) \/ PanelDials(k, p) \/ DoorCallsBack(k, p)
          \/ RingTimesOut(k) \/ FarEndAnswers(k) \/ HangUp(k)
    \/ HandleEvent
    \/ AmiDrops \/ AmiReconnects
    \/ \E p \in Panels :
          \/ Claim(p) \/ ClaimWithoutNumber(p) \/ Release(p) \/ PanelVanishes(p)
          \/ \E ok, calls \in BOOLEAN : MakeCallDone(p, ok, calls)
    \/ ReadPhase
    \/ ClaimAges

Spec == Init /\ [][Next]_vars

(* Reports are handled and calls end. *)
Fairness ==
    /\ WF_vars(HandleEvent)
    /\ \A k \in Chans : WF_vars(HangUp(k))

FairSpec == Spec /\ Fairness

-----------------------------------------------------------------------------
(* Properties *)

Talking(k) == call[k].stage = "talking"

(* "frees the line after hanging up, and an expired reservation too"
   (lineState.test.ts:23): when no call is left and every report was handled,
   the line does not stay busy or ringing. *)
FreedAfterHangup == Quiet => row = None \/ row.phase = "dialing"

(* FreedAfterHangup (idleLine, forgetDoorChannel) as long as one call at a time
   uses the line. *)
FreedAfterLoneCall == clean => FreedAfterHangup

(* "blocks a second panel as soon as someone calls or talks"
   (lineState.test.ts:13): no panel has the line reserved while another talks. *)
NoSecondParty ==
    row # None /\ row.phase = "dialing" /\ ~row.old =>
        \A k \in Chans : Talking(k) => call[k].panel = row.holder

(* NoSecondParty (claim) as long as one call at a time uses the line. *)
NoSecondPartyToLoneCall == clean => NoSecondParty

(* A conversation that has been reported is in the book as busy, so it refuses
   claims; except a DoorBird's callback, whose answer is never recorded. *)
BusyWhileTalking ==
    clean /\ events = <<>> =>
        \A k \in Chans : Talking(k) /\ call[k].kind # "callback" =>
            row # None /\ row.phase = "busy"

(* A line used by one call at a time (lineState.ts) is free after it, busy in it
   and never granted to a second party. *)
LoneCallSound == FreedAfterLoneCall /\ NoSecondPartyToLoneCall /\ BusyWhileTalking

(* As long as no report was lost, a noted door channel belongs to a call that
   exists or whose hangup is on its way: DTMF never goes to a dead channel, and
   the last hangup of the door is recognised as the last. *)
DoorChannelsLive ==
    ~lost => \A k \in doorChannels :
        \/ call[k] # NoCall
        \/ \E i \in DOMAIN events : events[i] = Rep("hangup", k)

(* The clients are never left with a ringing or busy line that is free: whatever
   deletes the row (idleLine, release) tells them; only a lapsed claim is silent. *)
ShownFree == row = None => published \in {"idle", "dialing"}

(* A line that rings or is in use becomes free again (idleLine), as long as one
   call at a time uses it. *)
LineComesFree ==
    []clean => ((row # None /\ row.phase # "dialing") ~> (row = None \/ row.phase = "dialing"))
=============================================================================
