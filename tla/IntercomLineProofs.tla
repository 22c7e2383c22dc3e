-------------------------- MODULE IntercomLineProofs --------------------------
(***************************************************************************)
(* What holds of a line in every behaviour, for any number of panels,      *)
(* channels and reports under way, AMI failures included: its type, that   *)
(* clients are not left with a line shown as taken that is free, that a    *)
(* noted door channel is alive or its hangup is on its way, and that a     *)
(* line used by one call at a time is free after it, busy in it and closed *)
(* to a second party.                                                      *)
(***************************************************************************)
EXTENDS IntercomLine, SequenceTheorems, TLAPS

MaybeRow == Row \cup {None}

(* The methods of the book leave a row or none. *)
LEMMA BookTypes ==
    ASSUME NEW r \in MaybeRow
    PROVE  /\ Looked(r) \in {r, None}
           /\ AfterRing(r) \in Row
           /\ AfterBusy(r) \in Row /\ AfterBusy(r).phase = "busy"
<1>1. r # None => r \in Row BY DEF MaybeRow
<1>2. Looked(r) \in {r, None} BY DEF Looked
<1>3. AfterRing(r) \in Row
  <2>1. CASE PhaseOf(r) \in {"busy", "dialing"}
    <3>1. r # None BY <2>1 DEF PhaseOf, Looked, Expired
    <3> QED BY <1>1, <2>1, <3>1 DEF AfterRing
  <2>2. CASE PhaseOf(r) \notin {"busy", "dialing"}
    BY <2>2 DEF AfterRing, NewRow, Row, Phases
  <2> QED BY <2>1, <2>2
<1>4. AfterBusy(r) \in Row /\ AfterBusy(r).phase = "busy"
      BY <1>1 DEF AfterBusy, NewRow, Row, Phases
<1> QED BY <1>2, <1>3, <1>4

(* Reports are appended in order, unless AMI is down. *)
LEMMA SendShape ==
    ASSUME TypeOK, NEW reports \in Seq(Report), Send(reports)
    PROVE  /\ events' \in Seq(Report) /\ Len(events') <= MaxQueue
           /\ amiUp => /\ Len(events') = Len(events) + Len(reports)
                       /\ \A i \in 1..Len(events) : events'[i] = events[i]
                       /\ \A i \in 1..Len(reports) : events'[Len(events) + i] = reports[i]
           /\ ~amiUp => events' = events
<1>1. events \in Seq(Report) /\ Len(events) <= MaxQueue BY DEF TypeOK
<1>2. Len(events) \in Nat /\ Len(reports) \in Nat BY <1>1, LenProperties
<1>3. CASE amiUp
  <2>1. events' = events \o reports /\ Len(events) + Len(reports) <= MaxQueue
        BY <1>3 DEF Send
  <2>2. /\ events' \in Seq(Report) /\ Len(events') = Len(events) + Len(reports)
        /\ \A i \in 1..Len(events) + Len(reports) :
              events'[i] = IF i <= Len(events) THEN events[i] ELSE reports[i - Len(events)]
        BY <1>1, <2>1, ConcatProperties
  <2>3. \A i \in 1..Len(events) : events'[i] = events[i] BY <1>2, <2>2
  <2>4. ASSUME NEW i \in 1..Len(reports) PROVE events'[Len(events) + i] = reports[i]
    <3>1. /\ Len(events) + i \in 1..Len(events) + Len(reports)
          /\ ~(Len(events) + i <= Len(events))
          /\ (Len(events) + i) - Len(events) = i
          BY <1>2
    <3> QED BY <2>2, <3>1
  <2> QED BY <1>3, <2>1, <2>2, <2>3, <2>4
<1>4. CASE ~amiUp
  BY <1>1, <1>4 DEF Send
<1> QED BY <1>3, <1>4

(* What calls report is a sequence of reports. *)
LEMMA ReportTypes ==
    ASSUME NEW k \in Chans
    PROVE  /\ <<Rep("ring", k), Rep("dialBegin", k)>> \in Seq(Report)
           /\ <<Rep("ring", k)>> \in Seq(Report)
           /\ <<Rep("answered", k)>> \in Seq(Report)
           /\ <<Rep("cleared", k), Rep("cleared", k), Rep("hangup", k)>> \in Seq(Report)
           /\ <<Rep("cleared", k), Rep("hangup", k)>> \in Seq(Report)
           /\ <<Rep("hangup", k)>> \in Seq(Report)
           /\ <<Rep("dialBegin", k)>> \in Seq(Report)
           /\ <<Rep("dialAnswer", k)>> \in Seq(Report)
<1>1. \A kind \in {"ring", "answered", "cleared", "dialBegin", "dialAnswer", "hangup"} :
         Rep(kind, k) \in Report
      BY DEF Rep, Report
<1> QED BY <1>1

(* A call that begins takes a free channel; one that goes on keeps its kind. *)
LEMMA CallTypes ==
    ASSUME TypeOK, NEW k \in Chans, NEW p \in Panels \cup {None},
           NEW kind \in {"ring", "bell", "dial", "callback"}
    PROVE  /\ [call EXCEPT ![k] = [kind |-> kind, stage |-> "calling", panel |-> p]]
                  \in [Chans -> Call]
           /\ [call EXCEPT ![k] = NoCall] \in [Chans -> Call]
           /\ call[k] # NoCall =>
                /\ [call EXCEPT ![k].stage = "talking"] \in [Chans -> Call]
                /\ [call EXCEPT ![k].stage = "talking", ![k].panel = p] \in [Chans -> Call]
<1>1. call \in [Chans -> Call] /\ call[k] \in Call BY DEF TypeOK
<1>2. [kind |-> kind, stage |-> "calling", panel |-> p] \in Call /\ NoCall \in Call
      BY DEF Call
<1>3. ASSUME call[k] # NoCall
      PROVE  /\ [call EXCEPT ![k].stage = "talking"] \in [Chans -> Call]
             /\ [call EXCEPT ![k].stage = "talking", ![k].panel = p] \in [Chans -> Call]
  <2>1. call[k] \in [kind : {"ring", "bell", "dial", "callback"},
                     stage : {"calling", "talking"}, panel : Panels \cup {None}]
        BY <1>1, <1>3 DEF Call
  <2>2. [call[k] EXCEPT !.stage = "talking"] \in Call BY <2>1 DEF Call
  <2>3. [[call[k] EXCEPT !.stage = "talking"] EXCEPT !.panel = p] \in Call
        BY <2>1 DEF Call
  <2> QED BY <1>1, <2>2, <2>3
<1> QED BY <1>1, <1>2, <1>3

(* The steps of the calls. *)
CallStep ==
    \E k \in Chans :
       \/ \E targets \in BOOLEAN : PressButton(k, targets)
       \/ \E p \in Panels : AnswerRing(k, p) \/ PanelDials(k, p) \/ DoorCallsBack(k, p)
       \/ RingTimesOut(k) \/ FarEndAnswers(k) \/ HangUp(k)

(* All that a step of a call does to channels and reports: calls only come to be,
   or go on, or end with the report of their hangup; a DialBegin is reported of a
   call that exists. *)
CallShape(reports) ==
    /\ reports \in Seq(Report)
    /\ Send(reports) \/ (reports = <<>> /\ UNCHANGED events)
    /\ call' \in [Chans -> Call]
    /\ \A k \in Chans : call[k] # NoCall =>
          call'[k] # NoCall \/ \E i \in 1..Len(reports) : reports[i] = Rep("hangup", k)
    /\ \A k \in Chans, i \in 1..Len(reports) :
          reports[i] = Rep("dialBegin", k) => call'[k] # NoCall

(* It leaves the backend alone. *)
CallEffect ==
    /\ \E reports \in Seq(Report) : CallShape(reports)
    /\ pending' \in [Panels -> {"none", "dial", "makecall", "callback"}]
    /\ clean' \in BOOLEAN
    /\ UNCHANGED <<doorbird, row, doorChannels, published, amiUp, lost>>

(* A step of the call of channel k concerns that channel only. *)
LEMMA OneChannel ==
    ASSUME TypeOK, NEW k \in Chans, NEW reports \in Seq(Report),
           Send(reports) \/ (reports = <<>> /\ UNCHANGED events),
           NEW now, call' = [call EXCEPT ![k] = now], call' \in [Chans -> Call],
           now # NoCall \/ \E i \in 1..Len(reports) : reports[i] = Rep("hangup", k),
           \A i \in 1..Len(reports) :
               reports[i].kind = "dialBegin" => reports[i].chan = k /\ now # NoCall
    PROVE  CallShape(reports)
<1>1. call'[k] = now /\ \A c \in Chans : c # k => call'[c] = call[c] BY DEF TypeOK
<1>2. \A c \in Chans, i \in 1..Len(reports) :
          reports[i] = Rep("dialBegin", c) => c = k /\ now # NoCall
      BY DEF Rep
<1> QED BY <1>1, <1>2 DEF CallShape

(* Every step of a call (the dialplan that asteriskConfig.ts generates) is of that
   shape. *)
LEMMA CallStepEffect ==
    ASSUME TypeOK, CallStep
    PROVE  CallEffect
<1>1. ASSUME NEW k \in Chans, NEW targets \in BOOLEAN, PressButton(k, targets)
      PROVE  CallEffect
  <2> DEFINE reports == IF targets THEN <<Rep("ring", k), Rep("dialBegin", k)>>
                        ELSE <<Rep("ring", k)>>
             now == [kind |-> IF targets THEN "ring" ELSE "bell", stage |-> "calling",
                     panel |-> None]
  <2>1. reports \in Seq(Report) BY ReportTypes
  <2>2. call' = [call EXCEPT ![k] = now] /\ Send(reports) BY <1>1 DEF PressButton, Begin
  <2>3. call' \in [Chans -> Call] BY <2>2, CallTypes
  <2>4. now # NoCall BY DEF NoCall
  <2>5. \A i \in 1..Len(reports) : reports[i].chan = k BY DEF Rep
  <2>6. CallShape(reports)
    <3> HIDE DEF reports, now
    <3> QED BY <2>1, <2>2, <2>3, <2>4, <2>5, OneChannel
  <2> QED BY <1>1, <2>1, <2>6 DEF PressButton, TypeOK, CallEffect
<1>2. ASSUME NEW k \in Chans, NEW p \in Panels, AnswerRing(k, p)
      PROVE  CallEffect
  <2> DEFINE reports == <<Rep("answered", k)>>
             now == [[call[k] EXCEPT !.stage = "talking"] EXCEPT !.panel = p]
  <2>1. reports \in Seq(Report) BY ReportTypes
  <2>2. call' = [call EXCEPT ![k].stage = "talking", ![k].panel = p] /\ Send(reports)
        BY <1>2 DEF AnswerRing
  <2>3. call[k] # NoCall BY <1>2 DEF NoCall, AnswerRing
  <2>4. call' \in [Chans -> Call] BY <2>2, <2>3, CallTypes
  <2>5. call' = [call EXCEPT ![k] = now] BY <2>2 DEF TypeOK
  <2>6. now # NoCall
    <3>1. call[k] \in [kind : {"ring", "bell", "dial", "callback"},
                       stage : {"calling", "talking"}, panel : Panels \cup {None}]
          BY <2>3 DEF Call, TypeOK
    <3>2. now.stage = "talking" BY <3>1
    <3> QED BY <3>2 DEF NoCall
  <2>7. \A i \in 1..Len(reports) : reports[i].kind # "dialBegin" BY DEF Rep
  <2>8. CallShape(reports)
    <3> HIDE DEF reports, now
    <3> QED BY <2>1, <2>2, <2>4, <2>5, <2>6, <2>7, OneChannel
  <2> QED BY <1>2, <2>1, <2>8 DEF AnswerRing, TypeOK, CallEffect
<1>3. ASSUME NEW k \in Chans, NEW p \in Panels, NEW kind \in {"dial", "callback"},
             Begin(k, kind, p), Send(<<Rep("dialBegin", k)>>)
      PROVE  \E reports \in Seq(Report) : CallShape(reports)
  <2> DEFINE reports == <<Rep("dialBegin", k)>>
             now == [kind |-> kind, stage |-> "calling", panel |-> p]
  <2>1. reports \in Seq(Report) BY ReportTypes
  <2>2. call' = [call EXCEPT ![k] = now] /\ Send(reports) BY <1>3 DEF Begin
  <2>3. call' \in [Chans -> Call] BY <2>2, CallTypes
  <2>4. now # NoCall BY DEF NoCall
  <2>5. \A i \in 1..Len(reports) : reports[i].chan = k BY DEF Rep
  <2>6. CallShape(reports)
    <3> HIDE DEF reports, now
    <3> QED BY <2>1, <2>2, <2>3, <2>4, <2>5, OneChannel
  <2> QED BY <2>1, <2>6
<1>4. ASSUME NEW k \in Chans, NEW p \in Panels, PanelDials(k, p) \/ DoorCallsBack(k, p)
      PROVE  CallEffect
  <2>1. /\ Send(<<Rep("dialBegin", k)>>) /\ pending' = [pending EXCEPT ![p] = "none"]
        /\ \E kind \in {"dial", "callback"} : Begin(k, kind, p)
        /\ clean' \in {clean /\ Quiet, clean /\ Quiet /\ Holds(p)}
        /\ UNCHANGED <<doorbird, row, doorChannels, published, amiUp, lost>>
        BY <1>4 DEF PanelDials, DoorCallsBack
  <2>2. pending' \in [Panels -> {"none", "dial", "makecall", "callback"}]
        BY <2>1 DEF TypeOK
  <2>3. clean' \in BOOLEAN BY <2>1
  <2> QED BY <1>3, <2>1, <2>2, <2>3 DEF CallEffect
<1>5. ASSUME NEW k \in Chans, RingTimesOut(k)
      PROVE  CallEffect
  <2> DEFINE reports == <<Rep("cleared", k), Rep("cleared", k), Rep("hangup", k)>>
  <2>1. reports \in Seq(Report) BY ReportTypes
  <2>2. call' = [call EXCEPT ![k] = NoCall] /\ Send(reports) BY <1>5 DEF RingTimesOut
  <2>3. call' \in [Chans -> Call] BY <2>2, CallTypes
  <2>4. /\ 3 \in 1..Len(reports) /\ reports[3] = Rep("hangup", k)
        /\ \A i \in 1..Len(reports) : reports[i].kind # "dialBegin"
        BY DEF Rep
  <2>5. CallShape(reports)
    <3> HIDE DEF reports
    <3> QED BY <2>1, <2>2, <2>3, <2>4, OneChannel
  <2> QED BY <1>5, <2>1, <2>5 DEF RingTimesOut, TypeOK, CallEffect
<1>6. ASSUME NEW k \in Chans, FarEndAnswers(k)
      PROVE  CallEffect
  <2> DEFINE reports == IF call[k].kind = "dial" THEN <<Rep("dialAnswer", k)>> ELSE <<>>
             now == [call[k] EXCEPT !.stage = "talking"]
  <2>1. reports \in Seq(Report) BY ReportTypes
  <2>2. /\ call' = [call EXCEPT ![k] = now]
        /\ Send(reports) \/ (reports = <<>> /\ UNCHANGED events)
        BY <1>6 DEF FarEndAnswers
  <2>3. call[k] # NoCall BY <1>6 DEF NoCall, FarEndAnswers
  <2>4. call' \in [Chans -> Call] BY <1>6, <2>3, CallTypes DEF FarEndAnswers
  <2>5. now # NoCall
    <3>1. call[k] \in [kind : {"ring", "bell", "dial", "callback"},
                       stage : {"calling", "talking"}, panel : Panels \cup {None}]
          BY <2>3 DEF Call, TypeOK
    <3>2. now.stage = "talking" BY <3>1
    <3> QED BY <3>2 DEF NoCall
  <2>6. \A i \in 1..Len(reports) : reports[i].kind # "dialBegin" BY DEF Rep
  <2>7. CallShape(reports)
    <3> HIDE DEF reports, now
    <3> QED BY <2>1, <2>2, <2>4, <2>5, <2>6, OneChannel
  <2> QED BY <1>6, <2>1, <2>7 DEF FarEndAnswers, TypeOK, CallEffect
<1>7. ASSUME NEW k \in Chans, HangUp(k)
      PROVE  CallEffect
  <2> DEFINE reports == IF call[k].kind = "dial" THEN <<Rep("hangup", k)>>
                        ELSE <<Rep("cleared", k), Rep("hangup", k)>>
  <2>1. reports \in Seq(Report) BY ReportTypes
  <2>2. call' = [call EXCEPT ![k] = NoCall] /\ Send(reports) BY <1>7 DEF HangUp
  <2>3. call' \in [Chans -> Call] BY <2>2, CallTypes
  <2>4. /\ \E i \in 1..Len(reports) : reports[i] = Rep("hangup", k)
        /\ \A i \in 1..Len(reports) : reports[i].kind # "dialBegin"
    <3>1. CASE call[k].kind = "dial"
      <4>1. 1 \in 1..Len(reports) /\ reports[1] = Rep("hangup", k) BY <3>1
      <4> QED BY <3>1, <4>1 DEF Rep
    <3>2. CASE call[k].kind # "dial"
      <4>1. 2 \in 1..Len(reports) /\ reports[2] = Rep("hangup", k) BY <3>2
      <4> QED BY <3>2, <4>1 DEF Rep
    <3> QED BY <3>1, <3>2
  <2>5. CallShape(reports)
    <3> HIDE DEF reports
    <3> QED BY <2>1, <2>2, <2>3, <2>4, OneChannel
  <2> QED BY <1>7, <2>1, <2>5 DEF HangUp, TypeOK, CallEffect
<1> QED BY <1>1, <1>2, <1>4, <1>5, <1>6, <1>7 DEF CallStep

-------------------------------------------------------------------------------
(* The requests of the panels. *)
RouteStep ==
    \/ \E p \in Panels :
          \/ Claim(p) \/ ClaimWithoutNumber(p) \/ Release(p) \/ PanelVanishes(p)
          \/ \E ok, calls \in BOOLEAN : MakeCallDone(p, ok, calls)
    \/ ReadPhase
    \/ ClaimAges

(* What requests do to the book and tell the clients: a claim, a release, a look
   that deletes a lapsed reservation, nothing, or time that passes. *)
BookEffect ==
    \/ \E p \in Panels : row' = NewRow("dialing", p) /\ published' = "dialing"
    \/ row' = None /\ published' = "idle"
    \/ row' = Looked(row) /\ published' = published
    \/ row' = row /\ published' = published
    \/ /\ row # None /\ row.phase = "dialing"
       /\ row' = [row EXCEPT !.old = TRUE] /\ published' = published

LEMMA RouteStepEffect ==
    ASSUME TypeOK, RouteStep
    PROVE  /\ BookEffect
           /\ pending' \in [Panels -> {"none", "dial", "makecall", "callback"}]
           /\ clean' \in BOOLEAN
           /\ UNCHANGED <<doorbird, doorChannels, call, events, amiUp, lost>>
<1> DEFINE Effect ==
        /\ BookEffect
        /\ pending' \in [Panels -> {"none", "dial", "makecall", "callback"}]
        /\ clean' \in BOOLEAN
        /\ UNCHANGED <<doorbird, doorChannels, call, events, amiUp, lost>>
<1>1. ASSUME NEW p \in Panels, Claim(p) PROVE Effect
      BY <1>1 DEF Claim, BookEffect, TypeOK
<1>2. ASSUME NEW p \in Panels, ClaimWithoutNumber(p) PROVE Effect
      BY <1>2 DEF ClaimWithoutNumber, BookEffect, TypeOK
<1>3. ASSUME NEW p \in Panels, ReleaseLine(p) PROVE BookEffect
      BY <1>3 DEF ReleaseLine, BookEffect
<1>4. ASSUME NEW p \in Panels, Release(p) PROVE Effect
      BY <1>3, <1>4 DEF Release, TypeOK
<1>5. ASSUME NEW p \in Panels, PanelVanishes(p) PROVE Effect
      BY <1>5 DEF PanelVanishes, BookEffect, TypeOK
<1>6. ASSUME NEW p \in Panels, NEW ok \in BOOLEAN, NEW calls \in BOOLEAN,
             MakeCallDone(p, ok, calls)
      PROVE  Effect
  <2>1. pending' \in [Panels -> {"none", "dial", "makecall", "callback"}]
        BY <1>6 DEF MakeCallDone, TypeOK
  <2>2. CASE ok
    BY <1>6, <2>1, <2>2 DEF MakeCallDone, BookEffect, TypeOK
  <2>3. CASE ~ok
    BY <1>3, <1>6, <2>1, <2>3 DEF MakeCallDone
  <2> QED BY <2>2, <2>3
<1>7. CASE ReadPhase
      BY <1>7 DEF ReadPhase, BookEffect, TypeOK
<1>8. CASE ClaimAges
      BY <1>8 DEF ClaimAges, BookEffect, TypeOK
<1> QED BY <1>1, <1>2, <1>4, <1>5, <1>6, <1>7, <1>8 DEF RouteStep

(* What a report does to the book and tells the clients. *)
EventEffect(ev) ==
    \/ ev.kind = "ring" /\ OnRing
    \/ ev.kind \in {"answered", "dialAnswer"} /\ OnAnswer
    \/ ev.kind \in {"cleared", "hangup"} /\ IdleLine
    \/ ev.kind = "dialBegin" /\ OnDialBegin(ev.chan)
    \/ /\ ev.kind = "hangup" /\ doorChannels' = Forget(ev.chan)
       /\ row' \in {row, Looked(row)} /\ UNCHANGED published

LEMMA HandleEffect ==
    ASSUME TypeOK, HandleEvent
    PROVE  /\ EventEffect(Head(events))
           /\ Head(events) \in Report
           /\ events' = Tail(events) /\ events' \in Seq(Report)
           /\ Len(events') = Len(events) - 1
           /\ \A i \in 1..Len(events') : events'[i] = events[i + 1]
           /\ UNCHANGED <<doorbird, call, pending, amiUp, lost, clean>>
<1>1. events \in Seq(Report) /\ events # <<>> BY DEF TypeOK, HandleEvent
<1>2. events' = Tail(events) BY DEF HandleEvent
<1>3. Head(events).kind = "hangup" /\ OnHangup(Head(events).chan) => EventEffect(Head(events))
      BY DEF OnHangup, EventEffect
<1>4. EventEffect(Head(events)) BY <1>3 DEF HandleEvent, Handle, EventEffect
<1>5. /\ Head(events) \in Report /\ events' \in Seq(Report) /\ Len(events') = Len(events) - 1
      /\ \A i \in 1..Len(events') : events'[i] = events[i + 1]
      BY <1>1, <1>2, HeadTailProperties
<1> QED BY <1>2, <1>4, <1>5 DEF HandleEvent

(* The next-state relation in these groups. *)
LEMMA NextGroups ==
    ASSUME [Next]_vars
    PROVE  CallStep \/ HandleEvent \/ AmiDrops \/ AmiReconnects \/ RouteStep \/ UNCHANGED vars
BY DEF Next, CallStep, RouteStep

-------------------------------------------------------------------------------
(* The type invariant. *)
LEMMA LineTypeInit == Init => TypeOK
<1> SUFFICES ASSUME Init PROVE TypeOK
    OBVIOUS
<1>1. <<>> \in Seq(Report) /\ Len(<<>>) = 0 BY EmptySeq
<1>2. NoCall \in Call BY DEF Call
<1>3. 0 <= MaxQueue BY LineAssumption
<1>4. events = <<>> BY DEF Init
<1>5. events \in Seq(Report) /\ Len(events) <= MaxQueue BY <1>1, <1>3, <1>4
<1>6. /\ call \in [Chans -> Call]
      /\ pending \in [Panels -> {"none", "dial", "makecall", "callback"}]
      BY <1>2 DEF Init
<1> QED BY <1>5, <1>6 DEF Init, TypeOK

(* Whatever a request or a report leaves in the book is a row, or none. *)
LEMMA BookEffectTypes ==
    ASSUME TypeOK, BookEffect
    PROVE  row' \in MaybeRow /\ published' \in Phases \cup {"idle"}
<1>1. row \in MaybeRow /\ published \in Phases \cup {"idle"} BY DEF TypeOK, MaybeRow
<1>2. ASSUME NEW p \in Panels, row' = NewRow("dialing", p), published' = "dialing"
      PROVE  row' \in MaybeRow /\ published' \in Phases \cup {"idle"}
      BY <1>2 DEF NewRow, Row, Phases, MaybeRow
<1>3. CASE row # None /\ row' = [row EXCEPT !.old = TRUE] /\ published' = published
  <2>1. row \in Row BY <1>1, <1>3 DEF MaybeRow
  <2> QED BY <1>1, <1>3, <2>1 DEF Row, MaybeRow
<1>4. CASE row' = Looked(row) /\ published' = published
      BY <1>1, <1>4, BookTypes DEF MaybeRow
<1> QED BY <1>1, <1>2, <1>3, <1>4 DEF BookEffect, MaybeRow

LEMMA EventEffectTypes ==
    ASSUME TypeOK, NEW ev \in Report, EventEffect(ev)
    PROVE  /\ row' \in MaybeRow /\ published' \in Phases \cup {"idle"}
           /\ doorChannels' \subseteq Chans
<1>1. /\ row \in MaybeRow /\ published \in Phases \cup {"idle"} /\ doorChannels \subseteq Chans
      /\ ev.chan \in Chans
      BY DEF TypeOK, MaybeRow, Report
<1>2. CASE OnRing
      BY <1>1, <1>2, BookTypes DEF OnRing, MaybeRow, Phases
<1>3. CASE OnAnswer
      BY <1>1, <1>3, BookTypes DEF OnAnswer, MaybeRow, Phases
<1>4. CASE IdleLine
      BY <1>1, <1>4 DEF IdleLine, MaybeRow
<1>5. CASE OnDialBegin(ev.chan)
      BY <1>1, <1>5 DEF OnDialBegin
<1>6. CASE /\ doorChannels' = Forget(ev.chan)
           /\ row' \in {row, Looked(row)} /\ UNCHANGED published
  <2>1. row' \in MaybeRow BY <1>1, <1>6, BookTypes DEF MaybeRow
  <2> QED BY <1>1, <1>6, <2>1 DEF Forget
<1> QED BY <1>2, <1>3, <1>4, <1>5, <1>6 DEF EventEffect

(* Every step of a call, report, request and failure of AMI keeps the type. *)
LEMMA LineTypeStep == TypeOK /\ [Next]_vars => TypeOK'
<1> SUFFICES ASSUME TypeOK, [Next]_vars PROVE TypeOK'
    OBVIOUS
<1>1. CASE CallStep
  <2>1. CallEffect BY <1>1, CallStepEffect
  <2>2. PICK reports \in Seq(Report) : CallShape(reports) BY <2>1 DEF CallEffect
  <2>3. events' \in Seq(Report) /\ Len(events') <= MaxQueue
    <3>1. CASE Send(reports) BY <3>1, SendShape
    <3>2. CASE UNCHANGED events BY <3>2 DEF TypeOK
    <3> QED BY <2>2, <3>1, <3>2 DEF CallShape
  <2> QED BY <2>1, <2>2, <2>3 DEF CallEffect, CallShape, TypeOK
<1>2. CASE HandleEvent
  <2>1. /\ EventEffect(Head(events)) /\ Head(events) \in Report
        /\ events' \in Seq(Report) /\ Len(events') = Len(events) - 1
        /\ UNCHANGED <<doorbird, call, pending, amiUp, lost, clean>>
        BY <1>2, HandleEffect
  <2>2. Len(events') <= MaxQueue
    <3>1. Len(events) \in Nat /\ Len(events) <= MaxQueue BY LenProperties DEF TypeOK
    <3> QED BY <2>1, <3>1, LineAssumption
  <2>3. /\ row' \in MaybeRow /\ published' \in Phases \cup {"idle"}
        /\ doorChannels' \subseteq Chans
        BY <2>1, EventEffectTypes
  <2> QED BY <2>1, <2>2, <2>3 DEF TypeOK, MaybeRow
<1>3. CASE AmiDrops
  <2>1. <<>> \in Seq(Report) /\ Len(<<>>) = 0 BY EmptySeq
  <2>2. 0 <= MaxQueue BY LineAssumption
  <2>3. events' = <<>> BY <1>3 DEF AmiDrops
  <2>4. events' \in Seq(Report) /\ Len(events') <= MaxQueue BY <2>1, <2>2, <2>3
  <2> QED BY <1>3, <2>4 DEF AmiDrops, TypeOK
<1>4. CASE AmiReconnects
      BY <1>4 DEF AmiReconnects, TypeOK
<1>5. CASE RouteStep
  <2>1. /\ BookEffect
        /\ pending' \in [Panels -> {"none", "dial", "makecall", "callback"}]
        /\ clean' \in BOOLEAN
        /\ UNCHANGED <<doorbird, doorChannels, call, events, amiUp, lost>>
        BY <1>5, RouteStepEffect
  <2>2. row' \in MaybeRow /\ published' \in Phases \cup {"idle"} BY <2>1, BookEffectTypes
  <2> QED BY <2>1, <2>2 DEF TypeOK, MaybeRow
<1>6. CASE UNCHANGED vars
      BY <1>6 DEF vars, TypeOK
<1> QED BY <1>1, <1>2, <1>3, <1>4, <1>5, <1>6, NextGroups

(* The state of the line has its type, for any panels, channels and bound. *)
THEOREM LineTyped == Spec => []TypeOK
BY LineTypeInit, LineTypeStep, PTL DEF Spec

-------------------------------------------------------------------------------
(* ShownFree is not inductive: a line may come free because its reservation is
   found to have lapsed, which tells nobody, so that it matters what the clients
   were shown for the reservation. *)
ShownInv ==
    /\ ShownFree
    /\ row # None /\ row.phase = "dialing" => published = "dialing"

LEMMA ShownKeeps ==
    ASSUME TypeOK, ShownInv, row' \in {row, Looked(row)}, published' = published
    PROVE  ShownInv'
BY DEF ShownInv, ShownFree, Looked, Expired

LEMMA ShownStep == TypeOK /\ ShownInv /\ [Next]_vars => ShownInv'
<1> SUFFICES ASSUME TypeOK, ShownInv, [Next]_vars PROVE ShownInv'
    OBVIOUS
<1>1. None \notin Row BY LineAssumption DEF Row, Phases
<1>2. row \in MaybeRow BY DEF TypeOK, MaybeRow
<1>3. CASE HandleEvent
  <2>1. EventEffect(Head(events)) BY <1>3, HandleEffect
  <2>2. CASE OnRing
    <3>1. AfterRing(row) \in Row BY <1>2, BookTypes
    <3>2. CASE PhaseOf(row) \in {"busy", "dialing"}
      <4>1. row' = row BY <2>2, <3>2 DEF OnRing, AfterRing
      <4>2. row # None /\ row.phase # "ringing" BY <3>2 DEF PhaseOf, Looked, Expired
      <4>3. published' = published BY <2>2, <4>1, <4>2 DEF OnRing
      <4> QED BY <4>1, <4>3, ShownKeeps
    <3>3. CASE PhaseOf(row) \notin {"busy", "dialing"}
      <4>1. row' = NewRow("ringing", None) BY <2>2, <3>3 DEF OnRing, AfterRing
      <4>2. row'.phase = "ringing" BY <4>1 DEF NewRow
      <4> QED BY <1>1, <2>2, <3>1, <4>2 DEF OnRing, ShownInv, ShownFree
    <3> QED BY <3>2, <3>3
  <2>3. CASE OnAnswer
    <3>1. row' \in Row /\ row'.phase = "busy" BY <1>2, <2>3, BookTypes DEF OnAnswer
    <3> QED BY <1>1, <3>1 DEF ShownInv, ShownFree
  <2>4. CASE IdleLine
    <3>1. row' = None BY <2>4 DEF IdleLine
    <3>2. PhaseOf(row) = "idle" => published \in {"idle", "dialing"}
      <4>1. ASSUME row # None, PhaseOf(row) = "idle" PROVE row.phase \in {"idle", "dialing"}
            BY <4>1 DEF PhaseOf, Looked, Expired
      <4>2. row # None => row.phase # "idle" BY <1>2 DEF MaybeRow, Row, Phases
      <4> QED BY <4>1, <4>2 DEF ShownInv, ShownFree
    <3> QED BY <2>4, <3>1, <3>2 DEF IdleLine, ShownInv, ShownFree
  <2>5. CASE OnDialBegin(Head(events).chan)
        BY <2>5, ShownKeeps DEF OnDialBegin
  <2>6. CASE row' \in {row, Looked(row)} /\ UNCHANGED published
        BY <2>6, ShownKeeps
  <2> QED BY <2>1, <2>2, <2>3, <2>4, <2>5, <2>6 DEF EventEffect
<1>4. CASE RouteStep
  <2>1. BookEffect BY <1>4, RouteStepEffect
  <2>2. ASSUME NEW p \in Panels, row' = NewRow("dialing", p), published' = "dialing"
        PROVE  ShownInv'
        BY <2>2 DEF ShownInv, ShownFree
  <2>3. CASE row' = None /\ published' = "idle"
        BY <2>3 DEF ShownInv, ShownFree
  <2>4. CASE /\ row # None /\ row.phase = "dialing"
             /\ row' = [row EXCEPT !.old = TRUE] /\ published' = published
        BY <2>4 DEF ShownInv, ShownFree
  <2> QED BY <2>1, <2>2, <2>3, <2>4, ShownKeeps DEF BookEffect
<1>5. CASE CallStep
      BY <1>5, CallStepEffect, ShownKeeps DEF CallEffect
<1>6. CASE AmiDrops \/ AmiReconnects
      BY <1>6, ShownKeeps DEF AmiDrops, AmiReconnects
<1>7. CASE UNCHANGED vars
      BY <1>7, ShownKeeps DEF vars
<1> QED BY <1>3, <1>4, <1>5, <1>6, <1>7, NextGroups

(* A line that is free is never shown as ringing or busy, in any behaviour: calls
   that overlap, reports that are lost and claims that lapse included (idleLine,
   onAmiEvent, releaseIntercomLine). *)
THEOREM FreeIsShown == Spec => []ShownFree
<1>1. Init => ShownInv BY DEF Init, ShownInv, ShownFree
<1>2. ShownInv => ShownFree BY DEF ShownInv
<1> QED BY <1>1, <1>2, ShownStep, LineTyped, PTL DEF Spec

-------------------------------------------------------------------------------
(* DoorChannelsLive speaks of channels that are noted; that it still holds when one
   is noted needs that a call whose DialBegin is under way exists, or that its
   hangup comes later; and no report is lost without `lost` knowing. *)
EndReported(k, after) ==
    \E j \in 1..Len(events) : j > after /\ events[j] = Rep("hangup", k)

NotedLive ==
    /\ \A k \in doorChannels : call[k] # NoCall \/ EndReported(k, 0)
    /\ \A k \in Chans, i \in 1..Len(events) :
          events[i] = Rep("dialBegin", k) => call[k] # NoCall \/ EndReported(k, i)

NotedInv == (amiUp \/ lost) /\ (~lost => NotedLive)

(* A step of a call keeps it: reports are appended, and a call that ends appends
   its hangup. *)
LEMMA NotedCall ==
    ASSUME TypeOK, NotedInv, CallStep
    PROVE  NotedInv'
<1> SUFFICES ASSUME ~lost PROVE NotedLive'
    BY CallStepEffect DEF NotedInv, CallEffect
<1>1. CallEffect BY CallStepEffect
<1>2. PICK reports \in Seq(Report) : CallShape(reports) BY <1>1 DEF CallEffect
<1>3. NotedLive /\ amiUp BY DEF NotedInv
<1>4. Len(events) \in Nat /\ Len(reports) \in Nat BY LenProperties DEF TypeOK
<1>5. /\ Len(events') = Len(events) + Len(reports)
      /\ \A i \in 1..Len(events) : events'[i] = events[i]
      /\ \A i \in 1..Len(reports) : events'[Len(events) + i] = reports[i]
  <2>1. CASE Send(reports) BY <1>3, <2>1, SendShape
  <2>2. CASE reports = <<>> /\ UNCHANGED events
    <3>1. Len(reports) = 0 BY <2>2
    <3> QED BY <1>4, <2>2, <3>1
  <2> QED BY <1>2, <2>1, <2>2 DEF CallShape
<1>6. ASSUME NEW k \in Chans, NEW i \in 0..Len(events),
             call[k] # NoCall \/ EndReported(k, i)
      PROVE  call'[k] # NoCall \/ EndReported(k, i)'
  <2>1. CASE EndReported(k, i)
    <3>1. PICK j \in 1..Len(events) : j > i /\ events[j] = Rep("hangup", k)
          BY <2>1 DEF EndReported
    <3>2. j \in 1..Len(events') /\ events'[j] = Rep("hangup", k) BY <1>4, <1>5, <3>1
    <3> QED BY <3>1, <3>2 DEF EndReported, Rep
  <2>2. CASE call[k] # NoCall /\ call'[k] = NoCall
    <3>1. PICK n \in 1..Len(reports) : reports[n] = Rep("hangup", k)
          BY <1>2, <2>2 DEF CallShape
    <3>2. /\ Len(events) + n \in 1..Len(events') /\ Len(events) + n > i
          /\ events'[Len(events) + n] = Rep("hangup", k)
          BY <1>4, <1>5, <3>1
    <3> QED BY <3>2 DEF EndReported, Rep
  <2> QED BY <1>6, <2>1, <2>2
<1>7. ASSUME NEW k \in doorChannels' PROVE call'[k] # NoCall \/ EndReported(k, 0)'
  <2>1. k \in doorChannels /\ k \in Chans BY <1>1, <1>7 DEF CallEffect, TypeOK
  <2>2. 0 \in 0..Len(events) BY <1>4
  <2> QED BY <1>3, <1>6, <2>1, <2>2 DEF NotedLive
<1>8. ASSUME NEW k \in Chans, NEW i \in 1..Len(events'), events'[i] = Rep("dialBegin", k)
      PROVE  call'[k] # NoCall \/ EndReported(k, i)'
  <2>1. CASE i \in 1..Len(events)
    <3>1. events[i] = Rep("dialBegin", k) BY <1>5, <1>8, <2>1
    <3>2. i \in 0..Len(events) BY <1>4, <2>1
    <3> QED BY <1>3, <1>6, <2>1, <3>1, <3>2 DEF NotedLive
  <2>2. CASE i \notin 1..Len(events)
    <3>1. PICK n \in 1..Len(reports) : i = Len(events) + n
      <4>1. i - Len(events) \in 1..Len(reports) /\ i = Len(events) + (i - Len(events))
            BY <1>4, <1>5, <2>2
      <4> QED BY <4>1
    <3>2. reports[n] = Rep("dialBegin", k) BY <1>5, <1>8, <3>1
    <3> QED BY <1>2, <3>2 DEF CallShape
  <2> QED BY <2>1, <2>2
<1> QED BY <1>7, <1>8 DEF NotedLive, Rep

(* Handling a report keeps it: a channel is noted by a DialBegin and forgotten by
   its hangup at the latest. *)
LEMMA NotedHandle ==
    ASSUME TypeOK, NotedInv, HandleEvent
    PROVE  NotedInv'
<1> SUFFICES ASSUME ~lost PROVE NotedLive'
    BY HandleEffect DEF NotedInv
<1> DEFINE ev == Head(events)
<1>1. /\ EventEffect(ev) /\ ev \in Report
      /\ Len(events') = Len(events) - 1
      /\ \A i \in 1..Len(events') : events'[i] = events[i + 1]
      /\ call' = call
      BY HandleEffect
<1>2. NotedLive BY DEF NotedInv
<1>3. events # <<>> /\ events \in Seq(Report) BY DEF HandleEvent, TypeOK
<1>4. /\ Len(events) \in Nat \ {0} /\ 1 \in 1..Len(events) /\ ev = events[1]
      BY <1>3, EmptySeq
<1>5. ASSUME NEW k \in Chans, NEW i \in 1..Len(events), EndReported(k, i)
      PROVE  EndReported(k, i - 1)'
  <2>1. PICK j \in 1..Len(events) : j > i /\ events[j] = Rep("hangup", k)
        BY <1>5 DEF EndReported
  <2>2. j - 1 \in 1..Len(events') /\ j - 1 > i - 1 /\ (j - 1) + 1 = j
        BY <1>1, <1>4, <2>1
  <2>3. events'[j - 1] = Rep("hangup", k) BY <1>1, <2>1, <2>2
  <2> QED BY <2>2, <2>3 DEF EndReported, Rep
<1>6. ASSUME NEW k \in doorChannels' PROVE call'[k] # NoCall \/ EndReported(k, 0)'
  <2>1. \/ k \in doorChannels /\ ev # Rep("hangup", k)
        \/ ev = Rep("dialBegin", k)
    <3>1. ev = [kind |-> ev.kind, chan |-> ev.chan] BY <1>1 DEF Report
    <3>2. ev = Rep("hangup", k) => ev.chan = k /\ ev.kind = "hangup" BY DEF Rep
    <3>3. CASE doorChannels' = {} BY <1>6, <3>3
    <3>4. CASE ev.kind = "dialBegin" /\ doorChannels' = doorChannels \cup {ev.chan}
          BY <1>6, <3>1, <3>2, <3>4 DEF Rep
    <3>5. CASE ev.kind = "hangup" /\ doorChannels' = doorChannels \ {ev.chan}
          BY <1>6, <3>2, <3>5
    <3>6. CASE ev.kind # "hangup" /\ doorChannels' = doorChannels
          BY <1>6, <3>2, <3>6
    <3> QED BY <1>1, <3>3, <3>4, <3>5, <3>6
            DEF EventEffect, OnRing, OnAnswer, IdleLine, OnDialBegin, Forget
  <2>2. k \in Chans BY <1>1, <2>1 DEF TypeOK, Report, Rep
  <2>3. CASE call[k] # NoCall BY <1>1, <2>3
  <2>4. CASE k \in doorChannels /\ ev # Rep("hangup", k) /\ call[k] = NoCall
    <3>1. PICK j \in 1..Len(events) : j > 0 /\ events[j] = Rep("hangup", k)
          BY <1>2, <2>4 DEF NotedLive, EndReported
    <3>2. j # 1 BY <1>4, <2>4, <3>1
    <3>3. j > 1 BY <1>4, <3>1, <3>2
    <3>4. EndReported(k, 1) BY <3>1, <3>3 DEF EndReported
    <3> QED BY <1>4, <1>5, <2>2, <3>4
  <2>5. CASE ev = Rep("dialBegin", k) /\ call[k] = NoCall
    <3>1. EndReported(k, 1) BY <1>2, <1>4, <2>2, <2>5 DEF NotedLive
    <3> QED BY <1>4, <1>5, <2>2, <3>1
  <2> QED BY <2>1, <2>3, <2>4, <2>5
<1>7. ASSUME NEW k \in Chans, NEW i \in 1..Len(events'), events'[i] = Rep("dialBegin", k)
      PROVE  call'[k] # NoCall \/ EndReported(k, i)'
  <2>1. i + 1 \in 1..Len(events) /\ (i + 1) - 1 = i BY <1>1, <1>4
  <2>2. events[i + 1] = Rep("dialBegin", k) BY <1>1, <1>7
  <2>3. call[k] # NoCall \/ EndReported(k, i + 1) BY <1>2, <2>1, <2>2 DEF NotedLive
  <2> QED BY <1>1, <1>5, <2>1, <2>3
<1> QED BY <1>6, <1>7 DEF NotedLive, Rep

LEMMA NotedStep == TypeOK /\ NotedInv /\ [Next]_vars => NotedInv'
<1> SUFFICES ASSUME TypeOK, NotedInv, [Next]_vars PROVE NotedInv'
    OBVIOUS
<1>1. ASSUME UNCHANGED <<doorChannels, call, events, lost>>, amiUp' = amiUp \/ amiUp'
      PROVE  NotedInv'
      BY <1>1 DEF NotedInv, NotedLive, EndReported, Rep
<1>2. CASE AmiDrops BY <1>2 DEF AmiDrops, NotedInv
<1>3. CASE AmiReconnects BY <1>1, <1>3 DEF AmiReconnects
<1>4. CASE RouteStep BY <1>1, <1>4, RouteStepEffect
<1>5. CASE UNCHANGED vars BY <1>1, <1>5 DEF vars
<1> QED BY <1>2, <1>3, <1>4, <1>5, NotedCall, NotedHandle, NextGroups

(* As long as no report is lost, a noted door channel belongs to a call, or its
   hangup is on its way (noteDoorChannel, forgetDoorChannel). *)
THEOREM NotedAreLive == Spec => []DoorChannelsLive
<1>1. Init => NotedInv BY DEF Init, NotedInv, NotedLive
<1>2. TypeOK /\ NotedInv => DoorChannelsLive
  <2> SUFFICES ASSUME TypeOK, NotedInv, ~lost, NEW k \in doorChannels, call[k] = NoCall
               PROVE  \E i \in DOMAIN events : events[i] = Rep("hangup", k)
      BY DEF DoorChannelsLive
  <2>1. DOMAIN events = 1..Len(events) BY LenProperties DEF TypeOK
  <2>2. EndReported(k, 0) BY DEF NotedInv, NotedLive
  <2> QED BY <2>1, <2>2 DEF EndReported
<1> QED BY <1>1, <1>2, NotedStep, LineTyped, PTL DEF Spec

-------------------------------------------------------------------------------
(* LoneCallSound speaks of a line whose reports were all handled; that it holds then
   needs what is still under way: while one call uses the line, the reports due say
   how far the book lags behind the call, and that they will bring it to the end. *)
Kinds == {"ring", "answered", "cleared", "dialBegin", "dialAnswer", "hangup"}
Due(kind) == \E i \in DOMAIN events : events[i].kind = kind

(* The order in which a call reports its steps; only "cleared" comes twice. *)
Rank == [ring |-> 1, dialBegin |-> 2, answered |-> 3, dialAnswer |-> 3,
         cleared |-> 4, hangup |-> 5]
Before(a, b) == Rank[a] < Rank[b] \/ (a = "cleared" /\ b = "cleared")
InOrder == \A i, j \in DOMAIN events : i < j => Before(events[i].kind, events[j].kind)

(* No call; the line is free or a panel holds a claim, and only that panel may dial
   upon it.  A DoorBird is never dialled, and may still call panels that released. *)
Resting ==
    /\ Quiet
    /\ doorChannels = {}
    /\ row = None \/ row.phase = "dialing"
    /\ \A p \in Panels : pending[p] = "dial" =>
          row # None /\ row.holder = p /\ ~doorbird

Goes(k) == call[k] # NoCall /\ ~Due("cleared") /\ ~Due("hangup")

(* The door rings, or somebody answered it. *)
Rung(k) ==
    /\ Goes(k) /\ call[k].kind \in {"ring", "bell"}
    /\ ~Due("dialAnswer")
    /\ IF Due("ring") THEN PhaseOf(row) = "idle"
       ELSE row # None /\ row.phase \in {"ringing", "busy"}
    /\ call[k].stage = "calling" => ~Due("answered")
    /\ call[k].stage = "talking" =>
          Due("answered") \/ (row # None /\ row.phase = "busy")

HeldBy(p) == row # None /\ row.phase \in {"dialing", "busy"} /\ row.holder = p

(* The panel that holds the claim called the door. *)
Dialled(k) ==
    /\ Goes(k) /\ call[k].kind = "dial" /\ ~doorbird
    /\ ~Due("ring") /\ ~Due("answered")
    /\ call[k].panel \in Panels /\ HeldBy(call[k].panel)
    /\ Due("dialBegin") \/ doorChannels = {k}
    /\ call[k].stage = "calling" => ~Due("dialAnswer")
    /\ call[k].stage = "talking" => Due("dialAnswer") \/ row.phase = "busy"

(* The DoorBird called the panel that holds the claim. *)
CalledBack(k) ==
    /\ Goes(k) /\ call[k].kind = "callback"
    /\ ~Due("ring") /\ ~Due("answered") /\ ~Due("dialAnswer")
    /\ call[k].panel \in Panels
    /\ row # None /\ row.phase = "dialing" /\ row.holder = call[k].panel

(* The call ended: what is due, or was handled, frees the line. *)
Over(k) ==
    /\ call[k] = NoCall
    /\ Due("hangup")
    /\ \/ Due("cleared")
       \/ /\ \A kind \in Kinds \ {"hangup"} : ~Due(kind)
          /\ row = None /\ doorChannels = {}
       \/ /\ ~Due("ring") /\ ~doorbird
          /\ \E p \in Panels : HeldBy(p)
          /\ Due("dialBegin") \/ doorChannels = {k}

UsedBy(k) ==
    /\ \A p \in Panels : pending[p] # "dial"
    /\ \A j \in Chans \ {k} : call[j] = NoCall
    /\ \A i \in DOMAIN events : events[i].chan = k
    /\ doorChannels \subseteq {k}
    /\ Rung(k) \/ Dialled(k) \/ CalledBack(k) \/ Over(k)

OneUse == amiUp /\ InOrder /\ (Resting \/ \E k \in Chans : UsedBy(k))
LoneInv == clean => OneUse

(* What is due is of a known kind; nothing is due when no report is under way. *)
LEMMA DueFacts ==
    ASSUME TypeOK
    PROVE  /\ events = <<>> <=> \A kind \in Kinds : ~Due(kind)
           /\ DOMAIN events = 1..Len(events)
           /\ \A i \in DOMAIN events : events[i].kind \in Kinds
<1>1. events \in Seq(Report) BY DEF TypeOK
<1>2. DOMAIN events = 1..Len(events) BY <1>1, LenProperties
<1>3. \A i \in DOMAIN events : events[i].kind \in Kinds
  <2>1. \A i \in DOMAIN events : events[i] \in Report BY <1>1, <1>2, ElementOfSeq
  <2> QED BY <2>1 DEF Report, Kinds
<1>4. events = <<>> => \A kind \in Kinds : ~Due(kind)
  <2>1. events = <<>> => DOMAIN events = {} BY <1>2, EmptySeq
  <2> QED BY <2>1 DEF Due
<1>5. ASSUME events # <<>> PROVE \E kind \in Kinds : Due(kind)
  <2>1. 1 \in DOMAIN events BY <1>1, <1>2, <1>5, EmptySeq
  <2>2. events[1].kind \in Kinds /\ Due(events[1].kind) BY <1>3, <2>1 DEF Due
  <2> QED BY <2>2
<1> QED BY <1>2, <1>3, <1>4, <1>5

(* A channel in use reports more steps: they are due too, after what was. *)
LEMMA Sent ==
    ASSUME TypeOK, amiUp, InOrder, NEW k \in Chans, NEW reports \in Seq(Report),
           Send(reports),
           \A i \in DOMAIN events : events[i].chan = k,
           \A i \in 1..Len(reports) : reports[i].chan = k,
           \A i, j \in 1..Len(reports) : i < j => Before(reports[i].kind, reports[j].kind),
           \A kind \in Kinds, j \in 1..Len(reports) :
               Due(kind) => Before(kind, reports[j].kind)
    PROVE  /\ InOrder'
           /\ \A i \in DOMAIN events' : events'[i].chan = k
           /\ \A kind \in Kinds :
                 Due(kind)' <=> Due(kind) \/ \E i \in 1..Len(reports) : reports[i].kind = kind
<1>1. /\ events' \in Seq(Report) /\ Len(events') = Len(events) + Len(reports)
      /\ \A i \in 1..Len(events) : events'[i] = events[i]
      /\ \A i \in 1..Len(reports) : events'[Len(events) + i] = reports[i]
      BY SendShape
<1>2. Len(events) \in Nat /\ Len(reports) \in Nat BY LenProperties DEF TypeOK
<1>3. DOMAIN events' = 1..Len(events') /\ DOMAIN events = 1..Len(events)
      BY <1>1, LenProperties, DueFacts
<1>4. ASSUME NEW i \in DOMAIN events'
      PROVE  \/ i \in DOMAIN events /\ events'[i] = events[i]
             \/ \E n \in 1..Len(reports) : i = Len(events) + n /\ events'[i] = reports[n]
  <2>1. CASE i \in 1..Len(events) BY <1>1, <1>3, <2>1
  <2>2. CASE i \notin 1..Len(events)
    <3>1. i - Len(events) \in 1..Len(reports) /\ i = Len(events) + (i - Len(events))
          BY <1>1, <1>2, <1>3, <2>2
    <3>2. PICK n \in 1..Len(reports) : i = Len(events) + n BY <3>1
    <3> QED BY <1>1, <3>2
  <2> QED BY <2>1, <2>2
<1>5. ASSUME NEW n \in 1..Len(reports)
      PROVE  Len(events) + n \in DOMAIN events' /\ events'[Len(events) + n] = reports[n]
      BY <1>1, <1>2, <1>3
<1>6. \A i \in DOMAIN events : i \in DOMAIN events' /\ events'[i] = events[i]
      BY <1>1, <1>2, <1>3
<1>7. ASSUME NEW i \in DOMAIN events', NEW j \in DOMAIN events', i < j
      PROVE  Before(events'[i].kind, events'[j].kind)
  <2>1. CASE j \in DOMAIN events
    <3>1. i \in DOMAIN events BY <1>2, <1>3, <1>7, <2>1
    <3> QED BY <1>6, <1>7, <2>1, <3>1 DEF InOrder
  <2>2. CASE j \notin DOMAIN events
    <3>1. PICK n \in 1..Len(reports) : j = Len(events) + n /\ events'[j] = reports[n]
          BY <1>4, <2>2
    <3>2. CASE i \in DOMAIN events
      <4>1. events[i].kind \in Kinds /\ Due(events[i].kind) BY <3>2, DueFacts DEF Due
      <4> QED BY <1>6, <3>1, <3>2, <4>1
    <3>3. CASE i \notin DOMAIN events
      <4>1. PICK m \in 1..Len(reports) : i = Len(events) + m /\ events'[i] = reports[m]
            BY <1>4, <3>3
      <4>2. m < n BY <1>2, <1>7, <3>1, <4>1
      <4> QED BY <3>1, <4>1, <4>2
    <3> QED BY <3>2, <3>3
  <2> QED BY <2>1, <2>2
<1>8. InOrder' BY <1>7 DEF InOrder, Before, Rank
<1>9. \A i \in DOMAIN events' : events'[i].chan = k BY <1>4
<1>10. ASSUME NEW kind \in Kinds
       PROVE  Due(kind)' <=> Due(kind) \/ \E i \in 1..Len(reports) : reports[i].kind = kind
  <2>1. ASSUME Due(kind)'
        PROVE  Due(kind) \/ \E i \in 1..Len(reports) : reports[i].kind = kind
        BY <1>4, <2>1 DEF Due
  <2>2. Due(kind) => Due(kind)' BY <1>6 DEF Due
  <2>3. (\E i \in 1..Len(reports) : reports[i].kind = kind) => Due(kind)' BY <1>5 DEF Due
  <2> QED BY <2>1, <2>2, <2>3
<1> QED BY <1>8, <1>9, <1>10

(* The report handled came before all others that were due. *)
LEMMA Handled ==
    ASSUME TypeOK, InOrder, HandleEvent, NEW k \in Chans,
           \A i \in DOMAIN events : events[i].chan = k
    PROVE  /\ InOrder'
           /\ \A i \in DOMAIN events' : events'[i].chan = k
           /\ Head(events) = Rep(Head(events).kind, k)
           /\ Head(events).kind \in Kinds /\ Due(Head(events).kind)
           /\ \A kind \in Kinds : Due(kind)' => Due(kind) /\ Before(Head(events).kind, kind)
           /\ \A kind \in Kinds : Due(kind) => kind = Head(events).kind \/ Due(kind)'
           /\ (\A kind \in Kinds : ~Due(kind)') => events' = <<>>
<1>1. /\ Head(events) \in Report
      /\ events' \in Seq(Report) /\ Len(events') = Len(events) - 1
      /\ \A i \in 1..Len(events') : events'[i] = events[i + 1]
      BY HandleEffect
<1>2. events # <<>> /\ events \in Seq(Report) BY DEF HandleEvent, TypeOK
<1>3. /\ DOMAIN events = 1..Len(events) /\ Len(events) \in Nat \ {0}
      /\ Head(events) = events[1] /\ 1 \in DOMAIN events
      BY <1>2, EmptySeq
<1>4. DOMAIN events' = 1..Len(events') BY <1>1, LenProperties
<1>5. \A i \in DOMAIN events' :
          i + 1 \in DOMAIN events /\ 1 < i + 1 /\ events'[i] = events[i + 1]
      BY <1>1, <1>3, <1>4
<1>6. InOrder'
  <2>1. ASSUME NEW i \in DOMAIN events', NEW j \in DOMAIN events', i < j
        PROVE  Before(events'[i].kind, events'[j].kind)
    <3>1. i + 1 < j + 1 BY <1>4, <2>1
    <3> QED BY <1>5, <2>1, <3>1 DEF InOrder
  <2> QED BY <2>1 DEF InOrder, Before, Rank
<1>7. \A i \in DOMAIN events' : events'[i].chan = k BY <1>5
<1>8. Head(events).kind \in Kinds /\ Head(events) = Rep(Head(events).kind, k)
      BY <1>1, <1>3 DEF Report, Kinds, Rep
<1>9. Due(Head(events).kind) BY <1>3 DEF Due
<1>10. ASSUME NEW kind \in Kinds, Due(kind)'
       PROVE  Due(kind) /\ Before(Head(events).kind, kind)
  <2>1. PICK i \in DOMAIN events' : events'[i].kind = kind BY <1>10 DEF Due
  <2>2. i + 1 \in DOMAIN events /\ 1 < i + 1 /\ events[i + 1].kind = kind BY <1>5, <2>1
  <2> QED BY <1>3, <2>2 DEF Due, InOrder
<1>11. ASSUME NEW kind \in Kinds, Due(kind), kind # Head(events).kind PROVE Due(kind)'
  <2>1. PICK i \in DOMAIN events : events[i].kind = kind BY <1>11 DEF Due
  <2>2. i # 1 BY <1>3, <1>11, <2>1
  <2>3. i - 1 \in DOMAIN events' /\ (i - 1) + 1 = i BY <1>1, <1>3, <1>4, <2>1, <2>2
  <2>4. events'[i - 1].kind = kind BY <1>5, <2>1, <2>3
  <2> QED BY <2>3, <2>4 DEF Due
<1>12. ASSUME events' # <<>> PROVE \E kind \in Kinds : Due(kind)'
  <2>1. 1 \in DOMAIN events' BY <1>1, <1>4, <1>12, EmptySeq
  <2>2. events'[1] \in Report BY <1>1, <1>4, <2>1, ElementOfSeq
  <2>3. events'[1].kind \in Kinds BY <2>2 DEF Report, Kinds
  <2> QED BY <2>1, <2>3 DEF Due
<1> QED BY <1>6, <1>7, <1>8, <1>9, <1>10, <1>11, <1>12

(* Whoever has a call uses the line; nobody does while it is quiet. *)
LEMMA InUse ==
    /\ \A k \in Chans : OneUse /\ call[k] # NoCall => UsedBy(k)
    /\ \A k \in Chans : TypeOK /\ UsedBy(k) => ~Quiet
<1>1. \A k \in Chans : OneUse /\ call[k] # NoCall => UsedBy(k)
      BY DEF OneUse, Resting, Quiet, NoCalls, UsedBy
<1>2. ASSUME NEW k \in Chans, TypeOK, UsedBy(k), Quiet PROVE FALSE
  <2>1. call[k] = NoCall BY <1>2 DEF Quiet, NoCalls
  <2>2. ~Due("hangup") BY <1>2, DueFacts DEF Quiet, Kinds
  <2> QED BY <1>2, <2>1, <2>2 DEF UsedBy, Rung, Dialled, CalledBack, Goes, Over
<1> QED BY <1>1, <1>2

(* The first reports of a channel on a quiet line. *)
LEMMA SentFirst ==
    ASSUME TypeOK, OneUse, Quiet, NEW k \in Chans,
           NEW reports \in Seq(Report), Send(reports),
           \A i \in 1..Len(reports) : reports[i].chan = k,
           \A i, j \in 1..Len(reports) : i < j => Before(reports[i].kind, reports[j].kind)
    PROVE  /\ InOrder'
           /\ \A i \in DOMAIN events' : events'[i].chan = k
           /\ \A x \in Kinds : Due(x)' <=> \E i \in 1..Len(reports) : reports[i].kind = x
<1>1. \A x \in Kinds : ~Due(x) BY DueFacts DEF Quiet
<1>2. \A i \in DOMAIN events : events[i].chan = k
  <2>1. \A i \in DOMAIN events : Due(events[i].kind) /\ events[i].kind \in Kinds
        BY DueFacts DEF Due
  <2> QED BY <1>1, <2>1
<1>3. /\ InOrder'
      /\ \A i \in DOMAIN events' : events'[i].chan = k
      /\ \A x \in Kinds : Due(x)' <=> Due(x) \/ \E i \in 1..Len(reports) : reports[i].kind = x
      BY <1>1, <1>2, Sent DEF OneUse
<1> QED BY <1>1, <1>3

(* The first call on a quiet line. *)
LEMMA FirstCall ==
    ASSUME TypeOK, Quiet, NEW k \in Chans, NEW now,
           call' = [call EXCEPT ![k] = now]
    PROVE  call'[k] = now /\ \A j \in Chans \ {k} : call'[j] = NoCall
BY DEF TypeOK, Quiet, NoCalls

(* The button is pressed in a line that rests. *)
LEMMA LonePress ==
    ASSUME TypeOK, OneUse, clean', NEW k \in Chans, NEW targets \in BOOLEAN,
           PressButton(k, targets)
    PROVE  OneUse'
<1> DEFINE reports == IF targets THEN <<Rep("ring", k), Rep("dialBegin", k)>>
                      ELSE <<Rep("ring", k)>>
           kind == IF targets THEN "ring" ELSE "bell"
<1>1. /\ Quiet /\ \A p \in Panels : pending[p] = "none"
      /\ PhaseOf(row) = "idle"
      BY DEF PressButton, Alone
<1>2. Begin(k, kind, None) /\ Send(reports) BY DEF PressButton
<1>3. reports \in Seq(Report) BY ReportTypes
<1>4. kind \in {"ring", "bell"} OBVIOUS
<1>5. /\ \A i \in 1..Len(reports) : reports[i].chan = k
      /\ \A i \in 1..Len(reports) : reports[i].kind \in {"ring", "dialBegin"}
      /\ \A i, j \in 1..Len(reports) : i < j => Before(reports[i].kind, reports[j].kind)
      /\ \E i \in 1..Len(reports) : reports[i].kind = "ring"
  <2>1. CASE targets
    <3>1. reports = <<Rep("ring", k), Rep("dialBegin", k)>> BY <2>1
    <3> HIDE DEF reports
    <3>2. Len(reports) = 2 /\ reports[1] = Rep("ring", k) /\ reports[2] = Rep("dialBegin", k)
          BY <3>1
    <3> QED BY <3>2 DEF Rep, Before, Rank
  <2>2. CASE ~targets
    <3>1. reports = <<Rep("ring", k)>> BY <2>2
    <3> HIDE DEF reports
    <3>2. Len(reports) = 1 /\ reports[1] = Rep("ring", k) BY <3>1
    <3> QED BY <3>2 DEF Rep, Before, Rank
  <2> QED BY <2>1, <2>2
<1> HIDE DEF reports, kind
<1>6. /\ Resting /\ InOrder'
      /\ \A i \in DOMAIN events' : events'[i].chan = k
      /\ \A x \in Kinds : Due(x)' <=> \E i \in 1..Len(reports) : reports[i].kind = x
      /\ call'[k] = [kind |-> kind, stage |-> "calling", panel |-> None]
      /\ \A j \in Chans \ {k} : call'[j] = NoCall
      /\ Goes(k)'
  <2>1. Resting BY <1>1, InUse DEF OneUse
  <2>2. /\ InOrder'
        /\ \A i \in DOMAIN events' : events'[i].chan = k
        /\ \A x \in Kinds : Due(x)' <=> \E i \in 1..Len(reports) : reports[i].kind = x
        BY <1>1, <1>2, <1>3, <1>5, SentFirst
  <2>3. /\ call'[k] = [kind |-> kind, stage |-> "calling", panel |-> None]
        /\ \A j \in Chans \ {k} : call'[j] = NoCall
        BY <1>1, <1>2, FirstCall DEF Begin
  <2>4. ~Due("cleared")' /\ ~Due("hangup")' /\ call'[k] # NoCall
        BY <1>5, <2>2, <2>3 DEF Kinds, NoCall
  <2> QED BY <2>1, <2>2, <2>3, <2>4 DEF Goes, NoCall
<1>7. Due("ring")' /\ ~Due("dialAnswer")' /\ ~Due("answered")' BY <1>5, <1>6 DEF Kinds
<1>8. row' = row /\ doorChannels' = doorChannels /\ pending' = pending /\ amiUp' = amiUp
      BY DEF PressButton
<1>9. PhaseOf(row)' = "idle" BY <1>1, <1>8 DEF PhaseOf, Looked, Expired
<1>10. call'[k].kind \in {"ring", "bell"} /\ call'[k].stage = "calling" BY <1>4, <1>6
<1>11. Rung(k)' BY <1>6, <1>7, <1>9, <1>10 DEF Rung
<1>12. UsedBy(k)' BY <1>1, <1>6, <1>8, <1>11 DEF UsedBy, Resting
<1> QED BY <1>6, <1>8, <1>12 DEF OneUse

(* A claim is acted upon: the claimant's call begins. *)
LEMMA LoneDial ==
    ASSUME TypeOK, OneUse, clean', NEW k \in Chans, NEW p \in Panels,
           PanelDials(k, p) \/ DoorCallsBack(k, p)
    PROVE  OneUse'
<1>1. PICK kind \in {"dial", "callback"} :
          /\ Begin(k, kind, p) /\ Send(<<Rep("dialBegin", k)>>)
          /\ pending[p] = kind /\ pending' = [pending EXCEPT ![p] = "none"]
          /\ Quiet /\ (kind = "callback" => Holds(p))
          /\ UNCHANGED <<doorbird, row, doorChannels, published, amiUp, lost>>
      BY DEF PanelDials, DoorCallsBack
<1>2. PICK reports \in Seq(Report) : reports = <<Rep("dialBegin", k)>> BY ReportTypes
<1>3. /\ Len(reports) = 1 /\ reports[1] = Rep("dialBegin", k)
      /\ reports[1].kind = "dialBegin" /\ reports[1].chan = k
      BY <1>2 DEF Rep
<1>4. /\ Resting /\ InOrder'
      /\ \A i \in DOMAIN events' : events'[i].chan = k
      /\ \A x \in Kinds : Due(x)' <=> x = "dialBegin"
      /\ call'[k] = [kind |-> kind, stage |-> "calling", panel |-> p]
      /\ \A j \in Chans \ {k} : call'[j] = NoCall
      /\ Goes(k)'
  <2>1. Quiet /\ Send(reports) BY <1>1, <1>2
  <2>2. Resting BY <2>1, InUse DEF OneUse
  <2>3. /\ InOrder'
        /\ \A i \in DOMAIN events' : events'[i].chan = k
        /\ \A x \in Kinds : Due(x)' <=> \E i \in 1..Len(reports) : reports[i].kind = x
    <3>1. /\ \A i, j \in 1..Len(reports) : i < j => Before(reports[i].kind, reports[j].kind)
          /\ \A i \in 1..Len(reports) : reports[i].chan = k
          BY <1>3
    <3> QED BY <2>1, <3>1, SentFirst
  <2>4. /\ call'[k] = [kind |-> kind, stage |-> "calling", panel |-> p]
        /\ \A j \in Chans \ {k} : call'[j] = NoCall
        BY <1>1, <2>1, FirstCall DEF Begin
  <2>5. \A x \in Kinds : Due(x)' <=> x = "dialBegin" BY <1>3, <2>3
  <2>6. ~Due("cleared")' /\ ~Due("hangup")' /\ call'[k] # NoCall
        BY <2>4, <2>5 DEF Kinds, NoCall
  <2> QED BY <2>2, <2>3, <2>4, <2>5, <2>6 DEF Goes, NoCall
<1>5. /\ Due("dialBegin")' /\ ~Due("ring")' /\ ~Due("answered")' /\ ~Due("dialAnswer")'
      BY <1>3, <1>4 DEF Kinds
<1>6. row # None /\ row.phase = "dialing" /\ row.holder = p
  <2>1. CASE kind = "dial" BY <1>1, <1>4, <2>1 DEF Resting
  <2>2. CASE kind = "callback" BY <1>1, <2>2 DEF Holds
  <2> QED BY <2>1, <2>2
<1>7. \A q \in Panels : pending'[q] # "dial"
  <2>1. \A q \in Panels \ {p} : pending[q] # "dial" BY <1>4, <1>6 DEF Resting
  <2> QED BY <1>1, <2>1 DEF TypeOK
<1>8. Dialled(k)' \/ CalledBack(k)'
  <2>1. CASE kind = "dial"
    <3>1. ~doorbird' BY <1>1, <1>4, <2>1 DEF Resting
    <3>2. HeldBy(p)' BY <1>1, <1>6 DEF HeldBy
    <3>3. call'[k].panel = p /\ call'[k].kind = "dial" /\ call'[k].stage = "calling"
          BY <1>4, <2>1
    <3>4. HeldBy(call[k].panel)' BY <3>2, <3>3 DEF HeldBy
    <3> QED BY <1>4, <1>5, <3>1, <3>3, <3>4 DEF Dialled
  <2>2. CASE kind = "callback"
    <3>1. call'[k].panel = p /\ call'[k].kind = "callback" BY <1>4, <2>2
    <3> QED BY <1>1, <1>4, <1>5, <1>6, <3>1 DEF CalledBack
  <2> QED BY <2>1, <2>2
<1>9. UsedBy(k)' BY <1>1, <1>4, <1>7, <1>8 DEF UsedBy, Resting
<1> QED BY <1>1, <1>4, <1>9 DEF OneUse

(* A panel answers the ring. *)
LEMMA LoneAnswer ==
    ASSUME TypeOK, OneUse, NEW k \in Chans, NEW p \in Panels, AnswerRing(k, p)
    PROVE  OneUse'
<1>1. call[k].kind = "ring" /\ call[k].stage = "calling" /\ call[k] # NoCall
      BY DEF AnswerRing, NoCall
<1>2. UsedBy(k) /\ Rung(k) /\ amiUp /\ InOrder
  <2>1. UsedBy(k) BY <1>1, InUse
  <2> QED BY <1>1, <2>1 DEF UsedBy, Dialled, CalledBack, Over, OneUse
<1>3. PICK reports \in Seq(Report) : reports = <<Rep("answered", k)>> BY ReportTypes
<1>4. /\ Len(reports) = 1 /\ reports[1].kind = "answered" /\ reports[1].chan = k
      BY <1>3 DEF Rep
<1>5. \A x \in Kinds : Due(x) => x \in {"ring", "dialBegin"}
      BY <1>1, <1>2 DEF Rung, Goes, Kinds
<1>6. /\ InOrder'
      /\ \A i \in DOMAIN events' : events'[i].chan = k
      /\ \A x \in Kinds : Due(x)' <=> Due(x) \/ x = "answered"
  <2>1. /\ \A i, j \in 1..Len(reports) : i < j => Before(reports[i].kind, reports[j].kind)
        /\ \A i \in 1..Len(reports) : reports[i].chan = k
        /\ \A x \in Kinds : (\E i \in 1..Len(reports) : reports[i].kind = x) <=> x = "answered"
        BY <1>4
  <2>2. \A x \in Kinds, j \in 1..Len(reports) : Due(x) => Before(x, reports[j].kind)
        BY <1>4, <1>5 DEF Before, Rank
  <2>3. Send(reports) BY <1>3 DEF AnswerRing
  <2>4. \A i \in DOMAIN events : events[i].chan = k BY <1>2 DEF UsedBy
  <2>5. /\ InOrder'
        /\ \A i \in DOMAIN events' : events'[i].chan = k
        /\ \A x \in Kinds :
              Due(x)' <=> Due(x) \/ \E i \in 1..Len(reports) : reports[i].kind = x
        BY <1>2, <2>1, <2>2, <2>3, <2>4, Sent
  <2> QED BY <2>1, <2>5
<1>7. /\ call'[k].kind = "ring" /\ call'[k].stage = "talking"
      /\ \A j \in Chans \ {k} : call'[j] = call[j]
  <2>1. call \in [Chans -> Call] /\ call[k] \in Call BY DEF TypeOK
  <2>2. call' = [call EXCEPT ![k].stage = "talking", ![k].panel = p] BY DEF AnswerRing
  <2>3. call[k] \in [kind : {"ring", "bell", "dial", "callback"},
                     stage : {"calling", "talking"}, panel : Panels \cup {None}]
        BY <1>1, <2>1 DEF Call
  <2> QED BY <1>1, <2>1, <2>2, <2>3
<1>8. UNCHANGED <<doorbird, row, doorChannels, pending, amiUp>> BY DEF AnswerRing
<1>9. Goes(k)' BY <1>6, <1>7, <1>2 DEF Rung, Goes, NoCall, Kinds
<1>10. Rung(k)'
  <2>1. /\ ~Due("dialAnswer")' /\ Due("answered")' /\ (Due("ring")' <=> Due("ring"))
        BY <1>2, <1>6 DEF Rung, Kinds
  <2>2. IF Due("ring")' THEN PhaseOf(row)' = "idle"
        ELSE row' # None /\ row'.phase \in {"ringing", "busy"}
        BY <1>2, <1>8, <2>1 DEF Rung, PhaseOf, Looked, Expired
  <2> QED BY <1>7, <1>9, <2>1, <2>2 DEF Rung
<1>11. UsedBy(k)' BY <1>2, <1>6, <1>7, <1>8, <1>10 DEF UsedBy
<1> QED BY <1>2, <1>6, <1>8, <1>11 DEF OneUse

(* The call ends: what it reports will free the line. *)
LEMMA LoneEnd ==
    ASSUME TypeOK, OneUse, NEW k \in Chans, RingTimesOut(k) \/ HangUp(k)
    PROVE  OneUse'
<1>1. PICK reports \in Seq(Report) :
          /\ Send(reports)
          /\ \A i \in 1..Len(reports) :
                reports[i].chan = k /\ reports[i].kind \in {"cleared", "hangup"}
          /\ \A i, j \in 1..Len(reports) : i < j => Before(reports[i].kind, reports[j].kind)
          /\ \E i \in 1..Len(reports) : reports[i].kind = "hangup"
          /\ call[k].kind # "dial" => \E i \in 1..Len(reports) : reports[i].kind = "cleared"
  <2>1. CASE Send(<<Rep("cleared", k), Rep("cleared", k), Rep("hangup", k)>>)
    <3>1. PICK reports \in Seq(Report) :
              reports = <<Rep("cleared", k), Rep("cleared", k), Rep("hangup", k)>>
          BY ReportTypes
    <3>2. /\ Len(reports) = 3 /\ reports[1] = Rep("cleared", k)
          /\ reports[2] = Rep("cleared", k) /\ reports[3] = Rep("hangup", k)
          BY <3>1
    <3>3. Send(reports) BY <2>1, <3>1
    <3>4. /\ \A i \in 1..Len(reports) :
                reports[i].chan = k /\ reports[i].kind \in {"cleared", "hangup"}
          /\ \A i, j \in 1..Len(reports) : i < j => Before(reports[i].kind, reports[j].kind)
          BY <3>2 DEF Rep, Before, Rank
    <3>5. /\ \E i \in 1..Len(reports) : reports[i].kind = "hangup"
          /\ \E i \in 1..Len(reports) : reports[i].kind = "cleared"
          BY <3>2 DEF Rep
    <3> QED BY <3>3, <3>4, <3>5
  <2>2. CASE Send(<<Rep("cleared", k), Rep("hangup", k)>>)
    <3>1. PICK reports \in Seq(Report) : reports = <<Rep("cleared", k), Rep("hangup", k)>>
          BY ReportTypes
    <3>2. /\ Len(reports) = 2 /\ reports[1] = Rep("cleared", k)
          /\ reports[2] = Rep("hangup", k)
          BY <3>1
    <3>3. Send(reports) BY <2>2, <3>1
    <3>4. /\ \A i \in 1..Len(reports) :
                reports[i].chan = k /\ reports[i].kind \in {"cleared", "hangup"}
          /\ \A i, j \in 1..Len(reports) : i < j => Before(reports[i].kind, reports[j].kind)
          BY <3>2 DEF Rep, Before, Rank
    <3>5. /\ \E i \in 1..Len(reports) : reports[i].kind = "hangup"
          /\ \E i \in 1..Len(reports) : reports[i].kind = "cleared"
          BY <3>2 DEF Rep
    <3> QED BY <3>3, <3>4, <3>5
  <2>3. CASE Send(<<Rep("hangup", k)>>) /\ call[k].kind = "dial"
    <3>1. PICK reports \in Seq(Report) : reports = <<Rep("hangup", k)>> BY ReportTypes
    <3>2. Len(reports) = 1 /\ reports[1] = Rep("hangup", k) BY <3>1
    <3>3. Send(reports) BY <2>3, <3>1
    <3> QED BY <2>3, <3>2, <3>3 DEF Rep, Before, Rank
  <2> QED BY <2>1, <2>2, <2>3 DEF RingTimesOut, HangUp
<1>2. /\ call' = [call EXCEPT ![k] = NoCall] /\ call[k] # NoCall
      /\ UNCHANGED <<doorbird, row, doorChannels, pending, amiUp>>
      BY DEF RingTimesOut, HangUp, NoCall
<1>3. UsedBy(k) /\ Goes(k) /\ amiUp /\ InOrder
  <2>1. UsedBy(k) BY <1>2, InUse
  <2> QED BY <1>2, <2>1 DEF UsedBy, Rung, Dialled, CalledBack, Over, OneUse
<1>4. call'[k] = NoCall /\ \A j \in Chans \ {k} : call'[j] = NoCall
      BY <1>2, <1>3 DEF TypeOK, UsedBy
<1>5. /\ InOrder'
      /\ \A i \in DOMAIN events' : events'[i].chan = k
      /\ \A x \in Kinds :
            Due(x)' <=> Due(x) \/ \E i \in 1..Len(reports) : reports[i].kind = x
  <2>1. \A x \in Kinds, j \in 1..Len(reports) : Due(x) => Before(x, reports[j].kind)
        BY <1>1, <1>3 DEF Before, Rank, Goes, Kinds
  <2>2. \A i \in DOMAIN events : events[i].chan = k BY <1>3 DEF UsedBy
  <2>3. /\ \A i \in 1..Len(reports) : reports[i].chan = k
        /\ \A i, j \in 1..Len(reports) : i < j => Before(reports[i].kind, reports[j].kind)
        /\ Send(reports)
        BY <1>1
  <2> QED BY <1>3, <2>1, <2>2, <2>3, Sent
<1>6. Over(k)'
  <2>1. Due("hangup")' BY <1>1, <1>5 DEF Kinds
  <2>2. CASE call[k].kind # "dial"
    <3>1. Due("cleared")' BY <1>1, <1>5, <2>2 DEF Kinds
    <3> QED BY <1>4, <2>1, <3>1 DEF Over, NoCall
  <2>3. CASE call[k].kind = "dial"
    <3>1. Dialled(k) BY <1>2, <1>3, <2>3 DEF UsedBy, Rung, CalledBack, Over
    <3>2. ~Due("ring")' BY <1>1, <1>5, <3>1 DEF Dialled, Kinds
    <3>3. Due("dialBegin")' \/ doorChannels' = {k} BY <1>2, <1>5, <3>1 DEF Dialled, Kinds
    <3>4. \E p \in Panels : HeldBy(p)' BY <1>2, <3>1 DEF Dialled, HeldBy
    <3>5. ~doorbird' BY <1>2, <3>1 DEF Dialled
    <3> QED BY <1>4, <2>1, <3>2, <3>3, <3>4, <3>5 DEF Over, NoCall
  <2> QED BY <2>2, <2>3
<1>7. UsedBy(k)' BY <1>2, <1>3, <1>4, <1>5, <1>6 DEF UsedBy
<1> QED BY <1>2, <1>3, <1>5, <1>7 DEF OneUse

(* The far end of a dial or a callback answers. *)
LEMMA LoneFarEnd ==
    ASSUME TypeOK, OneUse, NEW k \in Chans, FarEndAnswers(k)
    PROVE  OneUse'
<1>1. /\ call[k].kind \in {"dial", "callback"} /\ call[k].stage = "calling"
      /\ call[k] # NoCall
      /\ UNCHANGED <<doorbird, row, doorChannels, pending, amiUp>>
      BY DEF FarEndAnswers, NoCall
<1>2. /\ UsedBy(k) /\ amiUp /\ InOrder
      /\ Dialled(k) \/ CalledBack(k)
  <2>1. UsedBy(k) BY <1>1, InUse
  <2> QED BY <1>1, <2>1 DEF UsedBy, Rung, Over, OneUse
<1>3. /\ call'[k].kind = call[k].kind /\ call'[k].stage = "talking"
      /\ call'[k].panel = call[k].panel
      /\ \A j \in Chans \ {k} : call'[j] = call[j]
  <2>1. call \in [Chans -> Call] /\ call[k] \in Call BY DEF TypeOK
  <2>2. call' = [call EXCEPT ![k].stage = "talking"] BY DEF FarEndAnswers
  <2>3. call[k] \in [kind : {"ring", "bell", "dial", "callback"},
                     stage : {"calling", "talking"}, panel : Panels \cup {None}]
        BY <1>1, <2>1 DEF Call
  <2> QED BY <2>1, <2>2, <2>3
<1>4. call'[k] # NoCall BY <1>3 DEF NoCall
<1>5. CASE call[k].kind = "dial"
  <2>1. PICK reports \in Seq(Report) : reports = <<Rep("dialAnswer", k)>> BY ReportTypes
  <2>2. Len(reports) = 1 /\ reports[1].kind = "dialAnswer" /\ reports[1].chan = k
        BY <2>1 DEF Rep
  <2>3. Dialled(k) BY <1>2, <1>5 DEF CalledBack
  <2>4. \A x \in Kinds : Due(x) => x = "dialBegin" BY <1>1, <2>3 DEF Dialled, Goes, Kinds
  <2>5. /\ InOrder'
        /\ \A i \in DOMAIN events' : events'[i].chan = k
        /\ \A x \in Kinds : Due(x)' <=> Due(x) \/ x = "dialAnswer"
    <3>1. /\ \A i, j \in 1..Len(reports) : i < j => Before(reports[i].kind, reports[j].kind)
          /\ \A i \in 1..Len(reports) : reports[i].chan = k
          /\ \A x \in Kinds :
                (\E i \in 1..Len(reports) : reports[i].kind = x) <=> x = "dialAnswer"
          BY <2>2
    <3>2. \A x \in Kinds, j \in 1..Len(reports) : Due(x) => Before(x, reports[j].kind)
          BY <2>2, <2>4 DEF Before, Rank
    <3>3. Send(reports) BY <1>5, <2>1 DEF FarEndAnswers
    <3>4. \A i \in DOMAIN events : events[i].chan = k BY <1>2 DEF UsedBy
    <3>5. /\ InOrder'
          /\ \A i \in DOMAIN events' : events'[i].chan = k
          /\ \A x \in Kinds :
                Due(x)' <=> Due(x) \/ \E i \in 1..Len(reports) : reports[i].kind = x
          BY <1>2, <3>1, <3>2, <3>3, <3>4, Sent
    <3> QED BY <3>1, <3>5
  <2>6. /\ ~Due("ring")' /\ ~Due("answered")' /\ Due("dialAnswer")'
        /\ ~Due("cleared")' /\ ~Due("hangup")'
        /\ (Due("dialBegin")' <=> Due("dialBegin"))
        BY <2>3, <2>5 DEF Dialled, Goes, Kinds
  <2>7. Goes(k)' BY <1>4, <2>6 DEF Goes, NoCall
  <2>8. HeldBy(call[k].panel)' BY <1>1, <1>3, <2>3 DEF Dialled, HeldBy
  <2>9. Dialled(k)' BY <1>1, <1>3, <2>3, <2>6, <2>7, <2>8 DEF Dialled
  <2>10. UsedBy(k)' BY <1>1, <1>2, <1>3, <2>5, <2>9 DEF UsedBy
  <2> QED BY <1>1, <1>2, <2>5, <2>10 DEF OneUse
<1>6. CASE call[k].kind = "callback"
  <2>1. events' = events BY <1>6 DEF FarEndAnswers
  <2>2. CalledBack(k) BY <1>2, <1>6 DEF Dialled
  <2>3. CalledBack(k)' BY <1>1, <1>3, <1>4, <2>1, <2>2 DEF CalledBack, Goes, NoCall, Due
  <2>4. UsedBy(k)' BY <1>1, <1>2, <1>3, <2>1, <2>3 DEF UsedBy
  <2>5. InOrder' BY <1>2, <2>1 DEF InOrder, Before, Rank
  <2> QED BY <1>1, <1>2, <2>4, <2>5 DEF OneUse
<1> QED BY <1>1, <1>5, <1>6

(* A report is handled of the call that uses the line: the book catches up with it,
   or the report of its hangup was the last and the line rests. *)
LEMMA LoneHandle ==
    ASSUME TypeOK, OneUse, HandleEvent
    PROVE  OneUse'
<1>1. PICK k \in Chans : UsedBy(k)
      BY DEF HandleEvent, OneUse, Resting, Quiet
<1>2. InOrder /\ \A i \in DOMAIN events : events[i].chan = k BY <1>1 DEF OneUse, UsedBy
<1>3. PICK h \in Kinds : h = Head(events).kind BY <1>1, <1>2, Handled
<1>4. /\ InOrder' /\ \A i \in DOMAIN events' : events'[i].chan = k
      /\ Due(h)
      /\ \A x \in Kinds : Due(x)' => Due(x) /\ Before(h, x)
      /\ \A x \in Kinds : Due(x) => x = h \/ Due(x)'
      /\ (\A x \in Kinds : ~Due(x)') => events' = <<>>
      /\ Head(events).chan = k
      BY <1>1, <1>2, <1>3, Handled DEF Rep
<1>5. UNCHANGED <<doorbird, call, pending, amiUp>> BY HandleEffect
<1>6. row \in MaybeRow /\ None \notin Row BY LineAssumption DEF TypeOK, MaybeRow, Row, Phases
<1>7. /\ h = "ring" => OnRing
      /\ h \in {"answered", "dialAnswer"} => OnAnswer
      /\ h = "dialBegin" => OnDialBegin(k)
      /\ h = "cleared" => IdleLine
      /\ h = "hangup" => OnHangup(k)
      BY <1>3, <1>4 DEF HandleEvent, Handle
<1>8. /\ \A p \in Panels : pending'[p] # "dial"
      /\ \A j \in Chans \ {k} : call'[j] = NoCall
      /\ doorChannels \subseteq {k}
      /\ Rung(k) \/ Dialled(k) \/ CalledBack(k) \/ Over(k)
      BY <1>1, <1>5 DEF UsedBy
<1>9. ASSUME doorChannels' \subseteq {k},
             Rung(k)' \/ Dialled(k)' \/ CalledBack(k)' \/ Over(k)'
      PROVE  OneUse'
  <2>1. UsedBy(k)' BY <1>4, <1>8, <1>9 DEF UsedBy
  <2> QED BY <1>4, <1>5, <2>1 DEF OneUse
<1>10. h \notin {"cleared", "hangup"} => /\ Goes(k) => Goes(k)'
                                         /\ Due("hangup") => Due("hangup")'
                                         /\ Due("cleared") => Due("cleared")'
      BY <1>4, <1>5 DEF Goes, Kinds, NoCall
<1>11. ASSUME Over(k), Due("cleared"), h \notin {"cleared", "hangup"} PROVE Over(k)'
      BY <1>5, <1>10, <1>11 DEF Over, NoCall
<1>12. CASE h = "ring"
  <2>1. row' = AfterRing(row) /\ doorChannels' = doorChannels BY <1>7, <1>12 DEF OnRing
  <2>2. ~Due("ring")' BY <1>4, <1>12 DEF Before, Rank, Kinds
  <2>3. CASE Rung(k)
    <3>1. PhaseOf(row) = "idle" BY <1>4, <1>12, <2>3 DEF Rung
    <3>2. row' = NewRow("ringing", None) BY <2>1, <3>1 DEF AfterRing
    <3>3. row' # None /\ row'.phase = "ringing"
      <4>1. row' \in Row BY <1>6, <2>1, BookTypes
      <4>2. NewRow("ringing", None).phase = "ringing" BY DEF NewRow
      <4> QED BY <1>6, <3>2, <4>1, <4>2
    <3>4. /\ ~Due("dialAnswer")'
          /\ (Due("answered") <=> Due("answered")')
          BY <1>4, <1>12, <2>3 DEF Rung, Kinds
    <3>5. ~(row # None /\ row.phase = "busy") BY <3>1 DEF PhaseOf, Looked, Expired
    <3>6. Rung(k)' BY <1>5, <1>10, <1>12, <2>2, <2>3, <3>3, <3>4, <3>5 DEF Rung
    <3> QED BY <1>8, <1>9, <2>1, <3>6
  <2>4. CASE ~Rung(k)
    <3>1. Over(k) /\ Due("cleared")
          BY <1>4, <1>8, <1>12, <2>4 DEF Dialled, CalledBack, Over, Kinds
    <3> QED BY <1>8, <1>9, <1>11, <1>12, <2>1, <3>1
  <2> QED BY <2>3, <2>4
<1>13. CASE h \in {"answered", "dialAnswer"}
  <2>1. row' = AfterBusy(row) /\ doorChannels' = doorChannels BY <1>7, <1>13 DEF OnAnswer
  <2>2. /\ ~Due("ring")' /\ ~Due("answered")' /\ ~Due("dialAnswer")' /\ ~Due("dialBegin")'
        /\ ~Due("ring") /\ ~Due("dialBegin")
        BY <1>4, <1>13 DEF Before, Rank, Kinds
  <2>3. /\ row' # None /\ row'.phase = "busy"
        /\ row # None => row'.holder = row.holder
    <3>1. row' \in Row /\ row'.phase = "busy" BY <1>6, <2>1, BookTypes
    <3>2. row # None => row'.holder = row.holder BY <2>1 DEF AfterBusy, NewRow
    <3> QED BY <1>6, <3>1, <3>2
  <2>4. CASE Rung(k)
    <3>1. Rung(k)' BY <1>5, <1>10, <1>13, <2>2, <2>3, <2>4 DEF Rung
    <3> QED BY <1>8, <1>9, <2>1, <3>1
  <2>5. CASE Dialled(k)
    <3>1. HeldBy(call[k].panel)' BY <1>5, <2>3, <2>5 DEF Dialled, HeldBy
    <3>2. Dialled(k)' BY <1>5, <1>10, <1>13, <2>1, <2>2, <2>3, <2>5, <3>1 DEF Dialled
    <3> QED BY <1>8, <1>9, <2>1, <3>2
  <2>6. CASE Over(k)
    <3>1. CASE Due("cleared") BY <1>8, <1>9, <1>11, <1>13, <2>1, <2>6, <3>1
    <3>2. CASE ~Due("cleared")
      <4>1. ~doorbird /\ (\E p \in Panels : HeldBy(p)) /\ doorChannels = {k}
            BY <1>4, <1>13, <2>2, <2>6, <3>2 DEF Over, Kinds
      <4>2. \E p \in Panels : HeldBy(p)' BY <2>3, <4>1 DEF HeldBy
      <4>3. Over(k)' BY <1>5, <1>10, <1>13, <2>1, <2>2, <2>6, <4>1, <4>2 DEF Over, NoCall
      <4> QED BY <1>8, <1>9, <2>1, <4>3
    <3> QED BY <3>1, <3>2
  <2> QED BY <1>4, <1>8, <1>13, <2>4, <2>5, <2>6 DEF CalledBack
<1>14. CASE h = "dialBegin"
  <2>1. doorChannels' = {k} /\ row' = row BY <1>7, <1>8, <1>14 DEF OnDialBegin
  <2>2. /\ ~Due("ring") /\ ~Due("ring")'
        /\ (Due("answered")' <=> Due("answered"))
        /\ (Due("dialAnswer")' <=> Due("dialAnswer"))
        BY <1>4, <1>14 DEF Before, Rank, Kinds
  <2>3. CASE Rung(k)
    <3>1. Rung(k)' BY <1>5, <1>10, <1>14, <2>1, <2>2, <2>3 DEF Rung
    <3> QED BY <1>9, <2>1, <3>1
  <2>4. CASE Dialled(k)
    <3>1. HeldBy(call[k].panel)' BY <1>5, <2>1, <2>4 DEF Dialled, HeldBy
    <3>2. Dialled(k)' BY <1>5, <1>10, <1>14, <2>1, <2>2, <2>4, <3>1 DEF Dialled
    <3> QED BY <1>9, <2>1, <3>2
  <2>5. CASE CalledBack(k)
    <3>1. CalledBack(k)' BY <1>5, <1>10, <1>14, <2>1, <2>2, <2>5 DEF CalledBack
    <3> QED BY <1>9, <2>1, <3>1
  <2>6. CASE Over(k)
    <3>1. CASE Due("cleared") BY <1>9, <1>11, <1>14, <2>1, <2>6, <3>1
    <3>2. CASE ~Due("cleared")
      <4>1. ~doorbird /\ \E p \in Panels : HeldBy(p)
            BY <1>4, <1>14, <2>6, <3>2 DEF Over, Kinds
      <4>2. \E p \in Panels : HeldBy(p)' BY <2>1, <4>1 DEF HeldBy
      <4>3. Over(k)' BY <1>5, <1>10, <1>14, <2>1, <2>2, <2>6, <4>1, <4>2 DEF Over, NoCall
      <4> QED BY <1>9, <2>1, <4>3
    <3> QED BY <3>1, <3>2
  <2> QED BY <1>8, <2>3, <2>4, <2>5, <2>6
<1>15. CASE h = "cleared"
  <2>1. row' = None /\ doorChannels' = {} BY <1>7, <1>15 DEF IdleLine
  <2>2. Over(k)
        BY <1>4, <1>8, <1>15 DEF Rung, Dialled, CalledBack, Goes
  <2>3. \A x \in Kinds : Due(x)' => x \in {"cleared", "hangup"}
        BY <1>4, <1>15 DEF Before, Rank, Kinds
  <2>4. Due("hangup")' BY <1>4, <1>15, <2>2 DEF Over, Kinds
  <2>5. Over(k)'
    <3>1. CASE Due("cleared")' BY <1>5, <2>2, <2>4, <3>1 DEF Over, NoCall
    <3>2. CASE ~Due("cleared")'
      <4>1. \A x \in Kinds \ {"hangup"} : ~Due(x)' BY <2>3, <3>2 DEF Kinds
      <4> QED BY <1>5, <2>1, <2>2, <2>4, <4>1 DEF Over, NoCall, Kinds
    <3> QED BY <3>1, <3>2
  <2> QED BY <1>9, <2>1, <2>5
<1>16. CASE h = "hangup"
  <2>1. \A x \in Kinds : ~Due(x)' BY <1>4, <1>16 DEF Before, Rank, Kinds
  <2>2. events' = <<>> /\ \A x \in Kinds \ {"hangup"} : ~Due(x) BY <1>4, <1>16, <2>1
  <2>3. Over(k) BY <1>4, <1>8, <1>16 DEF Rung, Dialled, CalledBack, Goes
  <2>4. row' = None /\ doorChannels' = {}
    <3>1. CASE row = None /\ doorChannels = {}
          BY <1>7, <1>16, <3>1 DEF OnHangup, LastNoted, Forget
    <3>2. CASE (\E p \in Panels : HeldBy(p)) /\ doorChannels = {k}
      <4>1. LastNoted(k) /\ Forget(k) = {} BY <3>2 DEF LastNoted, Forget
      <4>2. CASE HasHolder(row) BY <1>7, <1>16, <4>1, <4>2 DEF OnHangup, IdleLine
      <4>3. CASE ~HasHolder(row)
        <5>1. row.holder # None BY <3>2, LineAssumption DEF HeldBy
        <5>2. PhaseOf(row) = "idle" BY <4>3, <5>1 DEF HasHolder
        <5>3. Looked(row) = None
          <6>1. row # None /\ row.phase # "idle" BY <3>2 DEF HeldBy
          <6> QED BY <5>2, <6>1 DEF PhaseOf
        <5> QED BY <1>7, <1>16, <4>1, <4>3, <5>3 DEF OnHangup
      <4> QED BY <4>2, <4>3
    <3> QED BY <2>2, <2>3, <3>1, <3>2 DEF Over, Kinds
  <2>5. Quiet'
    <3>1. call[k] = NoCall BY <2>3 DEF Over
    <3>2. \A j \in Chans : call'[j] = NoCall BY <1>5, <1>8, <3>1
    <3> QED BY <2>2, <3>2 DEF Quiet, NoCalls, NoCall
  <2>6. Resting' BY <1>8, <2>4, <2>5 DEF Resting
  <2> QED BY <1>4, <1>5, <2>6 DEF OneUse
<1> QED BY <1>12, <1>13, <1>14, <1>15, <1>16 DEF Kinds

(* A request of a panel while a call uses the line leaves the row, as long as the
   book is not led to forget a caller. *)
LEMMA LoneKept ==
    ASSUME TypeOK, InOrder, amiUp, NEW k \in Chans, UsedBy(k),
           row' = row \/ (row # None /\ row.phase = "dialing" /\ ~row.old
                          /\ row' = [row EXCEPT !.old = TRUE]),
           \A p \in Panels : pending'[p] # "dial",
           UNCHANGED <<doorbird, doorChannels, call, events, amiUp>>
    PROVE  OneUse'
<1>1. /\ \A x : Due(x)' <=> Due(x)
      /\ InOrder'
      /\ call' = call /\ doorChannels' = doorChannels /\ doorbird' = doorbird
      BY DEF Due, InOrder, Before, Rank
<1>2. row \in MaybeRow /\ None \notin Row BY LineAssumption DEF TypeOK, MaybeRow, Row, Phases
<1>3. /\ row' = None <=> row = None
      /\ row # None => row'.phase = row.phase /\ row'.holder = row.holder
  <2>1. CASE row' = row BY <2>1
  <2>2. CASE row # None /\ row' = [row EXCEPT !.old = TRUE]
    <3>1. row \in Row BY <1>2, <2>2 DEF MaybeRow
    <3>2. row' \in Row BY <2>2, <3>1 DEF Row
    <3> QED BY <1>2, <2>2, <3>1, <3>2 DEF Row
  <2> QED BY <2>1, <2>2
<1>4. PhaseOf(row) = "idle" => PhaseOf(row)' = "idle"
  <2>1. CASE row' = row BY <2>1 DEF PhaseOf, Looked, Expired
  <2>2. CASE row # None /\ row.phase = "dialing" /\ ~row.old
        BY <2>2 DEF PhaseOf, Looked, Expired
  <2> QED BY <2>1, <2>2
<1>5. Goes(k) => Goes(k)' BY <1>1 DEF Goes, NoCall
<1>6. Rung(k) => Rung(k)' BY <1>1, <1>3, <1>4, <1>5 DEF Rung
<1>7. Dialled(k) => Dialled(k)'
  <2>1. HeldBy(call[k].panel) => HeldBy(call[k].panel)' BY <1>1, <1>3 DEF HeldBy
  <2> QED BY <1>1, <1>3, <1>5, <2>1 DEF Dialled
<1>8. CalledBack(k) => CalledBack(k)' BY <1>1, <1>3, <1>5 DEF CalledBack
<1>9. Over(k) => Over(k)'
  <2>1. \A p \in Panels : HeldBy(p) => HeldBy(p)' BY <1>3 DEF HeldBy
  <2> QED BY <1>1, <1>3, <2>1 DEF Over, NoCall
<1>10. UsedBy(k)' BY <1>1, <1>6, <1>7, <1>8, <1>9 DEF UsedBy
<1> QED BY <1>1, <1>10 DEF OneUse

(* The phases of the book. *)
LEMMA PhaseFacts ==
    /\ PhaseOf(row) = "idle" <=> (row = None \/ Expired(row) \/ row.phase = "idle")
    /\ ~Expired(row) /\ row # None => PhaseOf(row) = row.phase
    /\ Expired(row) => row # None /\ row.phase = "dialing" /\ Looked(row) = None
    /\ ~Expired(row) => Looked(row) = row
    /\ PhaseOf(row) = "dialing" => row # None /\ row.phase = "dialing"
BY DEF PhaseOf, Looked, Expired

(* While a call uses the line no claim is granted that would go unnoticed: its row
   refuses the claim, unless the ring is yet to be handled or the line is about to
   be freed. *)
LEMMA LoneRefuses ==
    ASSUME TypeOK, NEW k \in Chans, UsedBy(k), NEW p \in Panels, MayClaim(p), Unengaged(p),
           ~Expired(row)
    PROVE  /\ events # <<>>
           /\ Rung(k) => Due("ring") /\ row = None
           /\ ~Dialled(k) /\ ~CalledBack(k)
           /\ Over(k) /\ ~Due("cleared") /\ row # None => ~doorbird
<1>1. row \in MaybeRow BY DEF TypeOK, MaybeRow
<1>2. row # None => row.phase # "idle" BY <1>1 DEF MaybeRow, Row, Phases
<1>3. row = None \/ (row.phase = "dialing" /\ row.holder = p)
      BY <1>2, PhaseFacts DEF MayClaim
<1>4. Rung(k) => Due("ring") /\ row = None
  <2>1. ASSUME Rung(k), ~Due("ring") PROVE FALSE BY <1>3, <2>1 DEF Rung
  <2>2. ASSUME Rung(k), Due("ring"), row # None PROVE FALSE
        BY <1>3, <2>2, PhaseFacts DEF Rung
  <2> QED BY <2>1, <2>2
<1>5. ~Dialled(k) /\ ~CalledBack(k) BY <1>3 DEF Unengaged, Dialled, CalledBack, HeldBy
<1>6. Due("ring") \/ Due("hangup") BY <1>4, <1>5 DEF UsedBy, Over
<1>7. events # <<>> BY <1>6, DueFacts DEF Kinds
<1>8. Over(k) /\ ~Due("cleared") /\ row # None => ~doorbird BY DEF Over
<1> QED BY <1>4, <1>5, <1>7, <1>8

(* A claim is granted in a line that rests. *)
LEMMA LoneClaim ==
    ASSUME TypeOK, OneUse, clean', NEW p \in Panels, Claim(p)
    PROVE  OneUse'
<1>1. /\ MayClaim(p) /\ events = <<>> /\ Unengaged(p) /\ ~ForgetsCaller
      /\ row' = NewRow("dialing", p)
      /\ pending' = [pending EXCEPT ![p] = IF doorbird THEN "makecall" ELSE "dial"]
      /\ UNCHANGED <<doorbird, doorChannels, call, events, amiUp>>
      BY DEF Claim
<1>2. row \in MaybeRow /\ None \notin Row BY LineAssumption DEF TypeOK, MaybeRow, Row, Phases
<1>3. Resting
  <2> SUFFICES ASSUME NEW k \in Chans, UsedBy(k) PROVE FALSE
      BY DEF OneUse
  <2>1. ~Expired(row) BY InUse DEF Alone, ForgetsCaller, Claim
  <2> QED BY <1>1, <2>1, LoneRefuses
<1>4. row'# None /\ row'.phase = "dialing" /\ row'.holder = p
  <2>1. NewRow("dialing", p) \in Row BY DEF NewRow, Row, Phases
  <2> QED BY <1>1, <1>2, <2>1 DEF NewRow
<1>5. \A q \in Panels : q # p => pending[q] # "dial"
  <2>1. CASE Expired(row) BY <1>1, <2>1 DEF ForgetsCaller, Alone
  <2>2. CASE ~Expired(row)
    <3>1. row # None => row.holder = p
      <4>1. row # None => row.phase # "idle" BY <1>2 DEF MaybeRow, Row, Phases
      <4> QED BY <1>1, <2>2, <4>1, PhaseFacts DEF MayClaim
    <3> QED BY <1>3, <3>1 DEF Resting
  <2> QED BY <2>1, <2>2
<1>6. \A q \in Panels : pending'[q] = "dial" => q = p BY <1>1, <1>5 DEF TypeOK
<1>7. \A q \in Panels : pending'[q] = "dial" => ~doorbird'
      BY <1>1, <1>6 DEF TypeOK
<1>8. Quiet' BY <1>1, <1>3 DEF Resting, Quiet, NoCalls, NoCall
<1>9. Resting' BY <1>1, <1>3, <1>4, <1>6, <1>7, <1>8 DEF Resting
<1>10. InOrder' BY <1>1 DEF OneUse, InOrder, Before, Rank
<1> QED BY <1>1, <1>9, <1>10 DEF OneUse

(* A claim is taken back at once. *)
LEMMA LoneNoNumber ==
    ASSUME TypeOK, OneUse, clean', NEW p \in Panels, ClaimWithoutNumber(p)
    PROVE  OneUse'
<1>1. /\ doorbird /\ MayClaim(p) /\ Unengaged(p) /\ ~ForgetsCaller /\ row' = None
      /\ UNCHANGED <<doorbird, doorChannels, call, pending, events, amiUp>>
      BY DEF ClaimWithoutNumber
<1>2. row \in MaybeRow BY DEF TypeOK, MaybeRow
<1>3. InOrder' /\ amiUp' BY <1>1 DEF OneUse, InOrder, Before, Rank
<1>4. CASE Resting
  <2>1. \A q \in Panels : pending[q] # "dial" BY <1>1, <1>4 DEF Resting
  <2>2. Quiet' BY <1>1, <1>4 DEF Resting, Quiet, NoCalls, NoCall
  <2>3. Resting' BY <1>1, <1>4, <2>1, <2>2 DEF Resting
  <2> QED BY <1>3, <2>3 DEF OneUse
<1>5. ASSUME NEW k \in Chans, UsedBy(k) PROVE OneUse'
  <2>1. ~Expired(row) BY <1>1, <1>5, InUse DEF Alone, ForgetsCaller
  <2>2. CASE row = None
    <3>1. row' = row BY <1>1, <2>2
    <3> QED BY <1>1, <1>5, <3>1, LoneKept DEF OneUse, UsedBy
  <2>3. CASE row # None
    <3>1. Over(k) /\ Due("cleared")
          BY <1>1, <1>5, <2>1, <2>3, LoneRefuses DEF UsedBy, Over
    <3>2. \A x : Due(x)' <=> Due(x) BY <1>1 DEF Due
    <3>3. Over(k)' BY <1>1, <3>1, <3>2 DEF Over, NoCall
    <3>4. UsedBy(k)' BY <1>1, <1>5, <3>3 DEF UsedBy
    <3> QED BY <1>3, <3>4 DEF OneUse
  <2> QED BY <2>2, <2>3
<1> QED BY <1>4, <1>5 DEF OneUse

(* A claim is given up, lapses or gets old. *)
LEMMA LoneGivenUp ==
    ASSUME TypeOK, OneUse, clean, clean',
           \/ \E p \in Panels : \/ Release(p) \/ PanelVanishes(p)
                                \/ \E ok, calls \in BOOLEAN : MakeCallDone(p, ok, calls)
           \/ ReadPhase \/ ClaimAges
    PROVE  OneUse'
<1>1. UNCHANGED <<doorbird, doorChannels, call, events, amiUp>>
      BY DEF Release, PanelVanishes, MakeCallDone, ReadPhase, ClaimAges
<1>2. row \in MaybeRow /\ None \notin Row BY LineAssumption DEF TypeOK, MaybeRow, Row, Phases
<1>3. InOrder' /\ amiUp' BY <1>1 DEF OneUse, InOrder, Before, Rank
<1> DEFINE Ages == /\ row # None /\ row.phase = "dialing" /\ ~row.old
                   /\ row' = [row EXCEPT !.old = TRUE]
<1>4. ASSUME NEW k \in Chans, UsedBy(k) PROVE OneUse'
  <2>1. ~Quiet /\ \A p \in Panels : pending[p] # "dial" BY <1>4, InUse DEF UsedBy
  <2>2. \A p \in Panels : pending'[p] # "dial"
        BY <2>1 DEF Release, PanelVanishes, MakeCallDone, ReadPhase, ClaimAges, TypeOK
  <2>3. row' = row \/ Ages
    <3>1. ASSUME NEW p \in Panels, Release(p) PROVE row' = row
          BY <2>1, <3>1 DEF Release, ReleasesCaller
    <3>2. ASSUME NEW p \in Panels, PanelVanishes(p) PROVE row' = row
          BY <3>2 DEF PanelVanishes
    <3>3. ASSUME NEW p \in Panels, NEW ok \in BOOLEAN, NEW calls \in BOOLEAN,
                 MakeCallDone(p, ok, calls)
          PROVE  row' = row
      <4>1. CASE ok BY <3>3, <4>1 DEF MakeCallDone
      <4>2. CASE ~ok BY <2>1, <3>3, <4>2 DEF MakeCallDone, ReleasesCaller
      <4> QED BY <4>1, <4>2
    <3>4. ASSUME ReadPhase PROVE row' = row
          BY <2>1, <3>4, PhaseFacts DEF ReadPhase, ForgetsCaller, Alone
    <3>5. ASSUME ClaimAges PROVE Ages BY <3>5 DEF ClaimAges
    <3> QED BY <3>1, <3>2, <3>3, <3>4, <3>5
  <2> QED BY <1>1, <1>4, <2>2, <2>3, LoneKept DEF OneUse
<1>5. CASE Resting
  <2> DEFINE Calm == /\ row' = None \/ row'.phase = "dialing"
                     /\ \A q \in Panels : pending'[q] = "dial" =>
                           row' # None /\ row'.holder = q /\ ~doorbird
  <2>1. /\ row = None \/ row.phase = "dialing"
        /\ \A q \in Panels : pending[q] = "dial" =>
              row # None /\ row.holder = q /\ ~doorbird
        /\ Quiet
        BY <1>5 DEF Resting
  <2>2. ASSUME NEW p \in Panels, ReleaseLine(p),
               row' # row => row.holder = p \/ pending[row.holder] = "none",
               pending'[p] # "dial",
               \A q \in Panels : q # p => pending'[q] = pending[q]
        PROVE  Calm
    <3>1. CASE row' = row BY <2>1, <2>2, <3>1
    <3>2. CASE row' # row
      <4>1. row' = None /\ row # None
            BY <2>2, <3>2, PhaseFacts DEF ReleaseLine, MayRelease
      <4>2. \A q \in Panels : pending'[q] # "dial" BY <2>1, <2>2, <3>2, <4>1
      <4> QED BY <4>1, <4>2
    <3> QED BY <3>1, <3>2
  <2>3. ASSUME NEW p \in Panels, Release(p) PROVE Calm
    <3>1. row' # row => row.holder = p \/ pending[row.holder] = "none"
          BY <2>3 DEF Release, ReleasesCaller
    <3>2. /\ ReleaseLine(p) /\ pending'[p] # "dial"
          /\ \A q \in Panels : q # p => pending'[q] = pending[q]
          BY <2>3 DEF Release, TypeOK
    <3> QED BY <2>2, <3>1, <3>2
  <2>4. ASSUME NEW p \in Panels, PanelVanishes(p) PROVE Calm
    <3>1. \A q \in Panels : pending'[q] = "dial" => pending[q] = "dial"
          BY <2>4 DEF PanelVanishes, TypeOK
    <3> QED BY <2>1, <2>4, <3>1 DEF PanelVanishes
  <2>5. ASSUME NEW p \in Panels, NEW ok \in BOOLEAN, NEW calls \in BOOLEAN,
               MakeCallDone(p, ok, calls)
        PROVE  Calm
    <3>1. /\ pending'[p] # "dial"
          /\ \A q \in Panels : q # p => pending'[q] = pending[q]
          BY <2>5 DEF MakeCallDone, TypeOK
    <3>2. CASE ok
      <4>1. row' = row BY <2>5, <3>2 DEF MakeCallDone
      <4> QED BY <2>1, <3>1, <4>1
    <3>3. CASE ~ok
      <4>1. /\ ReleaseLine(p)
            /\ row' # row => row.holder = p \/ pending[row.holder] = "none"
            BY <2>5, <3>3 DEF MakeCallDone, ReleasesCaller
      <4> QED BY <2>2, <3>1, <4>1
    <3> QED BY <3>2, <3>3
  <2>6. ASSUME ReadPhase PROVE Calm
    <3>1. row' = Looked(row) /\ pending' = pending BY <2>6 DEF ReadPhase
    <3>2. Expired(row) => \A q \in Panels : pending[q] # "dial"
          BY <2>6 DEF ReadPhase, ForgetsCaller, Alone
    <3> QED BY <2>1, <3>1, <3>2, PhaseFacts
  <2>7. ASSUME ClaimAges PROVE Calm
    <3>1. row' = [row EXCEPT !.old = TRUE] /\ pending' = pending /\ row \in Row
          BY <1>2, <2>7 DEF ClaimAges, MaybeRow
    <3>2. row' \in Row /\ row'.phase = row.phase /\ row'.holder = row.holder
          BY <3>1 DEF Row
    <3> QED BY <1>2, <2>1, <3>1, <3>2
  <2>8. Calm BY <2>3, <2>4, <2>5, <2>6, <2>7
  <2>9. Quiet' BY <1>1, <2>1 DEF Quiet, NoCalls, NoCall
  <2>10. Resting' BY <1>1, <1>5, <2>8, <2>9 DEF Resting
  <2> QED BY <1>3, <2>10 DEF OneUse
<1> QED BY <1>4, <1>5 DEF OneUse

(* Every step keeps the invariant; one that ends `clean` has nothing to keep. *)
LEMMA LoneStep == TypeOK /\ LoneInv /\ [Next]_vars => LoneInv'
<1> SUFFICES ASSUME TypeOK, LoneInv, [Next]_vars, clean' PROVE OneUse'
    BY DEF LoneInv
<1>1. clean /\ ~AmiDrops
  <2>1. CASE CallStep
    BY <2>1 DEF CallStep, PressButton, AnswerRing, PanelDials, DoorCallsBack, RingTimesOut,
                FarEndAnswers, HangUp, AmiDrops
  <2>2. CASE HandleEvent BY <2>2 DEF HandleEvent, AmiDrops
  <2>3. CASE AmiDrops BY <2>3 DEF AmiDrops
  <2>4. CASE AmiReconnects BY <2>4 DEF AmiReconnects, AmiDrops
  <2>5. CASE RouteStep
    <3>1. ASSUME NEW p \in Panels, NEW ok \in BOOLEAN, NEW calls \in BOOLEAN,
                 MakeCallDone(p, ok, calls)
          PROVE  clean
      <4>1. CASE ok BY <3>1, <4>1 DEF MakeCallDone
      <4>2. CASE ~ok BY <3>1, <4>2 DEF MakeCallDone
      <4> QED BY <4>1, <4>2
    <3>2. clean BY <2>5, <3>1 DEF RouteStep, Claim, ClaimWithoutNumber, Release, PanelVanishes,
                               ReadPhase, ClaimAges
    <3> QED BY <3>2 DEF AmiDrops
  <2>6. CASE UNCHANGED vars BY <2>6 DEF vars, AmiDrops
  <2> QED BY <2>1, <2>2, <2>3, <2>4, <2>5, <2>6, NextGroups
<1>2. OneUse BY <1>1 DEF LoneInv
<1>3. CASE CallStep
      BY <1>2, <1>3, LonePress, LoneDial, LoneAnswer, LoneEnd, LoneFarEnd DEF CallStep
<1>4. CASE HandleEvent BY <1>2, <1>4, LoneHandle
<1>5. CASE AmiReconnects BY <1>2, <1>5 DEF AmiReconnects, OneUse
<1>6. CASE RouteStep
  BY <1>1, <1>2, <1>6, LoneClaim, LoneNoNumber, LoneGivenUp DEF RouteStep
<1>7. CASE UNCHANGED vars
  <2>1. \A x : Due(x)' <=> Due(x) BY <1>7 DEF vars, Due
  <2>2. InOrder' /\ amiUp' BY <1>2, <1>7 DEF vars, OneUse, InOrder, Before, Rank
  <2>3. Resting => Resting' BY <1>7 DEF vars, Resting, Quiet, NoCalls, NoCall
  <2>4. ASSUME NEW k \in Chans, UsedBy(k) PROVE OneUse'
        BY <1>2, <1>7, <2>4, LoneKept DEF vars, OneUse, UsedBy
  <2> QED BY <1>2, <2>2, <2>3, <2>4 DEF OneUse
<1> QED BY <1>1, <1>3, <1>4, <1>5, <1>6, <1>7, NextGroups

(* As long as one call at a time uses the line, it is free when the call is over and
   its reports were handled, refuses every second party while somebody talks, and is
   busy as soon as the conversation is reported (lineState.ts, onAmiEvent): for any
   panels, channels, queue of reports and order of the panels' requests among them. *)
THEOREM LoneCallAlwaysSound == Spec => []LoneCallSound
<1>1. Init => LoneInv
  <2> SUFFICES ASSUME Init PROVE OneUse
      BY DEF LoneInv
  <2>1. DOMAIN events = {} BY EmptySeq DEF Init
  <2> QED BY <2>1 DEF Init, OneUse, InOrder, Resting, Quiet, NoCalls
<1>2. TypeOK /\ LoneInv => LoneCallSound
  <2> SUFFICES ASSUME TypeOK, OneUse
               PROVE  FreedAfterHangup /\ NoSecondParty
                      /\ (events = <<>> => \A k \in Chans :
                            Talking(k) /\ call[k].kind # "callback" =>
                                row # None /\ row.phase = "busy")
      BY DEF LoneInv, LoneCallSound, FreedAfterLoneCall, NoSecondPartyToLoneCall,
             BusyWhileTalking
  <2>1. FreedAfterHangup
        BY InUse DEF FreedAfterHangup, OneUse, Resting
  <2>2. \A k \in Chans : Talking(k) => call[k] # NoCall BY DEF Talking, NoCall
  <2>3. ASSUME NEW k \in Chans, Talking(k)
        PROVE  /\ UsedBy(k) /\ (Rung(k) \/ Dialled(k) \/ CalledBack(k))
               /\ \A j \in Chans : Talking(j) => j = k
    <3>1. UsedBy(k) /\ call[k] # NoCall BY <2>2, <2>3, InUse
    <3> QED BY <2>2, <3>1 DEF UsedBy, Over
  <2>4. ASSUME row # None, row.phase = "dialing", ~row.old, NEW k \in Chans, Talking(k)
        PROVE  call[k].panel = row.holder
    <3>1. ~Rung(k)
      <4>1. PhaseOf(row) # "idle" BY <2>4 DEF PhaseOf, Looked, Expired
      <4> QED BY <2>4, <4>1 DEF Rung
    <3> QED BY <2>3, <2>4, <3>1 DEF Dialled, CalledBack, HeldBy
  <2>5. ASSUME events = <<>>, NEW k \in Chans, Talking(k), call[k].kind # "callback"
        PROVE  row # None /\ row.phase = "busy"
    <3>1. ~Due("answered") /\ ~Due("dialAnswer") BY <2>5, DueFacts DEF Kinds
    <3> QED BY <2>3, <2>5, <3>1 DEF Rung, Dialled, CalledBack, Talking, HeldBy
  <2> QED BY <2>1, <2>4, <2>5 DEF NoSecondParty
<1> QED BY <1>1, <1>2, LoneStep, LineTyped, PTL DEF Spec
===============================================================================
