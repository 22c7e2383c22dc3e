----------------------------- MODULE SatelBridge ------------------------------
(* The service that speaks with the alarm panel (satel/protocol.py and          *)
(* satel/app.py): one TCP session on which the poller, the commands of the app  *)
(* and the reading of names take turns, and what is shown of the armed          *)
(* partitions.  Answers come in the order of the requests and carry no mark of  *)
(* the request they belong to.                                                  *)
(* One partition, two of the four arm modes, two slots with names; the other    *)
(* queries go the way of these, and eight slots in a row without an answer,     *)
(* which end a reading, are left out.  The panel is external.                   *)
EXTENDS Naturals, Sequences

CONSTANTS
    Modes,     \* arm modes: one query, and one armed set, for each
    MaxSlot,   \* the name slots of the panel are 1..MaxSlot, all of them with a name
    MaxWire,   \* bound: requests and answers under way
    MaxChanges,  \* bound: how often the panel changes
    None

SatelAssumption ==
    /\ {MaxSlot, MaxWire, MaxChanges} \subseteq Nat /\ MaxSlot > 0
    /\ None \notin Modes /\ \E a, b \in Modes : a # b /\ Modes = {a, b}

VARIABLES
    encrypted,   \* is there an integration key?
    up,          \* _connected
    sent,        \* requests the panel has not looked at
    link,        \* its answers, not yet read
    holders,     \* who has _io_lock: the poller, a reading of a name, an order
    query,       \* the poller's next query on an encrypted session
    byCmd,       \* _armed_by_cmd: mode -> is the partition in it? or None
    armed,       \* is the partition in partitions_armed?
    slot,        \* read_panel_layout: the slot it is at, or None
    found,       \* the slots whose name it has
    layout,      \* what the last reading of the session gave, or None
    panel,       \* the mode the partition is armed in, or None
    changes,
    stale,       \* history: the modes not answered since the panel or the session changed
    slow         \* history: did this reading get an answer that was not its own, or none in time?

vars == <<encrypted, up, sent, link, holders, query, byCmd,
          armed, slot, found, layout, panel, changes, stale, slow>>
wire == <<sent, link, holders, query>>
shown == <<byCmd, armed>>
reading == <<slot, found, layout, slow>>
truth == <<panel, changes, stale>>

Slots == 1..MaxSlot
Ask(m) == [kind |-> "query", of |-> m]
AskName(n) == [kind |-> "name", of |-> n]
Order(m) == [kind |-> "order", of |-> m]   \* arm in m, or disarm
Room(n) == Len(sent) + Len(link) + n <= MaxWire

TypesOK ==
    /\ encrypted \in BOOLEAN /\ up \in BOOLEAN
    /\ Len(sent) + Len(link) <= MaxWire
    /\ holders \subseteq {"poll", "name", "order"} /\ (holders # {} => up)
    /\ query \in Modes
    /\ byCmd \in [Modes -> BOOLEAN \cup {None}] /\ armed \in BOOLEAN
    /\ slot \in Slots \cup {None} /\ found \subseteq Slots /\ slow \in BOOLEAN
    /\ layout \in [found : SUBSET Slots, slow : BOOLEAN] \cup {None}
    /\ panel \in Modes \cup {None} /\ changes \in 0..MaxChanges /\ stale \subseteq Modes

Init ==
    /\ encrypted \in BOOLEAN
    /\ up = FALSE /\ sent = <<>> /\ link = <<>> /\ holders = {}
    /\ query = CHOOSE m \in Modes : TRUE
    /\ byCmd = [m \in Modes |-> None] /\ armed = FALSE
    /\ slot = None /\ found = {} /\ layout = None /\ slow = FALSE
    /\ panel \in Modes \cup {None} /\ changes = 0 /\ stale = Modes

-----------------------------------------------------------------------------
SessionOver ==
    /\ up' = FALSE /\ sent' = <<>> /\ link' = <<>> /\ holders' = {}
    /\ slot' = None /\ found' = {} /\ slow' = FALSE /\ layout' = None

(* _apply_config, after a save (SatelConfig): another client, with a state of  *)
(* its own.                                                                    *)
Reload ==
    /\ SessionOver
    /\ byCmd' = [m \in Modes |-> None] /\ armed' = FALSE /\ stale' = Modes
    /\ UNCHANGED <<encrypted, query, panel, changes>>

-----------------------------------------------------------------------------
(* _session: the answers by mode are forgotten, what is shown is not.         *)
Connect ==
    /\ ~up /\ up' = TRUE
    /\ byCmd' = [m \in Modes |-> None]
    /\ query' = CHOOSE m \in Modes : TRUE
    /\ stale' = Modes
    /\ UNCHANGED <<encrypted, sent, link, holders, armed, reading, panel, changes>>

Lose ==
    /\ up /\ SessionOver
    /\ UNCHANGED <<encrypted, query, shown, truth>>

(* Mutant: the last answer counts, for whichever mode.                        *)
LastMode(by, m) == by[m] = TRUE

(* _update_armed: in any mode.                                                *)
Union(by, m) == \E k \in Modes : by[k] = TRUE

(* _handle_frame                                                              *)
Handled(a) ==
    IF a.kind = "query"
    THEN /\ byCmd' = [byCmd EXCEPT ![a.of] = a.is]
         /\ armed' = Union(byCmd', a.of)
         /\ stale' = IF a.fresh THEN stale \ {a.of} ELSE stale
    ELSE UNCHANGED <<byCmd, armed, stale>>

(* _poll_plain: every query at once, then what comes within 0.8 s.            *)
Queries == CHOOSE s \in [1..2 -> Modes] : \A m \in Modes : \E i \in 1..2 : s[i] = m
PollPlain ==
    /\ up /\ ~encrypted /\ holders = {} /\ Room(2)
    /\ holders' = holders \cup {"poll"}
    /\ sent' = sent \o <<Ask(Queries[1]), Ask(Queries[2])>>
    /\ UNCHANGED <<encrypted, up, link, query, shown, reading, truth>>

PollReads ==
    /\ up /\ ~encrypted /\ "poll" \in holders /\ link # <<>>
    /\ Handled(Head(link)) /\ link' = Tail(link)
    /\ UNCHANGED <<encrypted, up, sent, holders, query, reading, panel, changes>>

PollEnds ==
    /\ up /\ ~encrypted /\ "poll" \in holders
    /\ holders' = holders \ {"poll"}
    /\ UNCHANGED <<encrypted, up, sent, link, query, shown, reading, truth>>

(* _poll_encrypted: one exchange for each query.                              *)
PollEncrypted ==
    /\ up /\ encrypted /\ holders = {} /\ Room(1)
    /\ holders' = holders \cup {"poll"} /\ sent' = Append(sent, Ask(query))
    /\ UNCHANGED <<encrypted, up, link, query, shown, reading, truth>>

PollAnswered ==
    /\ up /\ encrypted /\ "poll" \in holders /\ link # <<>>
    /\ Handled(Head(link)) /\ link' = Tail(link)
    /\ holders' = holders \ {"poll"}
    /\ query' = CHOOSE m \in Modes : m # query
    /\ UNCHANGED <<encrypted, up, sent, reading, panel, changes>>

(* 10 s without an answer: the session is given up.                           *)
PollTimesOut ==
    /\ encrypted /\ "poll" \in holders
    /\ SessionOver
    /\ UNCHANGED <<encrypted, query, shown, truth>>

-----------------------------------------------------------------------------
(* arm, disarm: on a plain session the result is left on the line.            *)
OrderPlain(m) ==
    /\ up /\ ~encrypted /\ holders = {} /\ Room(1)
    /\ sent' = Append(sent, Order(m))
    /\ UNCHANGED <<encrypted, up, link, holders, query, shown, reading, truth>>

OrderEncrypted(m) ==
    /\ up /\ encrypted /\ holders = {} /\ Room(1)
    /\ holders' = holders \cup {"order"} /\ sent' = Append(sent, Order(m))
    /\ UNCHANGED <<encrypted, up, link, query, shown, reading, truth>>

(* The result; or 10 s are over, which fails the order and nothing else.      *)
OrderEnds ==
    /\ up /\ "order" \in holders /\ holders' = holders \ {"order"}
    /\ \/ link # <<>> /\ Handled(Head(link)) /\ link' = Tail(link)
       \/ UNCHANGED <<link, byCmd, armed, stale>>
    /\ UNCHANGED <<encrypted, up, sent, query, reading, panel, changes>>

(* The panel does what it is asked, in order.                                 *)
PanelAnswers ==
    /\ up /\ sent # <<>>
    /\ LET r == Head(sent)
           change == r.kind = "order" /\ r.of # panel /\ changes < MaxChanges
       IN  /\ panel' = IF change THEN r.of ELSE panel
           /\ changes' = IF change THEN changes + 1 ELSE changes
           /\ stale' = IF change THEN Modes ELSE stale
           /\ link' = [i \in DOMAIN link |->
                          IF change THEN [link[i] EXCEPT !.fresh = FALSE] ELSE link[i]]
                      \o <<[kind |-> r.kind, of |-> r.of, fresh |-> TRUE,
                            is |-> r.kind = "query" /\ r.of = panel]>>
    /\ sent' = Tail(sent)
    /\ UNCHANGED <<encrypted, up, holders, query, shown, reading>>

(* Somebody arms or disarms at a keypad.                                      *)
PanelChanges(m) ==
    /\ m # panel /\ changes < MaxChanges
    /\ panel' = m /\ changes' = changes + 1 /\ stale' = Modes
    /\ link' = [i \in DOMAIN link |-> [link[i] EXCEPT !.fresh = FALSE]]
    /\ UNCHANGED <<encrypted, up, sent, holders, query, shown, reading>>

-----------------------------------------------------------------------------
(* get_discover: one at a time.                                               *)
DiscoverStarts ==
    /\ up /\ slot = None
    /\ slot' = 1 /\ found' = {}
    /\ slow' = FALSE /\ layout' = None
    /\ UNCHANGED <<encrypted, up, wire, shown, truth>>

(* Mutant: a name is asked for beside the poller.                             *)
MayAskNameAnyTime == holders \subseteq {"poll"}

(* _request, which waits for _io_lock.                                        *)
MayAskName == holders = {}

NameAsked ==
    /\ up /\ slot # None /\ MayAskName /\ Room(1)
    /\ holders' = holders \cup {"name"} /\ sent' = Append(sent, AskName(slot))
    /\ UNCHANGED <<encrypted, up, link, query, shown, reading, truth>>

(* The next slot, or the end of it: what was found is the answer.              *)
Goes ==
    /\ slot' = IF slot + 1 \in Slots THEN slot + 1 ELSE None
    /\ layout' = IF slot + 1 \in Slots THEN layout ELSE [found |-> found', slow |-> slow']

(* A result, also that of another request, is an unused slot; a name counts   *)
(* for the slot it carries.  On a plain session what comes before it is       *)
(* handled, and what was read together with it is dropped.                    *)
NameAnswered ==
    /\ up /\ "name" \in holders /\ link # <<>>
    /\ LET a == Head(link)
       IN  /\ Handled(a)
           /\ IF a.kind = "query" /\ ~encrypted
              THEN link' = Tail(link) /\ UNCHANGED <<holders, slot, found, slow, layout>>
              ELSE /\ \E k \in 1..(IF encrypted THEN 1 ELSE Len(link)) :
                         link' = SubSeq(link, k + 1, Len(link))
                   /\ found' = IF a.kind = "name" THEN found \cup {a.of} ELSE found
                   /\ slow' = (slow \/ a.kind # "name" \/ a.of # slot)
                   /\ holders' = holders \ {"name"} /\ Goes
    /\ UNCHANGED <<encrypted, up, sent, query, panel, changes>>

(* 1.5 s without it: the slot is passed over; an encrypted exchange fails the *)
(* whole reading after 10 s.                                                  *)
NameTimesOut ==
    /\ up /\ "name" \in holders
    /\ holders' = holders \ {"name"} /\ UNCHANGED found
    /\ slow' = (slow \/ sent # <<>> \/ link # <<>>)
    /\ IF encrypted THEN slot' = None /\ UNCHANGED layout ELSE Goes
    /\ UNCHANGED <<encrypted, up, sent, link, query, shown, truth>>

Next ==
    \/ Reload \/ Connect \/ Lose
    \/ PollPlain \/ PollReads \/ PollEnds \/ PollEncrypted \/ PollAnswered \/ PollTimesOut
    \/ OrderEnds \/ PanelAnswers \/ DiscoverStarts \/ NameAsked \/ NameAnswered \/ NameTimesOut
    \/ \E m \in Modes \cup {None} : OrderPlain(m) \/ OrderEncrypted(m) \/ PanelChanges(m)

Spec == Init /\ [][Next]_vars

-----------------------------------------------------------------------------
(* What is shown as armed is what the panel is, once every mode was answered   *)
(* since the panel, or the session, last changed.                              *)
ShownFollowsPanel == up /\ stale = {} => armed = (panel # None)

(* A reading that came to its end, and got its own answers in time, has every  *)
(* name of the panel: the poller never takes one away.                         *)
LayoutWhole == layout # None => layout.slow \/ layout.found = Slots

SatelSound == ShownFollowsPanel /\ LayoutWhole

(* While a session lasts a partition that is armed is not shown as disarmed.   *)
(* It is, after a reconnect: the first mode answered is taken for all of them. *)
NeverFalselyDisarmed == [][up /\ up' /\ armed /\ ~armed' => panel = None]_vars
=============================================================================
