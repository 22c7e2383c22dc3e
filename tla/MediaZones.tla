---------------------------- MODULE MediaZones ----------------------------
(* The media manager (media/manager.ts): one driver and one cached state   *)
(* per Sonos or Bluesound device of the house, the group map the app's     *)
(* grouping writes and the 3-second tick corrects from what the speakers   *)
(* report, and the volume of a zone and of a group.  Polls, group calls    *)
(* and volume writes are awaited, so each is a start and an end with       *)
(* anything in between: what a speaker answered may be stored after what   *)
(* it answered later, for a round of polls begins every 3 seconds whether  *)
(* or not the last one is in.  A state is cut down to its volume, the zone *)
(* its URI names and the group fields; what plays is in MediaSkip.         *)
EXTENDS Integers, FiniteSets, FiniteSetsExt, Functions

CONSTANTS
    Sonos, Bluesound,   \* the speakers there may be
    Houses,             \* the sets of them a configuration may hold
    Levels,             \* the volumes a user asks for
    Volume0,            \* the volume each speaker starts at
    MaxMoves,           \* bound: requests, saves and failures of a behaviour
    Rounds,             \* bound: the poll rounds under way at the same time
    MaxPolls,           \* bound: answers that are not stored at once, at the same time
    None

MediaAssumption ==
    /\ MaxMoves \in Nat /\ MaxPolls \in Nat
    /\ Sonos \cap Bluesound = {}
    /\ None \notin Sonos \cup Bluesound \cup Rounds /\ \A S \in SUBSET (Sonos \cup Bluesound) : S # None
    /\ Houses \subseteq SUBSET (Sonos \cup Bluesound)
    /\ Levels \subseteq 0..100 /\ Volume0 \in [Sonos \cup Bluesound -> 0..100]

Zones == Sonos \cup Bluesound

VARIABLES
    drivers,            \* drivers
    view,               \* states: what the app is told
    groupMap,           \* groupMap: member -> coordinator
    uuidTried,          \* sonosUuidFetched
    uuidKnown,          \* sonosUuidToId
    hw,                 \* the speakers: whom they follow and how loud they are
    polls,              \* answers to polls, not yet stored
    joins,              \* group calls that await a speaker
    writes,             \* volume writes that await a speaker
    left,               \* of each round the zones yet to answer; None: no such round
    asks,               \* of each round the zone whose UUID it awaits, or None
    calm,               \* history: nothing but rounds since they all began?
    moves               \* how much was done so far, for the bound

vars == <<drivers, view, groupMap, uuidTried, uuidKnown, hw, polls, joins,
          writes, left, asks, calm, moves>>

(* lead: the zone that the URI names, itself when it plays its own; None       *)
(* without a URI.                                                            *)
Base == [online |-> FALSE, lead |-> None, vol |-> None, role |-> "none",
         coord |-> None, members |-> {}, gvol |-> None]

(* A map with x under key d (Map.set).                                      *)
With(f, d, x) == [i \in DOMAIN f \cup {d} |-> IF i = d THEN x ELSE f[i]]

-----------------------------------------------------------------------------
(* The group fields *)

MembersOf(gm, c) == {m \in DOMAIN gm : gm[m] = c}
Grouped(gm, d) == d \in DOMAIN gm \/ MembersOf(gm, d) # {}
GroupIds(gm, d) ==
    LET c == IF d \in DOMAIN gm THEN gm[d] ELSE d IN {c} \cup MembersOf(gm, c)

VolumeOf(vw, d) ==
    IF d \in DOMAIN vw /\ vw[d].vol # None THEN vw[d].vol ELSE 0
GroupVolumeOf(vw, ids) == Max({VolumeOf(vw, i) : i \in ids})

(* Mutant: a zone that leaves its group keeps the coordinator it had.      *)
KeepsCoordinator(vw, gm, d, state) ==
    IF d \in DOMAIN gm
      THEN [state EXCEPT !.role = "member", !.coord = gm[d], !.members = {}]
    ELSE IF MembersOf(gm, d) # {}
      THEN [state EXCEPT !.role = "coordinator", !.members = MembersOf(gm, d)]
    ELSE [state EXCEPT !.role = "standalone", !.members = {}, !.gvol = None]

(* _applyGroupFields on a state of zone d that is about to be stored.      *)
ApplyGroupFields(vw, gm, d, state) ==
    LET seen == IF state.vol = None THEN vw ELSE With(vw, d, state)
        loud == GroupVolumeOf(seen, GroupIds(gm, d))
    IN IF d \in DOMAIN gm
         THEN [state EXCEPT !.role = "member", !.coord = gm[d],
                            !.members = {}, !.gvol = loud]
       ELSE IF MembersOf(gm, d) # {}
         THEN [state EXCEPT !.role = "coordinator", !.coord = None,
                            !.members = MembersOf(gm, d), !.gvol = loud]
       ELSE [state EXCEPT !.role = "standalone", !.coord = None,
                          !.members = {}, !.gvol = None]

(* _applyGroupState: every state is stored again under the new group map.  *)
ApplyGroupState(vw, gm) ==
    [d \in DOMAIN vw |-> ApplyGroupFields(vw, gm, d, vw[d])]

-----------------------------------------------------------------------------
Init ==
    /\ drivers \in Houses
    /\ view = [d \in drivers |-> Base]
    /\ groupMap = [d \in {} |-> None]
    /\ uuidTried = {} /\ uuidKnown = {}
    /\ hw = [d \in Zones |-> [lead |-> None, vol |-> Volume0[d]]]
    /\ polls = {} /\ joins = {} /\ writes = {}
    /\ left = [r \in Rounds |-> None] /\ asks = [r \in Rounds |-> None]
    /\ calm = "no" /\ moves = 0

Counted == moves < MaxMoves /\ moves' = moves + 1
Move == Counted /\ calm' = "no"
Works(ok) == IF ok THEN UNCHANGED moves ELSE Counted

(* rebuild after a save: a driver per zone of the new house, kept when its *)
(* address is the same; a zone that left takes its driver and state along, *)
(* and nothing else.                                                       *)
Rebuild(house, moved) ==
    LET kept == (house \cap drivers) \ moved IN
    /\ moved \subseteq house \cap drivers \cap Sonos
    /\ house # drivers \/ moved # {}
    /\ drivers' = house
    /\ view' = [d \in house \cup (DOMAIN view \ drivers) |->
                  IF d \in house \ kept THEN Base ELSE view[d]]
    /\ Move
    /\ UNCHANGED <<groupMap, uuidTried, uuidKnown, hw, polls, joins, writes, left, asks>>

(* poll: a speaker that does not answer reads as offline, without a volume *)
(* and without a URI.  Of one that answers, the query of the volume or of  *)
(* the track, which has the URI, may still fail.  Only a Sonos has a URI.  *)
Uri(d) == IF d \in Bluesound THEN None ELSE IF hw[d].lead = None THEN d ELSE hw[d].lead
Answer(u, v) == [Base EXCEPT !.online = TRUE, !.lead = u, !.vol = v]
Whole(d) == Answer(Uri(d), hw[d].vol)
Replies(d) == {Base} \cup {Answer(u, v) : u \in {Uri(d), None}, v \in {hw[d].vol, None}}

(* setInterval: every driver is polled, whatever rounds are under way.     *)
TickStarts(r) ==
    /\ left[r] = None
    /\ left' = [left EXCEPT ![r] = drivers]
    /\ calm' = IF polls \cup joins \cup writes = {} /\ \A q \in Rounds : left[q] = None
               THEN "polling" ELSE calm
    /\ UNCHANGED <<drivers, view, groupMap, uuidTried, uuidKnown, hw, polls,
                   joins, writes, asks, moves>>

(* An answer is stored by the rest of pollOne, at once or later, whatever   *)
(* happened meanwhile; then the shown groups may differ from what the last *)
(* round left.                                                             *)
Stored(d, reply) ==
    view' = With(view, d, ApplyGroupFields(view, groupMap, d, reply))
Stirred == calm' = IF calm = "synced" THEN "polling" ELSE calm

RoundPolls(r, d, reply) ==
    /\ left[r] # None /\ d \in left[r] /\ reply \in Replies(d)
    /\ left' = [left EXCEPT ![r] = @ \ {d}]
    /\ \/ Stored(d, reply) /\ Stirred /\ UNCHANGED polls
       \/ /\ Cardinality(polls) < MaxPolls
          /\ polls' = polls \cup {[zone |-> d, round |-> r, reply |-> reply]}
          /\ UNCHANGED <<view, calm>>
    /\ Works(reply = Whole(d))
    /\ UNCHANGED <<drivers, groupMap, uuidTried, uuidKnown, hw, joins, writes, asks>>

(* The poll a command asks for some hundreds of milliseconds later.         *)
RePolls(d, reply) ==
    /\ d \in drivers /\ reply \in Replies(d)
    /\ Cardinality(polls) < MaxPolls
    /\ polls' = polls \cup {[zone |-> d, round |-> None, reply |-> reply]}
    /\ Move
    /\ UNCHANGED <<drivers, view, groupMap, uuidTried, uuidKnown, hw, joins, writes, left, asks>>

PollEnds(p) ==
    /\ polls' = polls \ {p} /\ Stored(p.zone, p.reply)
    /\ Stirred
    /\ UNCHANGED <<drivers, groupMap, uuidTried, uuidKnown, hw, joins, writes, left, asks, moves>>

(* Mutant: the round adds members and takes nobody out of a group.         *)
OnlyAdds(vw, gm, known) ==
    LET named(d) == d \in DOMAIN vw /\ vw[d].lead \in known \ {d}
    IN [d \in DOMAIN gm \cup {z \in Zones : named(z)} |->
          IF named(d) THEN vw[d].lead ELSE gm[d]]

(* A zone whose URI names a known coordinator is its member; one with a    *)
(* URI of its own, or without one, is nobody's.                            *)
Synced(vw, gm, known) ==
    LET follows(d) == d \in DOMAIN vw /\ vw[d].lead \notin {None, d}
        named(d) == follows(d) /\ vw[d].lead \in known
        keeps(d) == d \in DOMAIN gm /\ (follows(d) \/ d \notin DOMAIN vw)
    IN [d \in {z \in Zones : named(z) \/ keeps(z)} |->
          IF named(d) THEN vw[d].lead ELSE gm[d]]

(* _syncSonosGroups, once every poll of the round is in: first the UUIDs   *)
(* that no round has asked for, one after the other.                       *)
Polled(r) == left[r] = {} /\ asks[r] = None /\ \A p \in polls : p.round # r

AsksUuid(r, d) ==
    /\ Polled(r) /\ d \in (drivers \cap Sonos) \ uuidTried
    /\ uuidTried' = uuidTried \cup {d} /\ asks' = [asks EXCEPT ![r] = d]
    /\ UNCHANGED <<drivers, view, groupMap, uuidKnown, hw, polls, joins, writes, left, calm, moves>>

UuidAnswered(r, ok) ==
    /\ asks[r] # None /\ asks' = [asks EXCEPT ![r] = None]
    /\ uuidKnown' = IF ok THEN uuidKnown \cup {asks[r]} ELSE uuidKnown
    /\ Stirred /\ Works(ok)
    /\ UNCHANGED <<drivers, view, groupMap, uuidTried, hw, polls, joins, writes, left>>

(* ... then the map from what every zone is shown to play.                 *)
SyncSonosGroups(r) ==
    LET gm == Synced(view, groupMap, uuidKnown) IN
    /\ Polled(r) /\ drivers \cap Sonos \subseteq uuidTried
    /\ groupMap' = gm
    /\ view' = IF gm = groupMap THEN view ELSE ApplyGroupState(view, gm)
    /\ left' = [left EXCEPT ![r] = None]
    /\ calm' = IF calm = "no" THEN "no" ELSE "synced"
    /\ UNCHANGED <<drivers, uuidTried, uuidKnown, hw, polls, joins, writes, asks, moves>>

-----------------------------------------------------------------------------
(* group and ungroup: the map and the states first, then the speakers. One *)
(* call to the speakers is in flight at a time here.                       *)

Regroup(gm, call) ==
    /\ joins = {}
    /\ groupMap' = gm
    /\ view' = ApplyGroupState(view, gm)
    /\ joins' = {call}
    /\ Move
    /\ UNCHANGED <<drivers, uuidTried, uuidKnown, hw, polls, writes, left, asks>>

Group(f, c) ==
    /\ f # c /\ {f, c} \subseteq drivers
    /\ Regroup(With(groupMap, f, c), [op |-> "join", zone |-> f, lead |-> c, others |-> {}])

Ungroup(d) ==
    LET mine == MembersOf(groupMap, d) IN
    /\ d \in drivers
    /\ Regroup(Restrict(groupMap, DOMAIN groupMap \ ({d} \cup mine)),
               [op |-> "leave", zone |-> d, others |-> mine,
                lead |-> IF d \in DOMAIN groupMap THEN groupMap[d] ELSE None])

(* What the speakers make of it: two of one brand group; a Bluesound       *)
(* coordinator lets its slaves go one by one, a Sonos one leaves and the   *)
(* speakers choose another (the zone that reports no coordinator).         *)
Obeyed(call) ==
    LET freed == {call.zone} \cup (IF call.zone \in Bluesound THEN call.others ELSE {})
        heir == IF call.zone \in Sonos /\ call.others \cap Sonos # {}
                  THEN CHOOSE m \in call.others \cap Sonos : TRUE ELSE None
    IN IF call.op = "join"
         THEN IF {call.zone, call.lead} \subseteq Sonos \/ {call.zone, call.lead} \subseteq Bluesound
                THEN [hw EXCEPT ![call.zone].lead = call.lead] ELSE hw
       ELSE [d \in Zones |->
              [hw[d] EXCEPT !.lead = IF d \in freed \/ d = heir THEN None
                                     ELSE IF d \in call.others \cap Sonos /\ heir # None THEN heir
                                     ELSE @]]

JoinEnds(call, ok) ==
    /\ joins' = joins \ {call}
    /\ hw' = IF ok THEN Obeyed(call) ELSE hw
    /\ calm' = "no" /\ Works(ok)
    /\ UNCHANGED <<drivers, view, groupMap, uuidTried, uuidKnown, polls, writes, left, asks>>

-----------------------------------------------------------------------------
(* Volume: one request at a time awaits the speakers here. *)

Round(a, b) == (2 * a + b) \div (2 * b)

(* setGroupVolume's scaling: the loudest gets the target, the others their *)
(* share of it.                                                            *)
Scaled(vw, ids, target) ==
    LET loud == GroupVolumeOf(vw, ids) IN
    [i \in ids |->
       IF loud = 0 \/ VolumeOf(vw, i) = loud THEN target
       ELSE Round(VolumeOf(vw, i) * target, loud)]

SetGroupVolume(d, target) ==
    LET ids == GroupIds(groupMap, d)
        share == Scaled(view, ids, target)
    IN
    /\ writes = {} /\ Grouped(groupMap, d)
    /\ writes' = {[zone |-> i, vol |-> share[i], whole |-> TRUE] : i \in ids \cap drivers}
    /\ Move
    /\ UNCHANGED <<drivers, view, groupMap, uuidTried, uuidKnown, hw, polls, joins, left, asks>>

(* command volume, and setGroupVolume on a zone that is in no group.       *)
SetVolume(d, v) ==
    /\ writes = {} /\ d \in drivers
    /\ writes' = {[zone |-> d, vol |-> v, whole |-> FALSE]}
    /\ Move
    /\ UNCHANGED <<drivers, view, groupMap, uuidTried, uuidKnown, hw, polls, joins, left, asks>>

(* A zone's own write tells the others of its group the new group volume;  *)
(* one that failed throws before any of it.  A group's write stores the    *)
(* volume it asked for even when the speaker refused.                      *)
Told(w) ==
    LET ids == GroupIds(groupMap, w.zone)
        mine == ApplyGroupFields(view, groupMap, w.zone, [view[w.zone] EXCEPT !.vol = w.vol])
        now == With(view, w.zone, mine)
    IN IF w.whole \/ ~Grouped(groupMap, w.zone) THEN now
       ELSE [i \in DOMAIN now |-> IF i \in ids \ {w.zone}
                THEN [now[i] EXCEPT !.gvol = GroupVolumeOf(now, ids)] ELSE now[i]]

WriteEnds(w, ok) ==
    /\ writes' = writes \ {w}
    /\ hw' = IF ok THEN [hw EXCEPT ![w.zone].vol = w.vol] ELSE hw
    /\ view' = IF (ok \/ w.whole) /\ w.zone \in DOMAIN view THEN Told(w) ELSE view
    /\ calm' = "no" /\ Works(ok)
    /\ UNCHANGED <<drivers, groupMap, uuidTried, uuidKnown, polls, joins, left, asks>>

(* The Sonos app regroups or turns a knob.                                 *)
Elsewhere(d, lead) ==
    /\ d \in Sonos /\ lead \in (Sonos \ {d}) \cup {None} /\ lead # hw[d].lead
    /\ hw' = [hw EXCEPT ![d].lead = lead]
    /\ Move
    /\ UNCHANGED <<drivers, view, groupMap, uuidTried, uuidKnown, polls, joins, writes, left, asks>>

Next ==
    \/ \E house \in Houses, moved \in SUBSET Sonos : Rebuild(house, moved)
    \/ \E r \in Rounds :
          \/ TickStarts(r) \/ SyncSonosGroups(r)
          \/ \E d \in Zones : AsksUuid(r, d) \/ \E reply \in Replies(d) : RoundPolls(r, d, reply)
          \/ \E ok \in BOOLEAN : UuidAnswered(r, ok)
    \/ \E d \in Zones : \E reply \in Replies(d) : RePolls(d, reply)
    \/ \E p \in polls : PollEnds(p)
    \/ \E f, c \in Zones : Group(f, c)
    \/ \E d \in Zones : Ungroup(d)
    \/ \E call \in joins, ok \in BOOLEAN : JoinEnds(call, ok)
    \/ \E d \in Zones, v \in Levels : SetGroupVolume(d, v) \/ SetVolume(d, v)
    \/ \E w \in writes, ok \in BOOLEAN : WriteEnds(w, ok)
    \/ \E d \in Sonos, lead \in Sonos \cup {None} : Elsewhere(d, lead)

-----------------------------------------------------------------------------
TypesOK ==
    /\ drivers \in Houses
    /\ left \in [Rounds -> (SUBSET Zones) \cup {None}] /\ asks \in [Rounds -> Sonos \cup {None}]
    /\ DOMAIN groupMap \subseteq Zones /\ \A m \in DOMAIN groupMap : groupMap[m] \in Zones \ {m}
    /\ uuidKnown \subseteq uuidTried /\ uuidTried \subseteq Sonos
    /\ \A d \in DOMAIN view : view[d].vol \in 0..100 \cup {None}

(* Every state the app holds says about groups what the group map says,    *)
(* whichever of the polls, commands, intents and rounds stored it last.    *)
StampsFollowMap ==
    \A d \in DOMAIN view : view[d].role # "none" =>
        /\ view[d].role = IF d \in DOMAIN groupMap THEN "member"
                          ELSE IF MembersOf(groupMap, d) # {} THEN "coordinator" ELSE "standalone"
        /\ view[d].coord = IF d \in DOMAIN groupMap THEN groupMap[d] ELSE None
        /\ view[d].members = IF d \in DOMAIN groupMap THEN {} ELSE MembersOf(groupMap, d)

(* setGroupVolume makes the loudest zone the target and turns the order of *)
(* the others round nowhere, in every state the caches can be in.          *)
ScalesTogether ==
    \A d \in drivers, target \in Levels : Grouped(groupMap, d) =>
        LET ids == GroupIds(groupMap, d)
            share == Scaled(view, ids, target)
        IN /\ Max({share[i] : i \in ids}) = target
           /\ \A i, j \in ids : VolumeOf(view, i) <= VolumeOf(view, j) => share[i] <= share[j]

ZonesSound == StampsFollowMap /\ ScalesTogether

(* After a round in which nothing but rounds moved, every Sonos zone that  *)
(* told its URI is shown in the group it is really in, whatever polls,     *)
(* failed queries, intents and rebuilds came before and whatever rounds    *)
(* began since.                                                            *)
GroupsCatchUp ==
    (calm = "synced" /\ drivers \cap Sonos \subseteq uuidKnown) =>
        \A d \in drivers \cap Sonos :
            (view[d].lead # None /\ hw[d].lead \in uuidKnown \cup {None}) =>
                /\ (d \in DOMAIN groupMap) = (hw[d].lead # None)
                /\ hw[d].lead # None => groupMap[d] = hw[d].lead /\ view[d].coord = hw[d].lead
=============================================================================
