----------------------------- MODULE MediaSkip -----------------------------
(* What next and previous do on a zone (media/skipLogic.ts and the         *)
(* commands of media/manager.ts that use it): while a radio plays they     *)
(* walk the ring of radio favourites, otherwise they skip a track; the     *)
(* preset buttons walk every favourite.  Where the zone is in the ring     *)
(* comes from the polled URI, else from the address asked for last, else   *)
(* from the names in what the zone shows.  What the speaker plays is its   *)
(* own affair: other apps play on it, and a poll may bring what it played  *)
(* before.                                                                 *)
EXTENDS Integers, Sequences, Filtering

CONSTANTS
    Lists,              \* lists of favourites a zone may have
    Core,               \* of each address what is left without its query
    Radio,              \* the addresses of radios (isRadioUri)
    Other,              \* those of a queue, Spotify or a file
    Texts,              \* the names, sources and titles there are
    Labels,             \* the sources that are a radio's (isRadioSource)
    Inside,             \* <<name, text>>: the name is somewhere in the text
    Heads,              \* <<name, text>>: it is the text, or comes before its dash or colon
    Shows,              \* of each item that may play what a poll may find
    None

Uris == DOMAIN Core
Items == DOMAIN Shows

(* A favourite: the address it plays ("" on a Bluesound, whose presets     *)
(* have none) and its name.  A poll's find: what the zone shows of it.     *)
Favourite == [uri : Uris \cup {""}, name : Texts]
Sight == [uri : Uris \cup {""}, source : Texts, title : Texts,
          transport : {"playing", "buffering", "stopped"}]
Playing(item) == {s \in Shows[item] : s.transport = "playing"}

SkipAssumption ==
    /\ \A l \in Lists : l \in Seq(Items) /\ \A i \in DOMAIN l : Playing(l[i]) # {}
    /\ "" \in Texts /\ "" \notin Uris /\ "" \notin Radio \cup Other
    /\ Items \subseteq Favourite /\ \A item \in Items : Shows[item] \subseteq Sight
    /\ None \notin Favourite

VARIABLES
    presets,            \* the favourites of the zone as last listed
    seen,               \* the polled state
    hint,               \* lastPresetArt: the address asked for or seen last, or ""
    caught              \* history: has a poll seen it play since anything was asked?

vars == <<presets, seen, hint, caught>>

Silent == [uri |-> "", source |-> "", title |-> "", transport |-> "stopped"]
Found == {Silent} \cup UNION {Shows[item] : item \in Items}

Init == presets \in Lists /\ seen = Silent /\ hint = "" /\ caught = FALSE

(* isRadioPlayback: the address of what plays or was asked for; failing    *)
(* those, and unless a queue, Spotify or a file plays, the source's label. *)
RadioPlayback(s, h) ==
    \/ s.uri \in Radio \/ h \in Radio
    \/ s.uri \notin Other /\ s.source \in Labels

(* radioFavoriteRing: a list without addresses is a ring as it stands.     *)
Addressed(list) == \E i \in DOMAIN list : list[i].uri # ""
Radios(list) == Picked(list, {i \in DOMAIN list : list[i].uri \in Radio})
Ring(list) == IF Addressed(list) THEN Radios(list) ELSE list

(* matchPresetIndex: the first with the very address, else the first with  *)
(* it but for the query; the first whose name is in the source, else the   *)
(* first whose name heads the title.                                       *)
First(hits) == IF hits = {} THEN 0 ELSE Least(hits)
Exact(list, uri) == {i \in DOMAIN list : uri # "" /\ list[i].uri = uri}
Alike(list, uri) ==
    {i \in DOMAIN list : uri # "" /\ list[i].uri # "" /\ Core[list[i].uri] = Core[uri]}
InSource(list, s) == {i \in DOMAIN list : list[i].name # "" /\ <<list[i].name, s.source>> \in Inside}
InTitle(list, s) == {i \in DOMAIN list : list[i].name # "" /\ <<list[i].name, s.title>> \in Heads}

At(list, uri) == First(IF Exact(list, uri) # {} THEN Exact(list, uri) ELSE Alike(list, uri))
Named(list, s) == First(IF InSource(list, s) # {} THEN InSource(list, s) ELSE InTitle(list, s))

Match(list, s, h) ==
    IF At(list, s.uri) # 0 THEN At(list, s.uri)
    ELSE IF At(list, h) # 0 THEN At(list, h)
    ELSE Named(list, s)

Around(i, n, dir) == ((i - 1 + dir + n) % n) + 1

(* resolveMediaSkip and resolvePresetCycle: None is a skip within the      *)
(* queue, or nothing to cycle.                                             *)
Skip(list, s, h, dir) ==
    LET ring == Ring(list)
        i == Match(ring, s, h)
    IN IF ~RadioPlayback(s, h) \/ ring = <<>> \/ i = 0 THEN None
       ELSE ring[Around(i, Len(ring), dir)]

Cycle(list, s, h, dir) ==
    LET i == Match(list, s, h) IN
    IF list = <<>> THEN None
    ELSE IF i = 0 THEN list[IF dir = 1 THEN 1 ELSE Len(list)]
    ELSE list[Around(i, Len(list), dir)]

-----------------------------------------------------------------------------
(* The commands next/previous and nextPreset/previousPreset: the favourite *)
(* is remembered before it is asked for, whether or not the speaker plays  *)
(* it then.                                                                *)
Remembered(to) ==
    hint' = IF to = None THEN hint ELSE IF to.uri # "" THEN to.uri ELSE seen.uri

Skips(dir) ==
    /\ Remembered(Skip(presets, seen, hint, dir))
    /\ caught' = FALSE /\ UNCHANGED <<presets, seen>>

Cycles(dir) ==
    /\ Remembered(Cycle(presets, seen, hint, dir))
    /\ caught' = FALSE /\ UNCHANGED <<presets, seen>>

(* The app plays a favourite or anything else: what has a cover is         *)
(* remembered.                                                             *)
Plays(item) ==
    /\ hint' \in {hint, item.uri}
    /\ caught' = FALSE /\ UNCHANGED <<presets, seen>>

(* _applyGroupFields: a member is shown with the title and the source that *)
(* its coordinator has, and with its own address.                          *)
Stamped(s, lead) ==
    IF lead.transport = "stopped" THEN s
    ELSE [s EXCEPT !.title = IF lead.title # "" THEN lead.title ELSE @,
                   !.source = IF lead.source # "" THEN lead.source ELSE @,
                   !.transport = IF @ = "stopped" THEN lead.transport ELSE @]

(* A poll of a zone alone, or of a member with what its coordinator shows  *)
(* (_applyArtwork): a zone that stands still is not known by what was      *)
(* asked for, one that buffers is, and one that plays by what it plays, if *)
(* there is a cover to remember.                                           *)
Polls(s, lead) ==
    /\ seen' = Stamped(s, lead) /\ caught' = (s.transport = "playing")
    /\ \/ s.transport = "stopped" /\ hint' = ""
       \/ s.transport = "buffering" /\ UNCHANGED hint
       \/ s.transport = "playing" /\ hint' \in {s.uri, ""}
    /\ UNCHANGED presets

(* The zone joins a group, or a round finds it in one.                     *)
Joins(lead) ==
    /\ seen' = Stamped(seen, lead) /\ hint' = ""
    /\ UNCHANGED <<presets, caught>>

(* ensurePresets and refreshPresets; a list that cannot be had is empty.   *)
Listed(list) == presets' = list /\ UNCHANGED <<seen, hint, caught>>

Next ==
    \/ \E dir \in {1, -1} : Skips(dir) \/ Cycles(dir)
    \/ \E item \in Items : Plays(item)
    \/ \E s, lead \in Found : Polls(s, lead)
    \/ \E lead \in Found : Joins(lead)
    \/ \E list \in Lists : Listed(list)

-----------------------------------------------------------------------------
TypesOK ==
    /\ presets \in Lists /\ seen \in Sight /\ hint \in Uris \cup {""}
    /\ caught \in BOOLEAN

(* What a list must be for its favourites to be known by what is shown     *)
(* while they play: by an address that is no other's, or by a name in the  *)
(* source, or before the dash of the title, where no other's is.  Of       *)
(* 'Radio 1' and 'Radio 10' without addresses the one is in the other.     *)
ToldApart(list) ==
    /\ \A i, j \in DOMAIN list : list[i] = list[j] => i = j
    /\ \A i \in DOMAIN list : \A s \in Playing(list[i]) :
          \/ Alike(list, s.uri) = {i}
          \/ /\ Alike(list, s.uri) = {}
             /\ \/ InSource(list, s) = {i}
                \/ InSource(list, s) = {} /\ InTitle(list, s) = {i}

(* A step, and once a poll has seen it played the step back.               *)
Back(dir) == IF dir = 1 THEN -1 ELSE 1
StepsBack(from) ==
    \A dir \in {1, -1} :
        LET to == Cycle(presets, seen, hint, dir) IN
        \A s \in Playing(to) : \A h \in {"", s.uri} : Cycle(presets, s, h, Back(dir)) = from

SkipsBack(from) ==
    \A dir \in {1, -1} :
        LET to == Skip(presets, seen, hint, dir) IN
        to # None =>
            \A s \in Playing(to) : \A h \in {"", s.uri} : Skip(presets, s, h, Back(dir)) \in {from, None}

(* The favourites that so many steps on lead to, polls between them.       *)
Onward(list, some) ==
    UNION {UNION {{Cycle(list, s, h, 1) : h \in {"", s.uri}} : s \in Playing(p)} : p \in some}
PassesEach(list, from) ==
    LET walk[n \in 0..Len(list)] == IF n = 0 THEN {from} ELSE Onward(list, walk[n - 1])
    IN  /\ \A n \in 1..Len(list) : \E p \in Items : walk[n] = {p}
        /\ UNION {walk[n] : n \in 1..Len(list)} = {list[i] : i \in DOMAIN list}

(* A zone that a poll has seen play a favourite, of a list whose           *)
(* favourites can be told apart, whatever was asked, polled, grouped and   *)
(* listed before and whichever way each favourite is shown: a step and the *)
(* step back return to it, and as many steps on as there are favourites    *)
(* pass each of them.  And no skip leads from a queue into the radios, nor *)
(* from a radio out of those with addresses.                               *)
RingsComeRound ==
    caught =>
      /\ ToldApart(presets) =>
            \A i \in DOMAIN presets : seen \in Playing(presets[i]) =>
                /\ StepsBack(presets[i]) /\ PassesEach(presets, presets[i])
                /\ (\E j \in DOMAIN Ring(presets) : Ring(presets)[j] = presets[i]) => SkipsBack(presets[i])
      /\ \A dir \in {1, -1} :
            LET to == Skip(presets, seen, hint, dir) IN
            to # None => seen.uri \notin Other \ Radio /\ (Addressed(presets) => to.uri \in Radio)
=============================================================================
