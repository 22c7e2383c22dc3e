------------------------------ MODULE MCHouse -------------------------------
(* A small house for TLC: see HouseParts.                                     *)
EXTENDS HouseParts, Integers, Sequences, TLC

CONSTANTS s1, s2, b1, gate, front, inst, boss, q1

MCHouses == {{s1, s2}, {s1, b1}}
MCVolume0 == [z \in {s1, s2, b1} |-> IF z = s1 THEN 30 ELSE 60]

(* Nothing tells one round of polls from another.                            *)
RoundSymmetry == Permutations(zRounds)

(* Radios whose names are in each other, known by their addresses; the same *)
(* where one plays under another address; two on one address; a radio and a *)
(* queue, as a Sonos lists them; and presets without addresses.             *)
MCCore == [u \in {"a", "a?1", "b", "c", "q", "x"} |-> IF u = "a?1" THEN "a" ELSE u]
Fav(u, n) == [uri |-> u, name |-> n]
MCSkipLists ==
    LET one == Fav("a", "Radio 1")
        ten == Fav("b", "Radio 10")
    IN {<<>>, <<one, ten>>, <<one, Fav("c", "Radio 10")>>, <<ten, one, Fav("a", "A")>>,
        <<Fav("q", "Hits"), one, ten>>, <<Fav("", "A"), Fav("", "B"), Fav("", "C")>>}

Plays(u, from, what) == [uri |-> u, source |-> from, title |-> what, transport |-> "playing"]
MCShows ==
    LET sights(f) ==
            IF f.uri = "" THEN {Plays("", "TuneIn", f.name), Plays("", "TuneIn", "A - news")}
            ELSE IF f.uri = "a" THEN {Plays("a?1", "Radio", f.name)}
            ELSE IF f.uri = "b" THEN {Plays("b", f.name, "Radio 10 - song"),
                                      [Plays("b", "Radio", "") EXCEPT !.transport = "buffering"]}
            ELSE IF f.uri = "c" THEN {Plays("x", f.name, "Radio 10 - song")}
            ELSE {Plays("q", "Wachtrij", "")}
        own(f) == {s \in sights(f) : s.title = "A - news" => f.name = "A"}
        all == UNION {{l[i] : i \in DOMAIN l} : l \in MCSkipLists}
    IN [f \in all |-> own(f)]

MCTexts ==
    UNION {{f.name} \cup UNION {{s.source, s.title} : s \in MCShows[f]} : f \in DOMAIN MCShows} \cup {""}
MCInside ==
    {<<"Radio 1", "Radio 1">>, <<"Radio 1", "Radio 10">>, <<"Radio 10", "Radio 10">>, <<"A", "A">>}
MCHeads ==
    {<<"A", "A">>, <<"B", "B">>, <<"C", "C">>, <<"A", "A - news">>, <<"Radio 10", "Radio 10 - song">>,
     <<"Radio 1", "Radio 1">>, <<"Radio 10", "Radio 10">>}

(* The house's own processor with and without a login, and a second one.      *)
MCLutronHouses ==
    {[login |-> {q1}, open |-> {lHouse}], [login |-> {lHouse}, open |-> {}],
     [login |-> {}, open |-> {q1}]}

(* A gate opened by KNX and a door that is a DoorBird with the login in its   *)
(* RTSP address; both have SIP panels.                                        *)
MCTwoDoors ==
    [d \in {gate, front} |->
        IF d = gate THEN [want |-> "knx", filled |-> {"knx", "sip"}, block |-> {}, rtsp |-> {}]
        ELSE [want |-> "knx", filled |-> {"sip"}, block |-> {"host"},
              rtsp |-> {"host", "username", "password"}]]

MCRoles == [u \in {inst, boss} |-> IF u = inst THEN "installer" ELSE "superuser"]

(* The agent on the host alone.                                               *)
UpdateInit == part = "update" /\ Init

(* Expectations that fail: see ChildProcs, DoorRings and HostAgent.           *)
OneGo2rtc == part = "procs" => Procs!OneGo2rtc
KeepsSaves == part = "update" => Host!KeepsSaves
GateDtmfFindsDoor == part = "doors" => Rings!GateDtmfFindsDoor
=============================================================================
