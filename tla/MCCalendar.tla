------------------------------ MODULE MCCalendar ------------------------------
(* Stretches of 2026 and a choice of triggers for TLC. *)
EXTENDS Calendar, TLC

(* The days before and after a clock change or the end of a month. *)
Autumn(first, last) ==  \* from Thursday 1 October 2026
    [weekday |-> 3, firsts |-> <<0, 31, 61, 92, 123>>,
     summer |-> [first |-> 1, last |-> 24 * 24],
     start |-> 24 * first, end |-> 24 * last]
Spring(first, last) ==  \* from Sunday 1 February 2026
    [weekday |-> 6, firsts |-> <<0, 28, 59, 89, 120>>,
     summer |-> [first |-> 24 * 56 + 1, last |-> 24 * 365],
     start |-> 24 * first, end |-> 24 * last]

MCSeasons ==
    {Autumn(20, 32),   \* the clocks go back on 25 October
     Autumn(57, 62),   \* 30 November
     Autumn(89, 94),   \* the end of the year
     Spring(25, 30),   \* 28 February
     Spring(52, 60),   \* the clocks go forward on 29 March
     Spring(87, 91)}   \* 30 April, in summer time

Masks == {{}, 0..6, 0..4, {6}}
Clock(h) == [kind |-> "time", hour |-> h]
Anchor(e, o) == [kind |-> "astro", event |-> e, offset |-> o]

Timed == {[kind |-> "time", hour |-> h, days |-> m] :
             h \in {0, 1, 2, 3, 12, 21, 22, 23}, m \in Masks}
Astro == {[kind |-> "astro", event |-> g[1], offset |-> g[2], days |-> m,
           notBefore |-> g[3], notAfter |-> g[4]] :
             m \in Masks,
             g \in {<<"sunset", 0, None, None>>,
                    <<"sunset", 0, Clock(18), None>>,
                    <<"sunset", 0, Clock(18), Clock(21)>>,
                    <<"sunset", 1, None, Clock(18)>>,
                    <<"sunrise", 0, Clock(7), Anchor("sunset", -9)>>,
                    <<"sunrise", -1, Anchor("sunrise", 1), None>>}}

MCTriggers == Timed \cup Astro
MCSun == ("sunrise" :> 6) @@ ("sunset" :> 16)
=============================================================================
