------------------------------- MODULE MCBus --------------------------------
(* A small house on the bus for TLC: see BusParts.                            *)
EXTENDS BusParts, Naturals, Sequences

CONSTANTS g, r, v0, v1, A, B, l1, s1, d1, d2, d3, hood, shower, night, co2, humid

MCSavedGroups == {{g, r}, {r}}
MCSavedLogics == {{hood, shower, night}, {shower}}

(* The logics of the unit: one by a rise of the temperature and a duration,   *)
(* one by minutes of damp, one by two joined clauses.                         *)
MCVentSetup ==
    LET on(s, timed) == [sensor |-> s, want |-> TRUE, timed |-> timed]
        off(s, timed) == [sensor |-> s, want |-> FALSE, timed |-> timed]
    IN  [l \in {hood, shower, night} |->
           CASE l = hood   -> [rise |-> TRUE, when |-> {}, whenJoin |-> "or", stand |-> "high",
                               end |-> "duration", untilWhen |-> {}, untilJoin |-> "or", after |-> "previous"]
             [] l = shower -> [rise |-> FALSE, when |-> {on(humid, TRUE)}, whenJoin |-> "or",
                               stand |-> "high", end |-> "untilStatus", untilWhen |-> {off(co2, TRUE)},
                               untilJoin |-> "or", after |-> "low"]
             [] l = night  -> [rise |-> FALSE, when |-> {on(co2, FALSE), off(humid, TRUE)},
                               whenJoin |-> "and", stand |-> "low", end |-> "untilStatus",
                               untilWhen |-> {off(co2, TRUE), on(humid, TRUE)}, untilJoin |-> "and",
                               after |-> "previous"]]
=============================================================================
