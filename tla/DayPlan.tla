-------------------------------- MODULE DayPlan --------------------------------
(***************************************************************************)
(* What the time scheduler promises, without its timer table: each listed  *)
(* schedule has one occurrence to come, or is running, and what comes next *)
(* is always decided by the list as it is at that moment.  The promise is  *)
(* kept for want of an instant: an entry planned just as its occurrence    *)
(* comes is left out of the plan until it is planned again.                *)
(***************************************************************************)
EXTENDS Integers

CONSTANTS Ids, D, Slots, None   \* as in Scheduler

VARIABLES
    list,     \* id -> entry or None
    clock,    \* a slot of the day
    alive,    \* is there a scheduler?
    due,      \* id -> slots until its occurrence, or None
    running   \* ids whose occurrence is being run

planVars == <<list, clock, alive, due, running>>

Lists == [Ids -> [enabled : BOOLEAN, slot : Slots] \cup {None}]

(* How long it is until the clock next shows the slot of an entry. *)
DueIn(s) ==
    IF s # None /\ s.enabled /\ s.slot < D
    THEN CHOOSE n \in 1..D : clock + n \in {s.slot, s.slot + D}
    ELSE None

(* What may be planned for an entry: its next occurrence, or nothing when that
   occurrence comes while it is being planned. *)
Planned(s) == {DueIn(s)} \cup IF DueIn(s) = 1 THEN {None} ELSE {}

Nothing == [id \in Ids |-> None]

Init ==
    /\ list \in Lists
    /\ clock = 0
    /\ alive = FALSE
    /\ due = Nothing
    /\ running = {}

Start ==
    /\ ~alive /\ alive' = TRUE
    /\ due' \in [Ids -> (1..D) \cup {None}]
    /\ \A id \in Ids : due'[id] \in Planned(list[id])
    /\ UNCHANGED <<list, clock, running>>

Stop ==
    /\ alive /\ alive' = FALSE
    /\ due' = Nothing
    /\ running' = {}
    /\ UNCHANGED <<list, clock>>

Replace ==
    /\ alive /\ running = {}
    /\ list' \in Lists
    /\ due' \in [Ids -> (1..D) \cup {None}]
    /\ \A id \in Ids : due'[id] \in Planned(list'[id])
    /\ UNCHANGED <<clock, alive, running>>

(* The occurrence is passed over, its conditions being false. *)
Skip(id) ==
    /\ due[id] = 0
    /\ \E n \in Planned(list[id]) : due' = [due EXCEPT ![id] = n]
    /\ UNCHANGED <<list, clock, alive, running>>

Begin(id) ==
    /\ due[id] = 0
    /\ due' = [due EXCEPT ![id] = None]
    /\ running' = running \cup {id}
    /\ UNCHANGED <<list, clock, alive>>

End(id) ==
    /\ id \in running
    /\ \E n \in Planned(list[id]) : due' = [due EXCEPT ![id] = n]
    /\ running' = running \ {id}
    /\ UNCHANGED <<list, clock, alive>>

Tick ==
    /\ \A id \in Ids : due[id] # 0
    /\ clock' = IF clock = D - 1 THEN 0 ELSE clock + 1
    /\ due' = [id \in Ids |-> IF due[id] = None THEN None ELSE due[id] - 1]
    /\ UNCHANGED <<list, alive, running>>

Next ==
    \/ Start \/ Stop \/ Replace \/ Tick
    \/ \E id \in Ids : Skip(id) \/ Begin(id) \/ End(id)
===============================================================================
