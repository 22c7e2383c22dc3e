-------------------------------- MODULE BusLife --------------------------------
(***************************************************************************)
(* What the KNX bus promises to its users, without connection objects,     *)
(* timers or late events: at each moment it is in one of five stages, a    *)
(* tunnel that is up is only lost with the gateway or torn down because a  *)
(* reconnect was asked for, and a bus that is on comes to rest nowhere     *)
(* without a tunnel.                                                       *)
(***************************************************************************)

VARIABLES
    stage,      \* "off", "waiting", "trying", "up" or "closing"
    served,     \* have the group addresses datapoints to read and write through?
    on,         \* is the bus switched on?
    wanted,     \* is it to be on after the next reconnect?
    asked,      \* does someone wait for the outcome of a reconnect?
    reachable   \* does the gateway answer?

lifeVars == <<stage, served, on, wanted, asked, reachable>>

Init ==
    /\ wanted \in BOOLEAN /\ reachable \in BOOLEAN
    /\ on = wanted /\ stage = IF on THEN "trying" ELSE "off"
    /\ served = FALSE /\ asked = FALSE

(* The gateway answers the attempt. *)
Answered ==
    /\ stage = "trying" /\ reachable
    /\ stage' = "up" /\ served' = TRUE /\ asked' = FALSE
    /\ UNCHANGED <<on, wanted, reachable>>

(* The attempt fails, or the tunnel goes with the gateway: another is waited for. *)
Lost ==
    /\ stage = "trying" \/ (stage = "up" /\ ~reachable)
    /\ stage' = "waiting" /\ served' = FALSE /\ asked' = FALSE
    /\ UNCHANGED <<on, wanted, reachable>>

Attempt(switched) == stage' = (IF switched THEN "trying" ELSE "off") /\ asked' = switched

(* A wait is over, or someone asks for a reconnect while none is under way: the
   switch counts from now on, and what there is of a tunnel is closed first. *)
Again ==
    /\ ~asked
    /\ on' = wanted /\ served' = FALSE
    /\ IF stage \in {"off", "waiting"} THEN Attempt(wanted)
       ELSE stage' = "closing" /\ asked' = TRUE
    /\ UNCHANGED <<wanted, reachable>>

Closed == stage = "closing" /\ Attempt(on) /\ UNCHANGED <<served, on, wanted, reachable>>

(* The house was saved with other group addresses. *)
Refreshed ==
    /\ stage \in {"trying", "up"}
    /\ served' = TRUE /\ UNCHANGED <<stage, on, wanted, asked, reachable>>

Saved == wanted' = ~wanted /\ UNCHANGED <<stage, served, on, asked, reachable>>
GatewayTurns == reachable' = ~reachable /\ UNCHANGED <<stage, served, on, wanted, asked>>

Next == Answered \/ Lost \/ Again \/ Closed \/ Refreshed \/ Saved \/ GatewayTurns
===============================================================================
