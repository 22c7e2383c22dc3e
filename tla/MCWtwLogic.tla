----------------------------- MODULE MCWtwLogic -----------------------------
(* Small instances of WtwLogic for TLC. *)
EXTENDS WtwLogic, TLC

CONSTANTS shower, co2

\* A logic that boosts for some minutes when a pipe warms up, and one that
\* runs at the high speed while a sensor has reported for some minutes.
MCStand == shower :> "boost" @@ co2 :> "high"
MCTrigger == shower :> "rise" @@ co2 :> "held"
MCEnd == shower :> "duration" @@ co2 :> "until"
MCAfter == shower :> "previous" @@ co2 :> "low"
=============================================================================
