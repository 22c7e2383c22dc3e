----------------------------- MODULE KnxTunnelLife -----------------------------
(* That the connection objects, handlers and timers of KnxTunnel lead the life of
   BusLife. *)
EXTENDS KnxTunnel

HasTunnel == connected /\ lib[connection] = "up"
Awaited == connection # None /\ connection \notin settled /\ ~busConnected

(* The stage is read off the current object and the timer; "astray", which BusLife
   does not know, is any state in which these do not fit together. *)
Stage ==
    CASE timer /\ connection = None /\ reconnecting = "idle" -> "waiting"
      [] ~timer /\ HasTunnel -> "up"
      [] ~timer /\ Awaited -> "trying"
      [] ~timer /\ connection = None /\ reconnecting = "teardown" -> "closing"
      [] ~timer /\ connection = None /\ reconnecting = "idle" /\ disabled -> "off"
      [] OTHER -> "astray"

Life == INSTANCE BusLife WITH
    stage <- Stage, served <- connection \in bound, on <- ~disabled, wanted <- enabledInFile,
    asked <- reconnecting # "idle", reachable <- gateway

(* Each step of the tunnel is a step of that life or changes nothing of it: in every
   order of late events, give-ups, drops, saves and reconnects there is one tunnel,
   one attempt, one timer that will bring one, or a bus that is switched off. *)
FollowsLife == Life!Init /\ [][Life!Next]_(Life!lifeVars)
===============================================================================
