----------------------------- MODULE ChildProcs -----------------------------
(* The two child processes the backend keeps: Asterisk                       *)
(* (voip/asteriskProcess.ts) and go2rtc (go2rtcSpawn.ts).  Both modules       *)
(* remember one process in `child`, start it again with a growing delay when  *)
(* it exits, and are told what to do by the saves.  They differ in details:   *)
(* Asterisk keeps the handle of its restart timer and looks at `child` when   *)
(* the timer fires, go2rtc does neither.                                      *)
EXTENDS Naturals, Sequences

CONSTANTS
    Yamls,      \* the stream configurations a save writes
    MaxStarts,  \* bound: the processes of each kind ever started
    None

ProcsAssumption == MaxStarts \in Nat /\ None \notin 1..MaxStarts

VARIABLES
    kid,        \* program -> the process in `child`, or None
    procs,      \* program -> process -> "up" | "killed" | "gone"
    enabled,    \* program -> restartEnabled, go2rtc's _restartEnabled
    timers,     \* program -> the number of restart timers that will fire
    failed,     \* program -> could its newest process not be started?
    held,       \* is the last of Asterisk's timers in restartTimer?
    yaml,       \* the configuration go2rtc's newest process was started with
    written     \* the one on disk

vars == <<kid, procs, enabled, timers, failed, held, yaml, written>>

Programs == {"asterisk", "go2rtc"}
Pids == 1..MaxStarts

Up(p) == {i \in DOMAIN procs[p] : procs[p][i] = "up"}

TypesOK ==
    /\ DOMAIN kid = Programs /\ DOMAIN procs = Programs
    /\ \A p \in Programs :
        /\ kid[p] \in Pids \cup {None}
        /\ DOMAIN procs[p] \subseteq Pids
        /\ \A i \in DOMAIN procs[p] : procs[p][i] \in {"up", "killed", "gone"}
        /\ enabled[p] \in BOOLEAN /\ failed[p] \in BOOLEAN /\ timers[p] \in Nat
    /\ held \in BOOLEAN
    /\ yaml \in Yamls \cup {None} /\ written \in Yamls \cup {None}

Init ==
    /\ kid = [p \in Programs |-> None]
    /\ procs = [p \in Programs |-> <<>>]
    /\ enabled = [p \in Programs |-> FALSE]
    /\ timers = [p \in Programs |-> 0]
    /\ failed = [p \in Programs |-> FALSE]
    /\ held = FALSE
    /\ yaml = None /\ written = None

(* launch and startGo2rtcProcess: the new process becomes `child` whether or  *)
(* not there is one.                                                          *)
Launched(p, was) ==
    /\ Len(was) < MaxStarts
    /\ procs' = [procs EXCEPT ![p] = Append(was, "up")]
    /\ kid' = [kid EXCEPT ![p] = Len(was) + 1]
    /\ failed' = [failed EXCEPT ![p] = FALSE]

(* The kill of stopAsteriskProcess and stopGo2rtcChild: only `child`.         *)
Killed(p) == IF kid[p] = None \/ procs[p][kid[p]] # "up" THEN procs[p]
             ELSE [procs[p] EXCEPT ![kid[p]] = "killed"]

-----------------------------------------------------------------------------
(* ensureAsteriskProcess, at every sync with VoIP switched on.                *)
EnsureAsterisk ==
    /\ enabled' = [enabled EXCEPT !["asterisk"] = TRUE]
    /\ \/ kid["asterisk"] # None /\ UNCHANGED <<kid, procs, timers, failed, held>>
       \/ /\ kid["asterisk"] = None
          /\ timers' = [timers EXCEPT !["asterisk"] =
                          IF held THEN @ - 1 ELSE @]
          /\ held' = FALSE
          /\ Launched("asterisk", procs["asterisk"])
    /\ UNCHANGED <<yaml, written>>

(* stopAsteriskProcess, at a sync with VoIP switched off.                     *)
StopAsterisk ==
    /\ enabled' = [enabled EXCEPT !["asterisk"] = FALSE]
    /\ timers' = [timers EXCEPT !["asterisk"] = IF held THEN @ - 1 ELSE @]
    /\ held' = FALSE
    /\ procs' = [procs EXCEPT !["asterisk"] = Killed("asterisk")]
    /\ kid' = [kid EXCEPT !["asterisk"] = None]
    /\ UNCHANGED <<failed, yaml, written>>

(* Mutant: Asterisk's timer does not look at `child` either.                  *)
AsteriskTimerBlind ==
    /\ timers["asterisk"] > 0
    /\ timers' = [timers EXCEPT !["asterisk"] = @ - 1]
    /\ held' = FALSE
    /\ \/ enabled["asterisk"] /\ Launched("asterisk", procs["asterisk"])
       \/ ~enabled["asterisk"] /\ UNCHANGED <<kid, procs, failed>>
    /\ UNCHANGED <<enabled, yaml, written>>

(* The restart timer: restartEnabled && confFile && !child.                   *)
AsteriskTimer ==
    /\ timers["asterisk"] > 0
    /\ timers' = [timers EXCEPT !["asterisk"] = @ - 1]
    /\ held' = FALSE
    /\ \/ /\ enabled["asterisk"] /\ kid["asterisk"] = None
          /\ Launched("asterisk", procs["asterisk"])
       \/ /\ ~(enabled["asterisk"] /\ kid["asterisk"] = None)
          /\ UNCHANGED <<kid, procs, failed>>
    /\ UNCHANGED <<enabled, yaml, written>>

-----------------------------------------------------------------------------
(* writeGo2rtcConfig and syncGo2rtcProcessAfterConfigWritten: a save that     *)
(* leaves the streams alone leaves a running process alone.                   *)
SyncGo2rtc(y) ==
    /\ written' = y
    /\ IF kid["go2rtc"] # None /\ y = written
       THEN UNCHANGED <<kid, procs, enabled, failed, yaml>>
       ELSE /\ enabled' = [enabled EXCEPT !["go2rtc"] = TRUE]
            /\ yaml' = y
            /\ Launched("go2rtc", Killed("go2rtc"))
    /\ UNCHANGED <<timers, held>>

(* No configuration could be written, or go2rtc is not ours to start.         *)
StopGo2rtc ==
    /\ enabled' = [enabled EXCEPT !["go2rtc"] = FALSE]
    /\ procs' = [procs EXCEPT !["go2rtc"] = Killed("go2rtc")]
    /\ kid' = [kid EXCEPT !["go2rtc"] = None]
    /\ UNCHANGED <<timers, failed, held, yaml, written>>

(* Its restart timer does not ask whether a process runs by now.              *)
Go2rtcTimer ==
    /\ timers["go2rtc"] > 0
    /\ timers' = [timers EXCEPT !["go2rtc"] = @ - 1]
    /\ \/ /\ enabled["go2rtc"]
          /\ yaml' = written
          /\ Launched("go2rtc", procs["go2rtc"])
       \/ /\ ~enabled["go2rtc"]
          /\ UNCHANGED <<kid, procs, failed, yaml>>
    /\ UNCHANGED <<enabled, held, written>>

-----------------------------------------------------------------------------
(* The exit handlers: a process that was killed or fell over by itself.       *)
Restarts(p) == IF p = "asterisk" THEN enabled[p]
               ELSE enabled[p] /\ kid'[p] = None

Exits(p, i) ==
    /\ procs[p][i] \in {"up", "killed"}
    /\ procs' = [procs EXCEPT ![p][i] = "gone"]
    /\ kid' = [kid EXCEPT ![p] = IF @ = i THEN None ELSE @]
    /\ timers' = [timers EXCEPT ![p] = IF Restarts(p) THEN @ + 1 ELSE @]
    /\ held' = IF p = "asterisk" /\ Restarts(p) THEN TRUE ELSE held
    /\ UNCHANGED <<enabled, failed, yaml, written>>

(* The error handlers: the program could not be started.  No exit follows.    *)
SpawnFails(p) ==
    /\ kid[p] # None /\ kid[p] = Len(procs[p]) /\ procs[p][kid[p]] = "up"
    /\ procs' = [procs EXCEPT ![p][kid[p]] = "gone"]
    /\ kid' = [kid EXCEPT ![p] = None]
    /\ failed' = [failed EXCEPT ![p] = TRUE]
    /\ UNCHANGED <<enabled, timers, held, yaml, written>>

Next ==
    \/ EnsureAsterisk \/ StopAsterisk \/ AsteriskTimer
    \/ StopGo2rtc \/ Go2rtcTimer
    \/ \E y \in Yamls : SyncGo2rtc(y)
    \/ \E p \in Programs : SpawnFails(p) \/ \E i \in DOMAIN procs[p] : Exits(p, i)

Spec == Init /\ [][Next]_vars

-----------------------------------------------------------------------------
(* Whatever order saves, exits and restart timers come in, Asterisk never     *)
(* runs twice (two of them would fight for the SIP port): no live process     *)
(* but the one in `child`, which the next stop reaches.                       *)
OneAsterisk == Up("asterisk") \subseteq {kid["asterisk"]}

(* A program that is wanted and is not running has a timer that will start    *)
(* it again, unless it could not be started at all.                           *)
ComesBack == \A p \in Programs :
    enabled[p] /\ kid[p] = None => timers[p] > 0 \/ failed[p]

(* The streams go2rtc was started with are the ones that were saved last.     *)
StreamsAsSaved ==
    kid["go2rtc"] # None /\ procs["go2rtc"][kid["go2rtc"]] = "up" => yaml = written

ProcsSound == OneAsterisk /\ ComesBack /\ StreamsAsSaved

(* go2rtc, which every save of the streams replaces ("clears old process",    *)
(* go2rtcSpawn.ts): no live process but the one in `child`.  It fails: the    *)
(* restart timer of a process that fell over starts another one beside the    *)
(* one a save has started by then.                                            *)
OneGo2rtc == Up("go2rtc") \subseteq {kid["go2rtc"]}
=============================================================================
