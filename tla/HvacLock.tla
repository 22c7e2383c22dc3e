------------------------------- MODULE HvacLock -------------------------------
(***************************************************************************)
(* The lock after switching between heating and cooling                    *)
(* (hvacSwitchLock.ts), which all clients show and which outlives a        *)
(* restart in a file with all locks.  commands.ts arms it after each       *)
(* climate.mode, whether or not one is running.  Times are abstract: a     *)
(* lock is armed until its time is over, and an entry with an older time   *)
(* is over before one with a newer.                                        *)
(***************************************************************************)
EXTENDS FiniteSets

CONSTANT Climates   \* devices with a lock duration

VARIABLES
    held,       \* locks: None, armed, or over and not yet removed
    file,       \* hvac-locks.json: the entries as they are seen now
    unsaved     \* history: devices whose last change could not be saved

lockVars == <<held, file, unsaved>>

LockStates == {"none", "armed", "over"}

\* The state has its type.
TypesOK ==
    /\ held \in [Climates -> LockStates] /\ file \in [Climates -> LockStates]
    /\ unsaved \subseteq Climates

Init ==
    /\ held = [d \in Climates |-> "none"]
    /\ file = held /\ unsaved = {}

Armed(locks) == [d \in Climates |-> IF locks[d] = "armed" THEN "armed" ELSE "none"]

\* MUTANT: the file is replaced by the entry that changed.
PersistsOne(changed, locks) ==
    file' = [d \in Climates |-> IF d \in changed THEN Armed(locks)[d] ELSE "none"] /\ unsaved' = {}
\* persistToDisk: all locks whose time is not over, through a temporary file; a
\* failure is logged.
Persists(changed, locks) ==
    \/ file' = Armed(locks) /\ unsaved' = {}
    \/ UNCHANGED file /\ unsaved' = unsaved \cup changed

\* climate.mode: armed (again) for its whole duration.
Arm(d) ==
    /\ held' = [held EXCEPT ![d] = "armed"]
    /\ Persists({d}, held')

\* The time of a lock is over; that of an entry left by a failed save was so
\* before.
TimeOver(d) ==
    /\ \/ /\ held[d] = "armed"
          /\ held' = [held EXCEPT ![d] = "over"]
          /\ file' = [file EXCEPT ![d] = IF @ = "armed" THEN "over" ELSE @]
       \/ /\ held[d] = "armed" /\ d \in unsaved /\ file[d] = "armed"
          /\ file' = [file EXCEPT ![d] = "over"]
          /\ UNCHANGED held
    /\ UNCHANGED unsaved

\* getAll: those that are over are removed, and the file is written if any was.
Prune ==
    /\ \E d \in Climates : held[d] = "over"
    /\ held' = Armed(held)
    /\ Persists({d \in Climates : held[d] = "over"}, held')

\* clearAll.
ClearAll ==
    /\ held' = [d \in Climates |-> "none"]
    /\ Persists(Climates, held')

\* A restart: loadFromDisk takes the entries whose time is not over.
Restart ==
    /\ held' = Armed(file)
    /\ unsaved' = {}
    /\ UNCHANGED file

Next == (\E d \in Climates : Arm(d) \/ TimeOver(d)) \/ Prune \/ ClearAll \/ Restart
-------------------------------------------------------------------------------
\* A lock that clients are shown is one that a restart keeps, and one that is
\* over does not come back, also when several devices are locked and saves
\* fail: only the devices of a failed save may differ.
LocksSurvive ==
    \A d \in Climates \ unsaved : held[d] = "armed" <=> file[d] = "armed"
===============================================================================
