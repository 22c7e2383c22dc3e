------------------------------ MODULE Scheduler ------------------------------
(***************************************************************************)
(* The time scheduler of the backend (src/backend/src/scheduler.ts): the   *)
(* table of outstanding timeouts, the timeout handler that runs a          *)
(* schedule and arms its next occurrence, "run now", and the requests that *)
(* rewrite the schedule list and rebuild the table while a handler may be  *)
(* suspended in `await fire(...)`.                                         *)
(*                                                                         *)
(* A day is abstracted to D clock slots; a schedule's trigger is the slot  *)
(* at which it fires, or NoSlot when nextFireTime finds no occurrence (an  *)
(* empty weekday mask, an astro trigger without a location).  The calendar *)
(* arithmetic behind nextFireTime is module Calendar.                      *)
(***************************************************************************)
EXTENDS Integers, FiniteSets

CONSTANTS
    Ids,              \* schedule ids
    Handles,          \* names of the setTimeout closures of one id; BOUND on
                      \* how many of them can be alive at once
    D,                \* clock slots in a day
    Slots,            \* trigger slots the installer chooses from
    None              \* "no entry" in the table and in the list

ASSUME SchedulerAssumption ==
    /\ D \in Nat \ {0}
    /\ Slots \subseteq 0..D
    /\ None \notin Handles /\ None \notin 0..D
    /\ None \notin [enabled : BOOLEAN, slot : 0..D]

VARIABLES
    schedules,  \* house.json `schedules`: id -> entry or None
    lastRun,    \* ids whose entry carries a lastRun stamp
    now,        \* the clock, a slot of the day
    task,       \* id -> handle -> state of that setTimeout closure
    timers,     \* the `timers` map: id -> handle or None
    manual,     \* ids with a runNow request awaiting fire()
    up,         \* is the process running?
    fired,      \* history: timed fires of each id during the current slot
    overlapped, \* history: ids whose table entry was rebuilt during a timed run
    missed      \* history: ids whose last arming came a moment too late

vars == <<schedules, lastRun, now, task, timers, manual, up, fired, overlapped, missed>>

NoSlot == D

Entry == [enabled : BOOLEAN, slot : Slots]

(* A closure is free, armed (left slots to go, s is the captured entry) or
   running, that is suspended in `await fire(live)`. *)
Free == [pc |-> "free"]
Task == {Free} \cup [pc : {"armed"}, left : 0..D, s : Entry]
               \cup [pc : {"running"}, s : Entry]

IsArmed(id, h)   == task[id][h].pc = "armed"
IsRunning(id, h) == task[id][h].pc = "running"
Running(id) == \E h \in Handles : IsRunning(id, h)

-----------------------------------------------------------------------------

(* Mutant: the search for an occurrence always starts tomorrow. *)
NextDelayFromTomorrow(slot) == slot - now + D

(* Mutant: `t >= from`, the occurrence of this slot is found again. *)
NextDelayNotStrict(slot) == IF slot >= now THEN slot - now ELSE slot - now + D

(* nextFireTime is strictly later than `from`: an occurrence due in this very
   slot is a whole day away. *)
NextDelay(slot) == IF slot > now THEN slot - now ELSE slot - now + D

(* scheduleOne's first two early returns: disabled, or no next fire time. *)
Armable(s) == s # None /\ s.enabled /\ s.slot # NoSlot

(* The third: `if (delayMs <= 0) return`.  next was found from an earlier reading
   of the clock than the one it is compared with; when the clock enters the next
   slot between the two (late), an occurrence at that slot is past already. *)
TooLate(s, late) == Armable(s) /\ late /\ NextDelay(s.slot) = 1

Arms(s, late) == Armable(s) /\ ~TooLate(s, late)

ArmedTask(s) == [pc |-> "armed", left |-> NextDelay(s.slot), s |-> s]

(* Mutant: the closure trusts the entry it captured when it was armed. *)
CapturedEntry(id, s) == s

(* getScheduleById(id) ?? s *)
Current(id, s) == IF schedules[id] # None THEN schedules[id] ELSE s

(* Mutant: the handler stays in the table while it runs. *)
StillListed(id) == timers

(* timers.delete(s.id), the first statement of the handler. *)
Unlisted(id) == [timers EXCEPT ![id] = None]

(* Mutant: the handler forgets to arm the next occurrence. *)
RearmNothing(id, h, s, tbl, late) ==
    /\ task' = [task EXCEPT ![id][h] = Free]
    /\ timers' = tbl
    /\ UNCHANGED missed

(* scheduleOne(s) called by handler h of id, over the table tbl: arm the next
   occurrence, or leave the table alone.  The dead closure's name is taken again
   for the new timeout. *)
Rearm(id, h, s, tbl, late) ==
    /\ task' = [task EXCEPT ![id][h] = IF Arms(s, late) THEN ArmedTask(s) ELSE Free]
    /\ timers' = IF Arms(s, late) THEN [tbl EXCEPT ![id] = h] ELSE tbl
    /\ missed' = IF TooLate(s, late) THEN missed \cup {id} ELSE missed \ {id}

(* Mutant: the table is emptied without cancelling the timeouts. *)
ClearedMapOnly(id, h) == FALSE

(* clearTimers: the timeouts that the table still names are cancelled. *)
Cleared(id, h) == timers[id] = h

Available(id) == {h \in Handles : task[id][h] = Free \/ Cleared(id, h)}
Pick(id) == CHOOSE h \in Handles : h \in Available(id)

(* rescheduleAll: cancel what the table names, then arm every entry of list; the
   occurrences of the ids in late come while they are being armed. *)
RescheduleAll(list, late) ==
    /\ \A id \in Ids : Armable(list[id]) => Available(id) # {}
    /\ task' = [id \in Ids |-> [h \in Handles |->
                   IF Arms(list[id], id \in late) /\ h = Pick(id) THEN ArmedTask(list[id])
                   ELSE IF Cleared(id, h) THEN Free
                   ELSE task[id][h]]]
    /\ timers' = [id \in Ids |-> IF Arms(list[id], id \in late) THEN Pick(id) ELSE None]
    /\ missed' = {id \in Ids : TooLate(list[id], id \in late)}

-----------------------------------------------------------------------------

Init ==
    /\ schedules \in [Ids -> Entry \cup {None}]
    /\ lastRun = {}
    /\ now = 0
    /\ task = [id \in Ids |-> [h \in Handles |-> Free]]
    /\ timers = [id \in Ids |-> None]
    /\ manual = {}
    /\ up = FALSE
    /\ fired = [id \in Ids |-> 0]
    /\ overlapped = {}
    /\ missed = {}

(* startScheduler: the table is built from the persisted list. *)
Boot(late) ==
    /\ ~up
    /\ up' = TRUE
    /\ RescheduleAll(schedules, late)
    /\ UNCHANGED <<schedules, lastRun, now, manual, fired, overlapped>>

(* The process dies (crash, update, watchdog): only house.json survives. *)
Crash ==
    /\ up
    /\ up' = FALSE
    /\ task' = [id \in Ids |-> [h \in Handles |-> Free]]
    /\ timers' = [id \in Ids |-> None]
    /\ manual' = {}
    /\ overlapped' = {id \in Ids : fired[id] > 1}
    /\ missed' = {}
    /\ UNCHANGED <<schedules, lastRun, now, fired>>

(* A list is stored and the table is rebuilt, in one synchronous handler:
   PUT /schedules, PUT /installer/house, the floors import and /config/reload.
   The lastRun stamps are the ones in the client's copy. *)
PutSchedules(list, stamps, late) ==
    /\ up
    /\ schedules' = list
    /\ lastRun' = stamps
    /\ RescheduleAll(list, late)
    /\ overlapped' = overlapped \cup {id \in Ids : Running(id)}
    /\ UNCHANGED <<now, manual, up, fired>>

(* Handler h of id is called: it leaves the table, re-reads its entry, and its
   conditions fail, so it arms the next occurrence without running. *)
TimerSkips(id, h, late) ==
    /\ up /\ IsArmed(id, h) /\ task[id][h].left = 0
    /\ Rearm(id, h, Current(id, task[id][h].s), Unlisted(id), late)
    /\ UNCHANGED <<schedules, lastRun, now, manual, up, fired, overlapped>>

(* Handler h of id is called, its conditions hold, and it awaits fire(live). *)
TimerFires(id, h) ==
    /\ up /\ IsArmed(id, h) /\ task[id][h].left = 0
    /\ task' = [task EXCEPT ![id][h] = [pc |-> "running", s |-> task[id][h].s]]
    /\ timers' = Unlisted(id)
    /\ fired' = [fired EXCEPT ![id] = IF @ < 2 THEN @ + 1 ELSE @]  \* BOUND 2
    /\ UNCHANGED <<schedules, lastRun, now, manual, up, overlapped, missed>>

(* markRan: stamp the entry if it is still there. *)
MarkRan(id) == lastRun' = IF schedules[id] # None THEN lastRun \cup {id} ELSE lastRun

(* The awaited fire settles (ok) or throws (caught: no stamp), and the handler
   arms the next occurrence of whatever entry the list has now. *)
RunEnds(id, h, ok, late) ==
    /\ up /\ IsRunning(id, h)
    /\ Rearm(id, h, Current(id, task[id][h].s), timers, late)
    /\ IF ok THEN MarkRan(id) ELSE UNCHANGED lastRun
    /\ UNCHANGED <<schedules, now, manual, up, fired, overlapped>>

(* POST /schedules/:id/run: fire at once, leaving the table alone. *)
RunNow(id) ==
    /\ up /\ schedules[id] # None
    /\ id \notin manual                 \* BOUND: one manual run of an id at a time
    /\ manual' = manual \cup {id}
    /\ UNCHANGED <<schedules, lastRun, now, task, timers, up, fired, overlapped, missed>>

RunNowEnds(id, ok) ==
    /\ id \in manual
    /\ manual' = manual \ {id}
    /\ IF ok THEN MarkRan(id) ELSE UNCHANGED lastRun
    /\ UNCHANGED <<schedules, now, task, timers, up, fired, overlapped, missed>>

(* One slot less to go. *)
Closer(t) == [t EXCEPT !.left = @ - 1]

(* The clock enters the next slot, once no callback of this one is due. *)
Tick ==
    /\ \A id \in Ids, h \in Handles : IsArmed(id, h) => task[id][h].left > 0
    /\ now' = IF now = D - 1 THEN 0 ELSE now + 1
    /\ task' = [id \in Ids |-> [h \in Handles |->
                   IF IsArmed(id, h) THEN Closer(task[id][h])
                   ELSE task[id][h]]]
    /\ fired' = [id \in Ids |-> 0]
    /\ UNCHANGED <<schedules, lastRun, timers, manual, up, overlapped, missed>>

Next ==
    \/ \E late \in SUBSET Ids : Boot(late)
    \/ Crash
    \/ \E list \in [Ids -> Entry \cup {None}], late \in SUBSET Ids :
          \E stamps \in SUBSET {id \in Ids : list[id] # None} : PutSchedules(list, stamps, late)
    \/ \E id \in Ids, h \in Handles, late \in BOOLEAN : TimerSkips(id, h, late)
    \/ \E id \in Ids, h \in Handles : TimerFires(id, h)
    \/ \E id \in Ids, h \in Handles, ok, late \in BOOLEAN : RunEnds(id, h, ok, late)
    \/ \E id \in Ids : RunNow(id)
    \/ \E id \in Ids, ok \in BOOLEAN : RunNowEnds(id, ok)
    \/ Tick

Spec == Init /\ [][Next]_vars

(* The event loop runs due callbacks, time passes, a fire settles, and the
   process supervisor starts the process again.  Nothing is assumed of users. *)
Fairness ==
    /\ WF_vars(\E late \in SUBSET Ids : Boot(late))
    /\ WF_vars(Tick)
    /\ \A id \in Ids, h \in Handles :
          /\ WF_vars(TimerFires(id, h) \/ \E late \in BOOLEAN : TimerSkips(id, h, late))
          /\ WF_vars(\E ok, late \in BOOLEAN : RunEnds(id, h, ok, late))

FairSpec == Spec /\ Fairness

-----------------------------------------------------------------------------
(* Properties *)

(* The state has its type. *)
TypeOK ==
    /\ schedules \in [Ids -> Entry \cup {None}]
    /\ lastRun \in SUBSET Ids
    /\ now \in 0..(D-1)
    /\ task \in [Ids -> [Handles -> Task]]
    /\ timers \in [Ids -> Handles \cup {None}]
    /\ manual \in SUBSET Ids
    /\ up \in BOOLEAN
    /\ fired \in [Ids -> 0..2]
    /\ overlapped \in SUBSET Ids
    /\ missed \in SUBSET Ids

(* The one way to lose a schedule is the return on `delayMs <= 0`: while the process
   runs, an enabled entry with a fire time whose last arming did not come in the
   instant of its occurrence has a timeout outstanding or a run in progress that
   will arm one, whatever edits, failed fires and skipped conditions went before. *)
NeverLost ==
    up => \A id \in Ids \ missed : Armable(schedules[id]) =>
              \E h \in Handles : IsArmed(id, h) \/ IsRunning(id, h)

(* What the table names is a live timeout: clearTimers is never handed one that
   has fired already, and never forgets one by naming a dead one instead. *)
TableNamesLive ==
    \A id \in Ids : timers[id] # None => IsArmed(id, timers[id])

(* s is armable, and h comes due in its slot, today or tomorrow. *)
ComesDueFor(id, h, s) ==
    Armable(s) /\ now + task[id][h].left \in {s.slot, s.slot + D}

(* The timeout the table names is the one the list asks for now, as long as the
   list has the id: a run that outlives an edit arms by the edited entry, not by
   the one its closure captured. *)
TableFollowsList ==
    \A id \in Ids, h \in Handles :
        timers[id] = h /\ schedules[id] # None => ComesDueFor(id, h, schedules[id])

(* The table of timeouts (scheduler.ts, timers) is what the list and the event
   loop say it is: what it names is alive and is what the list asks for. *)
TableSound == TableNamesLive /\ TableFollowsList

(* Unless the list was replaced during one of its runs, the outstanding timeout
   of an id is in the table (so an edit cancels it: no orphan) and comes due in
   the slot of its entry, which exists and is enabled (so it is never stale). *)
NoOrphans ==
    \A id \in Ids \ overlapped, h \in Handles :
        IsArmed(id, h) => timers[id] = h /\ ComesDueFor(id, h, schedules[id])

(* Unless the list was replaced during one of its runs, one occurrence of an
   entry is run once: edits, skipped conditions, failed fires, restarts and
   manual runs in the same slot never run it a second time. *)
SerialAtMostOnce == \A id \in Ids \ overlapped : fired[id] <= 1

(* Unless the list was replaced during one of its runs, a schedule
   (scheduleOne) has neither an orphan nor a second run of one occurrence. *)
SerialSound == NoOrphans /\ SerialAtMostOnce

(* "schedules here fire at most once per day per entry" (scheduler.ts:6), with
   no exception for edits during a run. *)
AtMostOncePerOccurrence == \A id \in Ids : fired[id] <= 1

(* "PUT /api/schedules ... saves the full list atomically and reboots the
   scheduler" (docs/SCHEDULES.md:104): what is armed afterwards is in the list. *)
OnlyListedArmed ==
    \A id \in Ids, h \in Handles : IsArmed(id, h) => schedules[id] # None

(* An entry that is no longer edited, in a process that stays up, comes due
   again and again, however often the table is rebuilt around it, once no arming
   of it comes in the instant of its occurrence any more. *)
KeepsComingDue ==
    \A id \in Ids, slot \in Slots \ {NoSlot} :
        <>[](up /\ id \notin missed /\ schedules[id] = [enabled |-> TRUE, slot |-> slot]) =>
            []<>(now = slot /\ \E h \in Handles : IsArmed(id, h) /\ task[id][h].left = 0)
=============================================================================
