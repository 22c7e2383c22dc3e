-------------------------- MODULE SchedulerProofs --------------------------
(***************************************************************************)
(* Proofs about module Scheduler, for every set of ids and handles and     *)
(* every length of the day, and that it implements DayPlan.                *)
(***************************************************************************)
EXTENDS SchedulerPlan, TLAPS

USE SchedulerAssumption

(* nextFireTime always lies in the future, at most a day ahead. *)
LEMMA NextDelayType ==
    ASSUME now \in 0..(D-1), NEW slot \in 0..(D-1)
    PROVE  NextDelay(slot) \in 1..D /\ now + NextDelay(slot) \in {slot, slot + D}
BY DEF NextDelay

(* An armable entry has a real slot. *)
LEMMA ArmableSlot ==
    ASSUME NEW s \in Entry \cup {None}, Armable(s)
    PROVE  s \in Entry /\ s.slot \in 0..(D-1) /\ s.enabled
<1>1. s \in Entry BY DEF Armable
<1>2. s.slot \in 0..D /\ s.slot # D BY <1>1 DEF Armable, NoSlot, Entry
<1> QED BY <1>1, <1>2 DEF Armable

(* Time brings a timeout closer and changes nothing else of it. *)
LEMMA CloserType ==
    ASSUME NEW t \in [pc : {"armed"}, left : 0..D, s : Entry], t.left > 0
    PROVE  /\ Closer(t) \in Task
           /\ Closer(t).pc = "armed" /\ Closer(t).s = t.s
           /\ Closer(t).left = t.left - 1
<1>1. Closer(t) = [pc |-> t.pc, left |-> t.left - 1, s |-> t.s] BY DEF Closer
<1>2. t.left - 1 \in 0..D OBVIOUS
<1> QED BY <1>1, <1>2 DEF Task

(* What scheduleOne arms is a timeout that has not come due yet. *)
LEMMA ArmedTaskType ==
    ASSUME now \in 0..(D-1), NEW s \in Entry \cup {None}, Armable(s)
    PROVE  /\ ArmedTask(s) \in Task
           /\ ArmedTask(s).pc = "armed"
           /\ ArmedTask(s).left \in 1..D
           /\ now + ArmedTask(s).left \in {s.slot, s.slot + D}
<1>1. s \in Entry /\ s.slot \in 0..(D-1) BY ArmableSlot
<1>2. NextDelay(s.slot) \in 1..D /\ now + NextDelay(s.slot) \in {s.slot, s.slot + D}
      BY <1>1, NextDelayType
<1> QED BY <1>1, <1>2 DEF ArmedTask, Task

(* A timeout's captured entry is an entry, and so is what replaces it. *)
LEMMA CurrentType ==
    ASSUME TypeOK, NEW id \in Ids, NEW h \in Handles, task[id][h] # Free
    PROVE  /\ task[id][h].s \in Entry
           /\ Current(id, task[id][h].s) \in Entry
           /\ task[id][h].s \in Entry \cup {None}
           /\ schedules[id] # None => Current(id, task[id][h].s) = schedules[id]
<1>1. task[id][h] \in Task /\ schedules[id] \in Entry \cup {None} BY DEF TypeOK
<1>2. task[id][h].s \in Entry BY <1>1 DEF Task
<1> QED BY <1>1, <1>2 DEF Current

(* rescheduleAll picks a free or cancelled handle for every entry it arms. *)
LEMMA PickAvailable ==
    ASSUME NEW id \in Ids, Available(id) # {}
    PROVE  Pick(id) \in Available(id) /\ Pick(id) \in Handles
BY DEF Pick, Available

(* Arming or freeing one closure, and rebuilding the table, keep the types. *)
LEMMA RearmType ==
    ASSUME TypeOK, NEW id \in Ids, NEW h \in Handles, NEW s \in Entry,
           NEW tbl \in [Ids -> Handles \cup {None}], NEW late, Rearm(id, h, s, tbl, late)
    PROVE  /\ task' \in [Ids -> [Handles -> Task]] /\ timers' \in [Ids -> Handles \cup {None}]
           /\ missed' \in SUBSET Ids
<1>1. Free \in Task BY DEF Task
<1>2. Arms(s, late) => ArmedTask(s) \in Task BY ArmedTaskType DEF TypeOK, Arms
<1> QED BY <1>1, <1>2 DEF Rearm, TypeOK

(* rescheduleAll leaves a table and closures of the right types, whatever list it
   is given. *)
LEMMA RescheduleType ==
    ASSUME TypeOK, NEW list \in [Ids -> Entry \cup {None}], NEW late, RescheduleAll(list, late)
    PROVE  /\ task' \in [Ids -> [Handles -> Task]] /\ timers' \in [Ids -> Handles \cup {None}]
           /\ missed' \in SUBSET Ids
<1>1. ASSUME NEW id \in Ids, NEW h \in Handles
      PROVE  (IF Arms(list[id], id \in late) /\ h = Pick(id) THEN ArmedTask(list[id])
              ELSE IF Cleared(id, h) THEN Free ELSE task[id][h]) \in Task
  <2>1. Free \in Task /\ task[id][h] \in Task BY DEF Task, TypeOK
  <2>2. Arms(list[id], id \in late) => ArmedTask(list[id]) \in Task
        BY ArmedTaskType DEF TypeOK, Arms
  <2> QED BY <2>1, <2>2
<1>2. ASSUME NEW id \in Ids, Arms(list[id], id \in late) PROVE Pick(id) \in Handles
      BY <1>2, PickAvailable DEF RescheduleAll, Arms
<1> QED BY <1>1, <1>2 DEF RescheduleAll

(* The initial states have the type. *)
LEMMA TypeInit == Init => TypeOK
<1> SUFFICES ASSUME Init PROVE TypeOK
    OBVIOUS
<1>1. now \in 0..(D-1) BY DEF Init
<1>2. Free \in Task BY DEF Task
<1>3. task \in [Ids -> [Handles -> Task]] BY <1>2 DEF Init
<1>4. fired \in [Ids -> 0..2] /\ timers \in [Ids -> Handles \cup {None}] BY DEF Init
<1>5. lastRun \in SUBSET Ids /\ manual \in SUBSET Ids /\ overlapped \in SUBSET Ids /\ missed \in SUBSET Ids
      BY DEF Init
<1>6. schedules \in [Ids -> Entry \cup {None}] /\ up \in BOOLEAN BY DEF Init
<1> QED BY <1>1, <1>3, <1>4, <1>5, <1>6 DEF TypeOK

(* Every handler, request and tick of scheduler.ts keeps the type. *)
LEMMA TypeStep == TypeOK /\ [Next]_vars => TypeOK'
<1> SUFFICES ASSUME TypeOK, [Next]_vars PROVE TypeOK'
    OBVIOUS
<1>1. ASSUME NEW late \in SUBSET Ids, Boot(late) PROVE TypeOK'
  <2>1. schedules \in [Ids -> Entry \cup {None}] BY DEF TypeOK
  <2>2. /\ task' \in [Ids -> [Handles -> Task]] /\ timers' \in [Ids -> Handles \cup {None}]
        /\ missed' \in SUBSET Ids
        BY <1>1, <2>1, RescheduleType DEF Boot
  <2> QED BY <1>1, <2>2 DEF Boot, TypeOK
<1>2. CASE Crash
  <2>1. Free \in Task BY DEF Task
  <2> QED BY <1>2, <2>1 DEF Crash, TypeOK
<1>3. ASSUME NEW list \in [Ids -> Entry \cup {None}],
             NEW stamps \in SUBSET {id \in Ids : list[id] # None},
             NEW late \in SUBSET Ids, PutSchedules(list, stamps, late)
      PROVE  TypeOK'
  <2>1. /\ task' \in [Ids -> [Handles -> Task]] /\ timers' \in [Ids -> Handles \cup {None}]
        /\ missed' \in SUBSET Ids
        BY <1>3, RescheduleType DEF PutSchedules
  <2> QED BY <1>3, <2>1 DEF PutSchedules, TypeOK
<1>4. ASSUME NEW id \in Ids, NEW h \in Handles, NEW late \in BOOLEAN, TimerSkips(id, h, late)
      PROVE  TypeOK'
  <2>1. Current(id, task[id][h].s) \in Entry
        BY <1>4, CurrentType DEF TimerSkips, IsArmed, Free
  <2>2. Unlisted(id) \in [Ids -> Handles \cup {None}] BY DEF Unlisted, TypeOK
  <2>3. /\ task' \in [Ids -> [Handles -> Task]] /\ timers' \in [Ids -> Handles \cup {None}]
        /\ missed' \in SUBSET Ids
        BY <1>4, <2>1, <2>2, RearmType DEF TimerSkips
  <2> QED BY <1>4, <2>3 DEF TimerSkips, TypeOK
<1>5. ASSUME NEW id \in Ids, NEW h \in Handles, TimerFires(id, h)
      PROVE  TypeOK'
  <2>1. [pc |-> "running", s |-> task[id][h].s] \in Task
        BY <1>5, CurrentType DEF TimerFires, IsArmed, Free, Task
  <2>2. task' \in [Ids -> [Handles -> Task]] /\ timers' \in [Ids -> Handles \cup {None}]
        BY <1>5, <2>1 DEF TimerFires, Unlisted, TypeOK
  <2>3. fired' \in [Ids -> 0..2] BY <1>5 DEF TimerFires, TypeOK
  <2> QED BY <1>5, <2>2, <2>3 DEF TimerFires, TypeOK
<1>6. ASSUME NEW id \in Ids, NEW h \in Handles, NEW ok \in BOOLEAN, NEW late \in BOOLEAN,
             RunEnds(id, h, ok, late)
      PROVE  TypeOK'
  <2>1. Current(id, task[id][h].s) \in Entry
        BY <1>6, CurrentType DEF RunEnds, IsRunning, Free
  <2>2. /\ task' \in [Ids -> [Handles -> Task]] /\ timers' \in [Ids -> Handles \cup {None}]
        /\ missed' \in SUBSET Ids
        BY <1>6, <2>1, RearmType DEF RunEnds, TypeOK
  <2>3. lastRun' \in SUBSET Ids BY <1>6 DEF RunEnds, MarkRan, TypeOK
  <2> QED BY <1>6, <2>2, <2>3 DEF RunEnds, TypeOK
<1>7. ASSUME NEW id \in Ids, RunNow(id)
      PROVE  TypeOK'
      BY <1>7 DEF RunNow, TypeOK
<1>8. ASSUME NEW id \in Ids, NEW ok \in BOOLEAN, RunNowEnds(id, ok)
      PROVE  TypeOK'
  <2>1. lastRun' \in SUBSET Ids BY <1>8 DEF RunNowEnds, MarkRan, TypeOK
  <2> QED BY <1>8, <2>1 DEF RunNowEnds, TypeOK
<1>9. CASE Tick
  <2>1. now' \in 0..(D-1) BY <1>9 DEF Tick, TypeOK
  <2>2. ASSUME NEW id \in Ids, NEW h \in Handles, IsArmed(id, h)
        PROVE  Closer(task[id][h]) \in Task
    <3>1. task[id][h] \in [pc : {"armed"}, left : 0..D, s : Entry]
          BY <2>2 DEF IsArmed, TypeOK, Task, Free
    <3>2. task[id][h].left > 0 BY <1>9, <2>2 DEF Tick
    <3> QED BY <3>1, <3>2, CloserType
  <2>3. task' \in [Ids -> [Handles -> Task]] BY <1>9, <2>2 DEF Tick, TypeOK
  <2> QED BY <1>9, <2>1, <2>3 DEF Tick, TypeOK
<1>10. CASE UNCHANGED vars
      BY <1>10 DEF vars, TypeOK
<1> QED BY <1>1, <1>2, <1>3, <1>4, <1>5, <1>6, <1>7, <1>8, <1>9, <1>10 DEF Next

(* Every state has its type, for every number of ids and handles. *)
THEOREM TypeCorrect == Spec => []TypeOK
BY TypeInit, TypeStep, PTL DEF Spec

-----------------------------------------------------------------------------
(* scheduleOne, called from handler h of id, touches no other closure and no other
   entry of the table, and arms h exactly when none of its returns is taken. *)
LEMMA RearmShape ==
    ASSUME TypeOK, NEW id \in Ids, NEW h \in Handles, NEW s \in Entry,
           NEW tbl \in [Ids -> Handles \cup {None}], NEW late, Rearm(id, h, s, tbl, late)
    PROVE  /\ Arms(s, late) => /\ task'[id][h] = ArmedTask(s)
                               /\ task'[id][h].pc = "armed"
                               /\ task'[id][h].left \in 1..D
                               /\ now + task'[id][h].left \in {s.slot, s.slot + D}
                               /\ timers'[id] = h
           /\ ~Arms(s, late) => task'[id][h] = Free /\ timers' = tbl
           /\ Armable(s) /\ id \notin missed' => Arms(s, late)
           /\ \A i \in Ids : i # id => (i \in missed' <=> i \in missed)
           /\ \A g \in Handles : g # h => task'[id][g] = task[id][g]
           /\ \A i \in Ids : i # id => task'[i] = task[i] /\ timers'[i] = tbl[i]
<1>1. task' = [task EXCEPT ![id][h] = IF Arms(s, late) THEN ArmedTask(s) ELSE Free]
      BY DEF Rearm
<1>2. task'[id][h] = (IF Arms(s, late) THEN ArmedTask(s) ELSE Free)
      BY <1>1 DEF TypeOK
<1>3. \A g \in Handles : g # h => task'[id][g] = task[id][g]
      BY <1>1 DEF TypeOK
<1>4. \A i \in Ids : i # id => task'[i] = task[i] /\ timers'[i] = tbl[i]
      BY <1>1 DEF TypeOK, Rearm
<1>5. Arms(s, late) => /\ ArmedTask(s).pc = "armed"
                       /\ ArmedTask(s).left \in 1..D
                       /\ now + ArmedTask(s).left \in {s.slot, s.slot + D}
      BY ArmedTaskType DEF TypeOK, Arms
<1>6. Arms(s, late) => timers'[id] = h BY DEF Rearm
<1>7. ~Arms(s, late) => timers' = tbl BY DEF Rearm
<1>8. /\ Armable(s) /\ id \notin missed' => Arms(s, late)
      /\ \A i \in Ids : i # id => (i \in missed' <=> i \in missed)
      BY DEF Rearm, Arms
<1> QED BY <1>2, <1>3, <1>4, <1>5, <1>6, <1>7, <1>8

(* rescheduleAll, handle by handle: an entry it arms gets one new timeout, which
   the table names; what the table named before is free; a run goes on. *)
LEMMA RescheduleShape ==
    ASSUME TypeOK, NEW list \in [Ids -> Entry \cup {None}], NEW late, RescheduleAll(list, late),
           NEW id \in Ids
    PROVE  /\ Armable(list[id]) /\ id \notin missed' => Arms(list[id], id \in late)
           /\ Arms(list[id], id \in late) => Armable(list[id])
           /\ Arms(list[id], id \in late) =>
                /\ Pick(id) \in Handles
                /\ Pick(id) \in Available(id)
                /\ task'[id][Pick(id)].pc = "armed"
                /\ task'[id][Pick(id)].left \in 1..D
                /\ now + task'[id][Pick(id)].left \in {list[id].slot, list[id].slot + D}
                /\ timers'[id] = Pick(id)
           /\ ~Arms(list[id], id \in late) => timers'[id] = None
           /\ \A h \in Handles : ~(Arms(list[id], id \in late) /\ h = Pick(id)) =>
                task'[id][h] = IF Cleared(id, h) THEN Free ELSE task[id][h]
<1>1. \A h \in Handles : task'[id][h] =
          IF Arms(list[id], id \in late) /\ h = Pick(id) THEN ArmedTask(list[id])
          ELSE IF Cleared(id, h) THEN Free ELSE task[id][h]
      BY DEF RescheduleAll
<1>2. timers'[id] = IF Arms(list[id], id \in late) THEN Pick(id) ELSE None
      BY DEF RescheduleAll
<1>3. Arms(list[id], id \in late) => Pick(id) \in Handles /\ Pick(id) \in Available(id)
      BY PickAvailable DEF RescheduleAll, Arms
<1>4. Arms(list[id], id \in late) =>
          /\ ArmedTask(list[id]).pc = "armed"
          /\ ArmedTask(list[id]).left \in 1..D
          /\ now + ArmedTask(list[id]).left \in {list[id].slot, list[id].slot + D}
      BY ArmedTaskType DEF TypeOK, Arms
<1>5. /\ Armable(list[id]) /\ id \notin missed' => Arms(list[id], id \in late)
      /\ Arms(list[id], id \in late) => Armable(list[id])
      BY DEF RescheduleAll, Arms
<1> QED BY <1>1, <1>2, <1>3, <1>4, <1>5

(* A tick of the clock brings each armed timeout one slot closer, changes no other
   closure, and happens only when no timeout is due. *)
LEMMA TickShape ==
    ASSUME TypeOK, Tick, NEW id \in Ids, NEW h \in Handles
    PROVE  /\ task'[id][h].pc = task[id][h].pc
           /\ IsArmed(id, h) => /\ task[id][h].left \in 1..D
                                /\ task'[id][h].left = task[id][h].left - 1
           /\ ~IsArmed(id, h) => task'[id][h] = task[id][h]
<1>1. task'[id][h] = IF IsArmed(id, h) THEN Closer(task[id][h]) ELSE task[id][h]
      BY DEF Tick
<1>2. ASSUME IsArmed(id, h)
      PROVE  task[id][h] \in [pc : {"armed"}, left : 0..D, s : Entry] /\ task[id][h].left > 0
  <2>1. task[id][h] \in Task BY DEF TypeOK
  <2> QED BY <1>2, <2>1 DEF IsArmed, Task, Free, Tick
<1>3. ASSUME IsArmed(id, h)
      PROVE  /\ Closer(task[id][h]).pc = task[id][h].pc
             /\ Closer(task[id][h]).left = task[id][h].left - 1
             /\ task[id][h].left \in 1..D
      BY <1>2, <1>3, CloserType DEF IsArmed
<1> QED BY <1>1, <1>3

-----------------------------------------------------------------------------
(* NeverLost is inductive over the type: each handler arms again, or leaves a run
   that will. *)
LEMMA NeverLostStep == TypeOK /\ NeverLost /\ [Next]_vars => NeverLost'
<1> DEFINE Alive(i) == \E g \in Handles : IsArmed(i, g) \/ IsRunning(i, g)
<1> SUFFICES ASSUME TypeOK, NeverLost, [Next]_vars, up',
                    NEW i \in Ids, i \notin missed', Armable(schedules[i])'
             PROVE  Alive(i)'
    BY DEF NeverLost
<1>1. ASSUME NEW late \in SUBSET Ids, Boot(late) PROVE Alive(i)'
  <2>1. schedules \in [Ids -> Entry \cup {None}] /\ schedules' = schedules
        BY <1>1 DEF Boot, TypeOK
  <2>2. Armable(schedules[i]) BY <2>1 DEF Armable
  <2>3. Pick(i) \in Handles /\ task'[i][Pick(i)].pc = "armed"
        BY <1>1, <2>1, <2>2, RescheduleShape DEF Boot
  <2> QED BY <2>3 DEF IsArmed
<1>2. CASE Crash
      BY <1>2 DEF Crash
<1>3. ASSUME NEW list \in [Ids -> Entry \cup {None}],
             NEW stamps \in SUBSET {id \in Ids : list[id] # None},
             NEW late \in SUBSET Ids, PutSchedules(list, stamps, late)
      PROVE  Alive(i)'
  <2>1. Armable(list[i]) BY <1>3 DEF PutSchedules, Armable
  <2>2. Pick(i) \in Handles /\ task'[i][Pick(i)].pc = "armed"
        BY <1>3, <2>1, RescheduleShape DEF PutSchedules
  <2> QED BY <2>2 DEF IsArmed
<1>4. ASSUME NEW id \in Ids, NEW h \in Handles, NEW late \in BOOLEAN, TimerSkips(id, h, late)
      PROVE  Alive(i)'
  <2>0. task[id][h] # Free BY <1>4 DEF TimerSkips, IsArmed, Free
  <2>1. Current(id, task[id][h].s) \in Entry /\ Unlisted(id) \in [Ids -> Handles \cup {None}]
        BY <2>0, CurrentType DEF Unlisted, TypeOK
  <2>2. up /\ schedules' = schedules /\ Armable(schedules[i])
        BY <1>4 DEF TimerSkips, Armable
  <2>3. CASE i = id
    <3>1. Current(id, task[id][h].s) = schedules[id] BY <2>2, <2>3 DEF Current, Armable
    <3>2. Arms(schedules[i], late) BY <1>4, <2>1, <2>2, <2>3, <3>1, RearmShape DEF TimerSkips
    <3>3. task'[id][h].pc = "armed" BY <1>4, <2>1, <2>3, <3>1, <3>2, RearmShape DEF TimerSkips
    <3> QED BY <2>3, <3>3 DEF IsArmed
  <2>4. CASE i # id
    <3>1. task'[i] = task[i] /\ i \notin missed BY <1>4, <2>1, <2>4, RearmShape DEF TimerSkips
    <3> QED BY <2>2, <3>1 DEF NeverLost, IsArmed, IsRunning
  <2> QED BY <2>3, <2>4
<1>5. ASSUME NEW id \in Ids, NEW h \in Handles, TimerFires(id, h)
      PROVE  Alive(i)'
  <2>1. task' = [task EXCEPT ![id][h] = [pc |-> "running", s |-> task[id][h].s]]
        BY <1>5 DEF TimerFires
  <2>2. task'[id][h].pc = "running" BY <2>1 DEF TypeOK
  <2>3. i # id => task'[i] = task[i] BY <2>1 DEF TypeOK
  <2>4. up /\ Armable(schedules[i]) /\ i \notin missed BY <1>5 DEF TimerFires, Armable
  <2> QED BY <2>2, <2>3, <2>4 DEF NeverLost, IsArmed, IsRunning
<1>6. ASSUME NEW id \in Ids, NEW h \in Handles, NEW ok \in BOOLEAN, NEW late \in BOOLEAN,
             RunEnds(id, h, ok, late)
      PROVE  Alive(i)'
  <2>0. task[id][h] # Free BY <1>6 DEF RunEnds, IsRunning, Free
  <2>1. Current(id, task[id][h].s) \in Entry /\ timers \in [Ids -> Handles \cup {None}]
        BY <2>0, CurrentType DEF TypeOK
  <2>2. up /\ schedules' = schedules /\ Armable(schedules[i])
        BY <1>6 DEF RunEnds, Armable
  <2>3. CASE i = id
    <3>1. Current(id, task[id][h].s) = schedules[id] BY <2>2, <2>3 DEF Current, Armable
    <3>2. Arms(schedules[i], late) BY <1>6, <2>1, <2>2, <2>3, <3>1, RearmShape DEF RunEnds
    <3>3. task'[id][h].pc = "armed" BY <1>6, <2>1, <2>3, <3>1, <3>2, RearmShape DEF RunEnds
    <3> QED BY <2>3, <3>3 DEF IsArmed
  <2>4. CASE i # id
    <3>1. task'[i] = task[i] /\ i \notin missed BY <1>6, <2>1, <2>4, RearmShape DEF RunEnds
    <3> QED BY <2>2, <3>1 DEF NeverLost, IsArmed, IsRunning
  <2> QED BY <2>3, <2>4
<1>7. ASSUME NEW id \in Ids, RunNow(id)
      PROVE  Alive(i)'
      BY <1>7 DEF RunNow, NeverLost, Armable, IsArmed, IsRunning
<1>8. ASSUME NEW id \in Ids, NEW ok \in BOOLEAN, RunNowEnds(id, ok)
      PROVE  Alive(i)'
      BY <1>8 DEF RunNowEnds, NeverLost, Armable, IsArmed, IsRunning
<1>9. CASE Tick
  <2>1. up /\ Armable(schedules[i]) /\ i \notin missed BY <1>9 DEF Tick, Armable
  <2>2. PICK g \in Handles : IsArmed(i, g) \/ IsRunning(i, g) BY <2>1 DEF NeverLost
  <2>3. task'[i][g].pc = task[i][g].pc BY <1>9, TickShape
  <2> QED BY <2>2, <2>3 DEF IsArmed, IsRunning
<1>10. CASE UNCHANGED vars
      BY <1>10 DEF vars, NeverLost, Armable, IsArmed, IsRunning
<1> QED BY <1>1, <1>2, <1>3, <1>4, <1>5, <1>6, <1>7, <1>8, <1>9, <1>10 DEF Next

(* No enabled schedule is ever dropped, whatever edits, failed fires, skipped
   conditions and restarts happen, but by the return on `delayMs <= 0`: with any
   number of ids, the ids in missed are the only enabled ones without a timeout. *)
THEOREM NothingLost == Spec => []NeverLost
<1>1. Init => NeverLost BY DEF Init, NeverLost
<1> QED BY <1>1, NeverLostStep, TypeCorrect, PTL DEF Spec

-----------------------------------------------------------------------------
(* The table and the list: what the table names is armed, and by the entry that
   the list has, if any.  Both table properties together are inductive. *)
Named(i, h) ==
    /\ IsArmed(i, h)
    /\ schedules[i] # None => ComesDueFor(i, h, schedules[i])

TableInv == \A i \in Ids, h \in Handles : timers[i] = h => Named(i, h)

(* A closure, a table entry and a list entry that a step leaves alone stay right. *)
LEMMA NamedKeeps ==
    ASSUME TableInv, NEW i \in Ids, NEW g \in Handles, timers[i] = g,
           task'[i][g] = task[i][g], schedules'[i] = schedules[i], now' = now
    PROVE  Named(i, g)'
<1>1. Named(i, g) BY DEF TableInv
<1> QED BY <1>1 DEF Named, IsArmed, ComesDueFor, Armable

(* scheduleOne, called by a handler over a table that names live timeouts only,
   leaves such a table: it names the handler's own closure, armed by the entry
   the list has. *)
LEMMA RearmNames ==
    ASSUME TypeOK, TableInv, NEW id \in Ids, NEW h \in Handles, task[id][h] # Free,
           NEW tbl \in [Ids -> Handles \cup {None}],
           \A i \in Ids : tbl[i] \in {timers[i], None},
           tbl[id] # h,
           NEW late, Rearm(id, h, Current(id, task[id][h].s), tbl, late),
           schedules' = schedules, now' = now,
           NEW i \in Ids, NEW g \in Handles, timers'[i] = g
    PROVE  Named(i, g)'
<1> DEFINE s == Current(id, task[id][h].s)
<1>1. s \in Entry /\ (schedules[id] # None => s = schedules[id]) BY CurrentType
<1>2. /\ Arms(s, late) => /\ task'[id][h].pc = "armed"
                          /\ now + task'[id][h].left \in {s.slot, s.slot + D}
                          /\ timers'[id] = h
      /\ ~Arms(s, late) => timers' = tbl
      /\ \A k \in Handles : k # h => task'[id][k] = task[id][k]
      /\ \A k \in Ids : k # id => task'[k] = task[k] /\ timers'[k] = tbl[k]
      BY <1>1, RearmShape
<1>3. CASE i = id /\ Arms(s, late)
      BY <1>1, <1>2, <1>3 DEF Named, IsArmed, ComesDueFor, Armable, Arms
<1>4. CASE i = id /\ ~Arms(s, late)
  <2>1. timers[i] = g /\ g # h BY <1>2, <1>4
  <2> QED BY <1>2, <1>4, <2>1, NamedKeeps
<1>5. CASE i # id
  <2>1. timers[i] = g /\ task'[i] = task[i] BY <1>2, <1>5
  <2> QED BY <2>1, NamedKeeps
<1> QED BY <1>3, <1>4, <1>5

(* Every handler, request and tick keeps what the table names armed and right. *)
LEMMA TableStep == TypeOK /\ TableInv /\ [Next]_vars => TableInv'
<1> SUFFICES ASSUME TypeOK, TableInv, [Next]_vars,
                    NEW i \in Ids, NEW g \in Handles, timers'[i] = g
             PROVE  Named(i, g)'
    BY DEF TableInv
<1>1. ASSUME NEW list \in [Ids -> Entry \cup {None}], NEW late, RescheduleAll(list, late),
             schedules' = list, now' = now
      PROVE  Named(i, g)'
  <2>1. Arms(list[i], i \in late) /\ Armable(list[i]) /\ g = Pick(i)
        BY <1>1, RescheduleShape
  <2>2. task'[i][g].pc = "armed" /\ now + task'[i][g].left \in {list[i].slot, list[i].slot + D}
        BY <1>1, <2>1, RescheduleShape
  <2> QED BY <1>1, <2>1, <2>2 DEF Named, IsArmed, ComesDueFor, Armable
<1>2. ASSUME NEW late \in SUBSET Ids, Boot(late) PROVE Named(i, g)'
      BY <1>1, <1>2 DEF Boot, TypeOK
<1>3. CASE Crash
      BY <1>3 DEF Crash
<1>4. ASSUME NEW list \in [Ids -> Entry \cup {None}],
             NEW stamps \in SUBSET {id \in Ids : list[id] # None},
             NEW late \in SUBSET Ids, PutSchedules(list, stamps, late)
      PROVE  Named(i, g)'
      BY <1>1, <1>4 DEF PutSchedules
<1>5. ASSUME NEW id \in Ids, NEW h \in Handles, NEW late \in BOOLEAN, TimerSkips(id, h, late)
      PROVE  Named(i, g)'
  <2>1. task[id][h] # Free BY <1>5 DEF TimerSkips, IsArmed, Free
  <2>2. /\ Unlisted(id) \in [Ids -> Handles \cup {None}]
        /\ \A k \in Ids : Unlisted(id)[k] \in {timers[k], None}
        /\ Unlisted(id)[id] # h
        BY DEF Unlisted, TypeOK
  <2> QED BY <1>5, <2>1, <2>2, RearmNames DEF TimerSkips
<1>6. ASSUME NEW id \in Ids, NEW h \in Handles, TimerFires(id, h)
      PROVE  Named(i, g)'
  <2>1. timers' = [timers EXCEPT ![id] = None] BY <1>6 DEF TimerFires, Unlisted
  <2>2. i # id /\ timers[i] = g BY <2>1 DEF TypeOK
  <2>3. task'[i] = task[i] BY <1>6, <2>2 DEF TimerFires, TypeOK
  <2> QED BY <1>6, <2>2, <2>3, NamedKeeps DEF TimerFires
<1>7. ASSUME NEW id \in Ids, NEW h \in Handles, NEW ok \in BOOLEAN, NEW late \in BOOLEAN,
             RunEnds(id, h, ok, late)
      PROVE  Named(i, g)'
  <2>1. task[id][h] # Free BY <1>7 DEF RunEnds, IsRunning, Free
  <2>2. timers[id] # h BY <1>7 DEF RunEnds, TableInv, Named, IsArmed, IsRunning
  <2>3. timers \in [Ids -> Handles \cup {None}] BY DEF TypeOK
  <2> QED BY <1>7, <2>1, <2>2, <2>3, RearmNames DEF RunEnds
<1>8. ASSUME UNCHANGED <<schedules, now, task, timers>>
      PROVE  Named(i, g)'
      BY <1>8, NamedKeeps
<1>9. ASSUME NEW id \in Ids, RunNow(id)
      PROVE  Named(i, g)'
      BY <1>8, <1>9 DEF RunNow
<1>10. ASSUME NEW id \in Ids, NEW ok \in BOOLEAN, RunNowEnds(id, ok)
      PROVE  Named(i, g)'
      BY <1>8, <1>10 DEF RunNowEnds
<1>11. CASE Tick
  <2>1. timers[i] = g /\ schedules' = schedules BY <1>11 DEF Tick
  <2>2. Named(i, g) BY <2>1 DEF TableInv
  <2>3. /\ task'[i][g].pc = "armed"
        /\ task[i][g].left \in 1..D /\ task'[i][g].left = task[i][g].left - 1
        BY <1>11, <2>2, TickShape DEF Named, IsArmed
  <2>4. ASSUME schedules[i] # None
        PROVE  /\ Armable(schedules[i])
               /\ now' + task'[i][g].left \in {schedules[i].slot, schedules[i].slot + D}
    <3>1. Armable(schedules[i]) /\ now + task[i][g].left \in {schedules[i].slot, schedules[i].slot + D}
          BY <2>2, <2>4 DEF Named, ComesDueFor
    <3>2. schedules[i].slot \in 0..(D-1) BY <3>1, ArmableSlot DEF TypeOK
    <3>3. now \in 0..(D-1) /\ now' = IF now = D - 1 THEN 0 ELSE now + 1
          BY <1>11 DEF Tick, TypeOK
    <3>4. CASE now # D - 1
          BY <2>3, <3>1, <3>2, <3>3, <3>4
    <3>5. CASE now = D - 1
          BY <2>3, <3>1, <3>2, <3>3, <3>5
    <3> QED BY <3>1, <3>4, <3>5
  <2> QED BY <2>1, <2>3, <2>4 DEF Named, IsArmed, ComesDueFor, Armable
<1>12. CASE UNCHANGED vars
      BY <1>8, <1>12 DEF vars
<1> QED BY <1>2, <1>3, <1>4, <1>5, <1>6, <1>7, <1>9, <1>10, <1>11, <1>12 DEF Next

(* The two table properties hold together, always. *)
LEMMA TableAlways == Spec => [](TypeOK /\ TableInv)
<1>1. Init => TypeOK /\ TableInv BY TypeInit DEF Init, TableInv
<1>2. TypeOK /\ TableInv /\ [Next]_vars => (TypeOK /\ TableInv)' BY TypeStep, TableStep
<1> QED BY <1>1, <1>2, PTL DEF Spec

(* The table never names a timeout that has fired, so clearTimers cancels what it
   names, whatever edits overlapped with runs. *)
THEOREM TableIsLive == Spec => []TableNamesLive
<1>1. TypeOK /\ TableInv => TableNamesLive BY DEF TypeOK, TableInv, Named, TableNamesLive
<1> QED BY <1>1, TableAlways, PTL

(* The timeout in the table is due in the slot of the entry the list has now, also
   when the list was edited during the run that armed it. *)
THEOREM TableFollows == Spec => []TableFollowsList
<1>1. TypeOK /\ TableInv => TableFollowsList BY DEF TableInv, Named, TableFollowsList
<1> QED BY <1>1, TableAlways, PTL

(* Both: the table of timeouts agrees with the event loop and with the list. *)
THEOREM TableAlwaysSound == Spec => []TableSound
<1>1. TableNamesLive /\ TableFollowsList => TableSound BY DEF TableSound
<1> QED BY <1>1, TableIsLive, TableFollows, PTL

-----------------------------------------------------------------------------
(* The inductive invariant behind NoOrphans and SerialAtMostOnce.  Neither is
   inductive alone: that the one timeout of an id is in the table needs that the
   id has a single live closure, and that a due timeout has not been run yet in
   this slot needs that after a fire nothing of the id is due before tomorrow. *)
OneClosure(id) ==
    \A g, h \in Handles : task[id][g] # Free /\ task[id][h] # Free => g = h

ArmedInTable(id) ==
    \A h \in Handles : IsArmed(id, h) => timers[id] = h /\ ComesDueFor(id, h, schedules[id])

RunInList(id) == Running(id) => schedules[id] # None

FiredOnce(id) ==
    /\ fired[id] <= 1
    /\ fired[id] = 1 => \A h \in Handles : IsArmed(id, h) => task[id][h].left > 0

Serial(id) == OneClosure(id) /\ ArmedInTable(id) /\ RunInList(id) /\ FiredOnce(id)

AllFreeWhenDown == ~up => \A id \in Ids, h \in Handles : task[id][h] = Free

SerialInv == AllFreeWhenDown /\ \A id \in Ids \ overlapped : Serial(id)

(* A step that leaves alone what Serial reads of an id keeps it. *)
LEMMA SerialFrame ==
    ASSUME NEW id \in Ids, Serial(id), task'[id] = task[id], timers'[id] = timers[id],
           schedules'[id] = schedules[id], now' = now, fired'[id] = fired[id]
    PROVE  Serial(id)'
BY DEF Serial, OneClosure, ArmedInTable, RunInList, FiredOnce, ComesDueFor, Armable,
       IsArmed, IsRunning, Running

(* Handler h of a serial id arms the next occurrence of the listed entry. *)
LEMMA SerialRearm ==
    ASSUME TypeOK, NEW id \in Ids, NEW h \in Handles, Serial(id), task[id][h] # Free,
           NEW tbl \in [Ids -> Handles \cup {None}],
           schedules[id] # None, NEW late,
           Rearm(id, h, Current(id, task[id][h].s), tbl, late),
           schedules' = schedules, now' = now, fired' = fired
    PROVE  Serial(id)'
<1> DEFINE s == schedules[id]
<1>1. Current(id, task[id][h].s) = s /\ s \in Entry BY CurrentType
<1>2. \A g \in Handles : g # h => task'[id][g] = Free
  <2>1. \A g \in Handles : g # h => task[id][g] = Free BY DEF Serial, OneClosure
  <2> QED BY <1>1, <2>1, RearmShape
<1>3. CASE Arms(s, late)
  <2>1. /\ task'[id][h].pc = "armed" /\ task'[id][h].left \in 1..D
        /\ now + task'[id][h].left \in {s.slot, s.slot + D}
        /\ timers'[id] = h
        BY <1>1, <1>3, RearmShape
  <2>2. \A g \in Handles : task'[id][g].pc # "free" => g = h BY <1>2 DEF Free
  <2>3. OneClosure(id)' BY <1>2 DEF OneClosure, Free
  <2>4. ArmedInTable(id)'
        BY <1>3, <2>1, <2>2 DEF ArmedInTable, IsArmed, ComesDueFor, Armable, Arms
  <2>5. RunInList(id)' BY DEF RunInList
  <2>6. FiredOnce(id)' BY <2>1, <2>2 DEF FiredOnce, IsArmed, Serial
  <2> QED BY <2>3, <2>4, <2>5, <2>6 DEF Serial
<1>4. CASE ~Arms(s, late)
  <2>1. \A g \in Handles : task'[id][g] = Free BY <1>1, <1>2, <1>4, RearmShape
  <2>2. \A g \in Handles : task'[id][g].pc = "free" BY <2>1 DEF Free
  <2> QED BY <2>1, <2>2 DEF Serial, OneClosure, ArmedInTable, RunInList, FiredOnce,
                            IsArmed, IsRunning, Running
<1> QED BY <1>3, <1>4

(* rescheduleAll of an id that is not running leaves it one timeout, the one the
   new list asks for. *)
LEMMA SerialReschedule ==
    ASSUME TypeOK, NEW list \in [Ids -> Entry \cup {None}], NEW late, RescheduleAll(list, late),
           NEW id \in Ids, Serial(id), ~Running(id),
           schedules' = list, now' = now, fired' = fired
    PROVE  Serial(id)'
<1>1. \A h \in Handles : task[id][h] = Free \/ Cleared(id, h)
  <2>1. SUFFICES ASSUME NEW h \in Handles, task[id][h] # Free PROVE Cleared(id, h)
        OBVIOUS
  <2>2. IsArmed(id, h)
    <3>1. task[id][h] \in Task BY DEF TypeOK
    <3> QED BY <2>1, <3>1 DEF Task, IsArmed, Running, IsRunning
  <2> QED BY <2>2 DEF Serial, ArmedInTable, Cleared
<1>2. \A h \in Handles : ~(Arms(list[id], id \in late) /\ h = Pick(id)) => task'[id][h] = Free
      BY <1>1, RescheduleShape
<1>3. \A h \in Handles : ~(Arms(list[id], id \in late) /\ h = Pick(id)) => task'[id][h].pc = "free"
      BY <1>2 DEF Free
<1>4. OneClosure(id)' BY <1>2 DEF OneClosure
<1>5. ArmedInTable(id)'
  <2> SUFFICES ASSUME NEW h \in Handles, task'[id][h].pc = "armed"
               PROVE  timers'[id] = h /\ ComesDueFor(id, h, schedules[id])'
      BY DEF ArmedInTable, IsArmed
  <2>1. Arms(list[id], id \in late) /\ h = Pick(id) BY <1>3
  <2> QED BY <2>1, RescheduleShape DEF ComesDueFor, Armable, Arms
<1>6. RunInList(id)'
  <2> SUFFICES ASSUME NEW h \in Handles, task'[id][h].pc = "running" PROVE FALSE
      BY DEF RunInList, Running, IsRunning
  <2>1. Arms(list[id], id \in late) /\ h = Pick(id) BY <1>3
  <2> QED BY <2>1, RescheduleShape
<1>7. FiredOnce(id)'
  <2>1. ASSUME NEW h \in Handles, task'[id][h].pc = "armed" PROVE task'[id][h].left > 0
    <3>1. Arms(list[id], id \in late) /\ h = Pick(id) BY <1>3, <2>1
    <3>2. task'[id][h].left \in 1..D BY <3>1, RescheduleShape
    <3> QED BY <3>2
  <2> QED BY <2>1 DEF FiredOnce, IsArmed, Serial
<1> QED BY <1>4, <1>5, <1>6, <1>7 DEF Serial

(* No closure survives the process. *)
LEMMA AllFreeStep == TypeOK /\ AllFreeWhenDown /\ [Next]_vars => AllFreeWhenDown'
<1> SUFFICES ASSUME TypeOK, AllFreeWhenDown, [Next]_vars, ~up', NEW id \in Ids, NEW h \in Handles
             PROVE  task'[id][h] = Free
    BY DEF AllFreeWhenDown
<1>1. CASE Crash
      BY <1>1 DEF Crash
<1>2. CASE Tick
  <2>1. task[id][h] = Free BY <1>2 DEF Tick, AllFreeWhenDown
  <2>2. ~IsArmed(id, h) BY <2>1 DEF IsArmed, Free
  <2> QED BY <1>2, <2>1, <2>2, TickShape
<1>3. ASSUME NEW i \in Ids, NEW ok \in BOOLEAN, RunNowEnds(i, ok)
      PROVE  task'[id][h] = Free
      BY <1>3 DEF RunNowEnds, AllFreeWhenDown
<1>4. CASE UNCHANGED vars
      BY <1>4 DEF vars, AllFreeWhenDown
<1> QED BY <1>1, <1>2, <1>3, <1>4
        DEF Next, Boot, PutSchedules, TimerSkips, TimerFires, RunEnds, RunNow

(* Every step keeps, for each id whose entry was not replaced during a run, that
   one closure at most is alive and that the table and the list agree with it. *)
LEMMA SerialStep ==
    TypeOK /\ SerialInv /\ [Next]_vars => \A id \in Ids \ overlapped' : Serial(id)'
<1> SUFFICES ASSUME TypeOK, SerialInv, [Next]_vars, NEW i \in Ids, i \notin overlapped'
             PROVE  Serial(i)'
    OBVIOUS
<1>1. ASSUME NEW late \in SUBSET Ids, Boot(late) PROVE Serial(i)'
  <2>1. \A h \in Handles : task[i][h] = Free BY <1>1 DEF Boot, SerialInv, AllFreeWhenDown
  <2>2. ~Running(i) BY <2>1 DEF Running, IsRunning, Free
  <2>3. Serial(i) BY <1>1 DEF Boot, SerialInv
  <2>4. schedules \in [Ids -> Entry \cup {None}] BY DEF TypeOK
  <2> QED BY <1>1, <2>2, <2>3, <2>4, SerialReschedule DEF Boot
<1>2. CASE Crash
  <2>1. \A h \in Handles : task'[i][h] = Free BY <1>2 DEF Crash
  <2>2. \A h \in Handles : task'[i][h].pc = "free" BY <2>1 DEF Free
  <2>3. fired'[i] <= 1 BY <1>2 DEF Crash, TypeOK
  <2> QED BY <2>1, <2>2, <2>3 DEF Serial, OneClosure, ArmedInTable, RunInList, FiredOnce,
                                  IsArmed, IsRunning, Running
<1>3. ASSUME NEW list \in [Ids -> Entry \cup {None}],
             NEW stamps \in SUBSET {id \in Ids : list[id] # None},
             NEW late \in SUBSET Ids, PutSchedules(list, stamps, late)
      PROVE  Serial(i)'
  <2>1. i \notin overlapped /\ ~Running(i) BY <1>3 DEF PutSchedules
  <2>2. Serial(i) BY <2>1 DEF SerialInv
  <2> QED BY <1>3, <2>1, <2>2, SerialReschedule DEF PutSchedules
<1>4. ASSUME NEW id \in Ids, NEW h \in Handles, NEW late \in BOOLEAN, TimerSkips(id, h, late)
      PROVE  Serial(i)'
  <2>1. i \notin overlapped /\ Serial(i) BY <1>4 DEF TimerSkips, SerialInv
  <2>2. task[id][h] # Free BY <1>4 DEF TimerSkips, IsArmed, Free
  <2>3. Unlisted(id) \in [Ids -> Handles \cup {None}] BY DEF Unlisted, TypeOK
  <2>4. CASE i = id
    <3>1. schedules[id] # None
          BY <1>4, <2>1, <2>4 DEF TimerSkips, Serial, ArmedInTable, ComesDueFor, Armable
    <3> QED BY <1>4, <2>1, <2>2, <2>3, <2>4, <3>1, SerialRearm DEF TimerSkips
  <2>5. CASE i # id
    <3>1. Current(id, task[id][h].s) \in Entry BY <2>2, CurrentType
    <3>2. task'[i] = task[i] /\ timers'[i] = Unlisted(id)[i]
          BY <1>4, <2>3, <2>5, <3>1, RearmShape DEF TimerSkips
    <3>3. Unlisted(id)[i] = timers[i] BY <2>5 DEF Unlisted, TypeOK
    <3> QED BY <1>4, <2>1, <3>2, <3>3, SerialFrame DEF TimerSkips
  <2> QED BY <2>4, <2>5
<1>5. ASSUME NEW id \in Ids, NEW h \in Handles, TimerFires(id, h)
      PROVE  Serial(i)'
  <2>1. i \notin overlapped /\ Serial(i) BY <1>5 DEF TimerFires, SerialInv
  <2>2. task' = [task EXCEPT ![id][h] = [pc |-> "running", s |-> task[id][h].s]]
        BY <1>5 DEF TimerFires
  <2>3. CASE i = id
    <3>1. task[id][h] # Free BY <1>5 DEF TimerFires, IsArmed, Free
    <3>2. \A g \in Handles : g # h => task[id][g] = Free
          BY <2>1, <2>3, <3>1 DEF Serial, OneClosure
    <3>3. /\ task'[id][h].pc = "running"
          /\ \A g \in Handles : g # h => task'[id][g] = Free
          BY <2>2, <3>2 DEF TypeOK
    <3>4. \A g \in Handles : g # h => task'[id][g].pc = "free" BY <3>3 DEF Free
    <3>5. schedules'[id] # None
          BY <1>5, <2>1, <2>3 DEF TimerFires, Serial, ArmedInTable, ComesDueFor, Armable
    <3>6. fired[id] # 1 /\ fired[id] <= 1
          BY <1>5, <2>1, <2>3 DEF TimerFires, Serial, FiredOnce, TypeOK
    <3>7. fired'[id] = 1
          BY <1>5, <3>6 DEF TimerFires, TypeOK
    <3> QED BY <2>3, <3>3, <3>4, <3>5, <3>7
            DEF Serial, OneClosure, ArmedInTable, RunInList, FiredOnce, IsArmed
  <2>4. CASE i # id
    <3>1. task'[i] = task[i] BY <2>2, <2>4 DEF TypeOK
    <3>2. timers'[i] = timers[i] BY <1>5, <2>4 DEF TimerFires, Unlisted, TypeOK
    <3>3. fired'[i] = fired[i] BY <1>5, <2>4 DEF TimerFires, TypeOK
    <3> QED BY <1>5, <2>1, <3>1, <3>2, <3>3, SerialFrame DEF TimerFires
  <2> QED BY <2>3, <2>4
<1>6. ASSUME NEW id \in Ids, NEW h \in Handles, NEW ok \in BOOLEAN, NEW late \in BOOLEAN,
             RunEnds(id, h, ok, late)
      PROVE  Serial(i)'
  <2>1. i \notin overlapped /\ Serial(i) BY <1>6 DEF RunEnds, SerialInv
  <2>2. task[id][h] # Free BY <1>6 DEF RunEnds, IsRunning, Free
  <2>3. timers \in [Ids -> Handles \cup {None}] BY DEF TypeOK
  <2>4. CASE i = id
    <3>1. schedules[id] # None BY <1>6, <2>1, <2>4 DEF RunEnds, Serial, RunInList, Running
    <3> QED BY <1>6, <2>1, <2>2, <2>3, <2>4, <3>1, SerialRearm DEF RunEnds
  <2>5. CASE i # id
    <3>1. Current(id, task[id][h].s) \in Entry BY <2>2, CurrentType
    <3>2. task'[i] = task[i] /\ timers'[i] = timers[i]
          BY <1>6, <2>3, <2>5, <3>1, RearmShape DEF RunEnds
    <3> QED BY <1>6, <2>1, <3>2, SerialFrame DEF RunEnds
  <2> QED BY <2>4, <2>5
<1>7. ASSUME NEW id \in Ids, RunNow(id)
      PROVE  Serial(i)'
  <2>1. Serial(i) BY <1>7 DEF RunNow, SerialInv
  <2> QED BY <1>7, <2>1, SerialFrame DEF RunNow
<1>8. ASSUME NEW id \in Ids, NEW ok \in BOOLEAN, RunNowEnds(id, ok)
      PROVE  Serial(i)'
  <2>1. Serial(i) BY <1>8 DEF RunNowEnds, SerialInv
  <2> QED BY <1>8, <2>1, SerialFrame DEF RunNowEnds
<1>9. CASE Tick
  <2>1. Serial(i) /\ schedules' = schedules /\ timers' = timers
        BY <1>9 DEF Tick, SerialInv
  <2>2. \A h \in Handles : task'[i][h].pc = task[i][h].pc BY <1>9, TickShape
  <2>3. OneClosure(i)'
    <3> SUFFICES ASSUME NEW g \in Handles, NEW h \in Handles,
                        task'[i][g] # Free, task'[i][h] # Free
                 PROVE  g = h
        BY DEF OneClosure
    <3>1. ASSUME NEW k \in Handles, task[i][k] = Free PROVE task'[i][k] = Free
      <4>1. ~IsArmed(i, k) BY <3>1 DEF IsArmed, Free
      <4> QED BY <1>9, <3>1, <4>1, TickShape
    <3> QED BY <2>1, <3>1 DEF Serial, OneClosure
  <2>4. ArmedInTable(i)'
    <3> SUFFICES ASSUME NEW h \in Handles, task'[i][h].pc = "armed"
                 PROVE  timers'[i] = h /\ ComesDueFor(i, h, schedules[i])'
        BY DEF ArmedInTable, IsArmed
    <3>1. IsArmed(i, h) BY <2>2 DEF IsArmed
    <3>2. timers[i] = h /\ Armable(schedules[i])
          /\ now + task[i][h].left \in {schedules[i].slot, schedules[i].slot + D}
          BY <2>1, <3>1 DEF Serial, ArmedInTable, ComesDueFor
    <3>3. schedules[i].slot \in 0..(D-1) BY <3>2, ArmableSlot DEF TypeOK
    <3>4. task[i][h].left \in 1..D /\ task'[i][h].left = task[i][h].left - 1
          BY <1>9, <3>1, TickShape
    <3>5. now \in 0..(D-1) /\ now' = IF now = D - 1 THEN 0 ELSE now + 1
          BY <1>9 DEF Tick, TypeOK
    <3>6. now' + task'[i][h].left \in {schedules[i].slot, schedules[i].slot + D}
          BY <3>2, <3>3, <3>4, <3>5
    <3> QED BY <2>1, <3>2, <3>6 DEF ComesDueFor, Armable
  <2>5. RunInList(i)' BY <2>1, <2>2 DEF Serial, RunInList, Running, IsRunning
  <2>6. FiredOnce(i)' BY <1>9 DEF Tick, FiredOnce
  <2> QED BY <2>3, <2>4, <2>5, <2>6 DEF Serial
<1>10. CASE UNCHANGED vars
  <2>1. Serial(i) BY <1>10 DEF vars, SerialInv
  <2> QED BY <1>10, <2>1, SerialFrame DEF vars
<1> QED BY <1>1, <1>2, <1>3, <1>4, <1>5, <1>6, <1>7, <1>8, <1>9, <1>10 DEF Next

(* The serial invariant holds before the first boot. *)
LEMMA SerialInit == Init => SerialInv
<1> SUFFICES ASSUME Init PROVE SerialInv
    OBVIOUS
<1>1. \A id \in Ids, h \in Handles : task[id][h] = Free /\ task[id][h].pc = "free"
      BY DEF Init, Free
<1>2. \A id \in Ids : fired[id] = 0 BY DEF Init
<1> QED BY <1>1, <1>2 DEF SerialInv, AllFreeWhenDown, Serial, OneClosure, ArmedInTable,
                         RunInList, FiredOnce, IsArmed, IsRunning, Running

(* The inductive invariant behind NoOrphans and SerialAtMostOnce always holds. *)
THEOREM SerialCorrect == Spec => []SerialInv
<1>1. TypeOK /\ SerialInv /\ [Next]_vars => SerialInv'
  <2>1. TypeOK /\ SerialInv /\ [Next]_vars => AllFreeWhenDown'
        BY AllFreeStep DEF SerialInv
  <2> QED BY <2>1, SerialStep DEF SerialInv
<1> QED BY <1>1, SerialInit, TypeCorrect, PTL DEF Spec

(* An id whose list entry was not replaced during one of its runs has no timeout
   outside the table and none that is stale. *)
THEOREM NoOrphansEver == Spec => []NoOrphans
<1>1. SerialInv => NoOrphans BY DEF SerialInv, Serial, ArmedInTable, NoOrphans
<1> QED BY <1>1, SerialCorrect, PTL

(* ... and no occurrence of it is run twice. *)
THEOREM SerialRunsOnce == Spec => []SerialAtMostOnce
<1>1. SerialInv => SerialAtMostOnce BY DEF SerialInv, Serial, FiredOnce, SerialAtMostOnce
<1> QED BY <1>1, SerialCorrect, PTL

(* Both: no orphan and no second run, unless the list was replaced during one. *)
THEOREM SerialAlwaysSound == Spec => []SerialSound
<1>1. NoOrphans /\ SerialAtMostOnce => SerialSound BY DEF SerialSound
<1> QED BY <1>1, NoOrphansEver, SerialRunsOnce, PTL

----------------------------------------------------------------------------
(***************************************************************************)
(* The timer table implements the plan, for any number of schedules: each  *)
(* step of Scheduler in which no run is overlapped is a step of DayPlan or *)
(* changes nothing of it.                                                  *)
(***************************************************************************)
(* With one armed closure, that is the occurrence to come; with none there is none. *)
LEMMA DueOfOne ==
    ASSUME NEW t, NEW h \in Handles, t[h].pc = "armed",
           \A g \in Handles : t[g].pc = "armed" => g = h
    PROVE  DueOf(t) = t[h].left
<1>1. (CHOOSE g \in Handles : t[g].pc = "armed") = h OBVIOUS
<1> QED BY <1>1 DEF DueOf

LEMMA DueOfNone ==
    ASSUME NEW t, \A g \in Handles : t[g].pc # "armed"
    PROVE  DueOf(t) = None
BY DEF DueOf

(* What scheduleOne computes is the wait that the plan asks for. *)
LEMMA WaitOfPlan ==
    ASSUME TypeOK, NEW s \in Entry \cup {None}
    PROVE  /\ ~Armable(s) => Plan!DueIn(s) = None
           /\ \A n \in 1..D : Armable(s) /\ now + n \in {s.slot, s.slot + D} =>
                  Plan!DueIn(s) = n
<1>1. ASSUME ~Armable(s) PROVE Plan!DueIn(s) = None
  <2>1. s # None /\ s.enabled => s.slot = D BY <1>1 DEF Armable, NoSlot
  <2>2. s # None => s.slot \in 0..D BY SchedulerAssumption DEF Entry
  <2> QED BY <2>1, <2>2, SchedulerAssumption DEF Plan!DueIn
<1>2. ASSUME NEW n \in 1..D, Armable(s), now + n \in {s.slot, s.slot + D}
      PROVE  Plan!DueIn(s) = n
  <2>1. s \in Entry /\ s.slot \in 0..(D-1) /\ s.enabled /\ s # None
        BY <1>2, ArmableSlot DEF Armable
  <2>2. now \in 0..(D-1) /\ D \in Nat BY SchedulerAssumption DEF TypeOK
  <2>3. \A m \in 1..D : now + m \in {s.slot, s.slot + D} => m = n
        BY <1>2, <2>1, <2>2
  <2>4. (CHOOSE m \in 1..D : now + m \in {s.slot, s.slot + D}) = n BY <1>2, <2>3
  <2>5. s.slot < D BY <2>1, <2>2
  <2> QED BY <2>1, <2>4, <2>5 DEF Plan!DueIn
<1> QED BY <1>1, <1>2

(* What scheduleOne leaves of an entry is what the plan allows: its next occurrence,
   or nothing when there is none or when it comes while it is being armed. *)
LEMMA WaitPlanned ==
    ASSUME TypeOK, NEW s \in Entry \cup {None}, NEW late
    PROVE  /\ ~Arms(s, late) => None \in Plan!Planned(s)
           /\ \A n \in 1..D : Arms(s, late) /\ now + n \in {s.slot, s.slot + D} =>
                  n \in Plan!Planned(s)
<1>1. ASSUME ~Armable(s) PROVE None \in Plan!Planned(s)
      BY <1>1, WaitOfPlan DEF Plan!Planned
<1>2. ASSUME TooLate(s, late) PROVE None \in Plan!Planned(s)
  <2>1. Armable(s) /\ NextDelay(s.slot) = 1 BY <1>2 DEF TooLate
  <2>2. s.slot \in 0..(D-1) BY <2>1, ArmableSlot
  <2>3. 1 \in 1..D /\ now + 1 \in {s.slot, s.slot + D} BY <2>1, <2>2, NextDelayType DEF TypeOK
  <2>4. Plan!DueIn(s) = 1 BY <2>1, <2>3, WaitOfPlan
  <2> QED BY <2>4 DEF Plan!Planned
<1>3. ASSUME NEW n \in 1..D, Arms(s, late), now + n \in {s.slot, s.slot + D}
      PROVE  n \in Plan!Planned(s)
      BY <1>3, WaitOfPlan DEF Plan!Planned, Arms
<1> QED BY <1>1, <1>2, <1>3 DEF Arms

(* The table rebuilt for an id that has no run holds what the plan asks for. *)
LEMMA PlanReschedule ==
    ASSUME TypeOK, NEW list \in [Ids -> Entry \cup {None}], NEW late, RescheduleAll(list, late),
           NEW id \in Ids, ~Running(id), \A h \in Handles : IsArmed(id, h) => timers[id] = h
    PROVE  /\ DueOf(task'[id]) \in Plan!Planned(list[id])
           /\ DueOf(task'[id]) \in (1..D) \cup {None}
           /\ \A h \in Handles : task'[id][h].pc # "running"
<1>1. \A h \in Handles : task[id][h] = Free \/ Cleared(id, h)
  <2> SUFFICES ASSUME NEW h \in Handles, task[id][h] # Free PROVE Cleared(id, h)
      OBVIOUS
  <2>1. task[id][h] \in Task BY DEF TypeOK
  <2> QED BY <2>1 DEF Task, IsArmed, Running, IsRunning, Cleared
<1>2. \A h \in Handles : ~(Arms(list[id], id \in late) /\ h = Pick(id)) => task'[id][h].pc = "free"
      BY <1>1, RescheduleShape DEF Free
<1>3. list[id] \in Entry \cup {None} OBVIOUS
<1>4. CASE Arms(list[id], id \in late)
  <2>1. /\ Pick(id) \in Handles /\ task'[id][Pick(id)].pc = "armed"
        /\ task'[id][Pick(id)].left \in 1..D
        /\ now + task'[id][Pick(id)].left \in {list[id].slot, list[id].slot + D}
        BY <1>4, RescheduleShape
  <2>2. \A g \in Handles : task'[id][g].pc = "armed" => g = Pick(id) BY <1>2
  <2>3. DueOf(task'[id]) = task'[id][Pick(id)].left
    <3> DEFINE t == task'[id]
    <3>1. t[Pick(id)].pc = "armed" /\ \A g \in Handles : t[g].pc = "armed" => g = Pick(id)
          BY <2>1, <2>2
    <3> HIDE DEF t
    <3>2. DueOf(t) = t[Pick(id)].left BY <2>1, <3>1, DueOfOne
    <3> QED BY <3>2 DEF t
  <2>4. task'[id][Pick(id)].left \in Plan!Planned(list[id]) BY <1>3, <1>4, <2>1, WaitPlanned
  <2> QED BY <1>2, <2>1, <2>3, <2>4
<1>5. CASE ~Arms(list[id], id \in late)
  <2>1. \A g \in Handles : task'[id][g].pc = "free" BY <1>2, <1>5
  <2>2. DueOf(task'[id]) = None
    <3> DEFINE t == task'[id]
    <3>1. \A g \in Handles : t[g].pc # "armed" BY <2>1
    <3> HIDE DEF t
    <3>2. DueOf(t) = None BY <3>1, DueOfNone
    <3> QED BY <3>2 DEF t
  <2>3. None \in Plan!Planned(list[id]) BY <1>3, <1>5, WaitPlanned
  <2> QED BY <2>1, <2>2, <2>3
<1> QED BY <1>4, <1>5

(* A handler that arms the next occurrence leaves what the plan asks for. *)
LEMMA PlanRearm ==
    ASSUME TypeOK, NEW id \in Ids, NEW h \in Handles, Serial(id), task[id][h] # Free,
           NEW tbl \in [Ids -> Handles \cup {None}],
           schedules[id] # None, NEW late,
           Rearm(id, h, Current(id, task[id][h].s), tbl, late)
    PROVE  /\ DueOf(task'[id]) \in Plan!Planned(schedules[id])
           /\ \A g \in Handles : task'[id][g].pc # "running"
           /\ \A i \in Ids : i # id => task'[i] = task[i]
<1> DEFINE s == schedules[id]
           t == task'[id]
<1>1. Current(id, task[id][h].s) = s /\ s \in Entry BY CurrentType
<1>2. /\ \A g \in Handles : g # h => t[g].pc = "free"
      /\ \A i \in Ids : i # id => task'[i] = task[i]
  <2>1. \A g \in Handles : g # h => task[id][g] = Free BY DEF Serial, OneClosure
  <2> QED BY <1>1, <2>1, RearmShape DEF Free
<1>3. CASE Arms(s, late)
  <2>1. /\ t[h].pc = "armed" /\ t[h].left \in 1..D
        /\ now + t[h].left \in {s.slot, s.slot + D}
        BY <1>1, <1>3, RearmShape
  <2>2. t[h].left \in Plan!Planned(s) BY <1>1, <1>3, <2>1, WaitPlanned
  <2>3. DueOf(t) = t[h].left
    <3>1. \A g \in Handles : t[g].pc = "armed" => g = h BY <1>2
    <3> HIDE DEF t
    <3> QED BY <2>1, <3>1, DueOfOne
  <2> QED BY <1>2, <2>1, <2>2, <2>3
<1>4. CASE ~Arms(s, late)
  <2>1. \A g \in Handles : t[g].pc = "free" BY <1>1, <1>2, <1>4, RearmShape DEF Free
  <2>2. DueOf(t) = None
    <3>1. \A g \in Handles : t[g].pc # "armed" BY <2>1
    <3> HIDE DEF t
    <3> QED BY <3>1, DueOfNone
  <2>3. None \in Plan!Planned(s) BY <1>1, <1>4, WaitPlanned
  <2> QED BY <1>2, <2>1, <2>2, <2>3
<1> QED BY <1>3, <1>4

(* A handler that is called comes from the one occurrence that is due. *)
LEMMA PlanIsDue ==
    ASSUME TypeOK, NEW id \in Ids, NEW h \in Handles, Serial(id),
           IsArmed(id, h), task[id][h].left = 0
    PROVE  /\ Due[id] = 0 /\ schedules[id] # None /\ task[id][h] # Free
           /\ ~Running(id)
<1>1. \A g \in Handles : task[id][g].pc # "free" => g = h
  <2>1. \A g \in Handles : task[id][g].pc # "free" => task[id][g] # Free BY DEF Free
  <2>2. task[id][h] # Free BY DEF IsArmed, Free
  <2> QED BY <2>1, <2>2 DEF Serial, OneClosure
<1>2. DueOf(task[id]) = 0
  <2> DEFINE t == task[id]
  <2>1. t[h].pc = "armed" /\ t[h].left = 0 /\ \A g \in Handles : t[g].pc = "armed" => g = h
        BY <1>1 DEF IsArmed
  <2> HIDE DEF t
  <2>2. DueOf(t) = 0 BY <2>1, DueOfOne
  <2> QED BY <2>2 DEF t
<1>3. schedules[id] # None BY DEF Serial, ArmedInTable, ComesDueFor, Armable
<1>4. ~Running(id) BY <1>1 DEF Running, IsRunning, IsArmed
<1> QED BY <1>2, <1>3, <1>4 DEF Due, IsArmed, Free

(* The step simulation. *)
LEMMA PlanStep ==
    ASSUME TypeOK, SerialInv, [Next]_vars, overlapped' = {}
    PROVE  [Plan!Next]_(Plan!planVars)
<1> DEFINE R == {i \in Ids : Running(i)}
<1>1. ASSUME NEW late \in SUBSET Ids, Boot(late) PROVE Plan!Next
  <2>1. ASSUME NEW i \in Ids
        PROVE  /\ DueOf(task'[i]) \in Plan!Planned(schedules[i])
               /\ DueOf(task'[i]) \in (1..D) \cup {None}
               /\ ~Running(i)' /\ ~Running(i)
    <3>1. \A h \in Handles : task[i][h].pc = "free"
          BY <1>1 DEF Boot, SerialInv, AllFreeWhenDown, Free
    <3>2. schedules \in [Ids -> Entry \cup {None}] BY DEF TypeOK
    <3>3. ~Running(i) /\ \A h \in Handles : ~IsArmed(i, h)
          BY <3>1 DEF Running, IsRunning, IsArmed
    <3>4. /\ DueOf(task'[i]) \in Plan!Planned(schedules[i])
          /\ DueOf(task'[i]) \in (1..D) \cup {None}
          /\ \A h \in Handles : task'[i][h].pc # "running"
          BY <1>1, <3>2, <3>3, PlanReschedule DEF Boot
    <3> QED BY <3>3, <3>4 DEF Running, IsRunning
  <2>2. /\ Due' \in [Ids -> (1..D) \cup {None}]
        /\ \A i \in Ids : Due'[i] \in Plan!Planned(schedules[i])
        BY <2>1 DEF Due
  <2>3. R' = R BY <2>1
  <2>4. Plan!Start BY <1>1, <2>2, <2>3 DEF Boot, Plan!Start
  <2> QED BY <2>4 DEF Plan!Next
<1>2. CASE Crash
  <2>1. ASSUME NEW i \in Ids PROVE DueOf(task'[i]) = None /\ ~Running(i)'
    <3> DEFINE t == task'[i]
    <3>1. \A h \in Handles : t[h].pc = "free" BY <1>2 DEF Crash, Free
    <3>2. ~Running(i)' BY <3>1 DEF Running, IsRunning
    <3> HIDE DEF t
    <3>3. DueOf(t) = None BY <3>1, DueOfNone
    <3> QED BY <3>2, <3>3 DEF t
  <2>2. Due' = Plan!Nothing BY <2>1 DEF Due, Plan!Nothing
  <2>3. R' = {} BY <2>1
  <2>4. Plan!Stop BY <1>2, <2>2, <2>3 DEF Crash, Plan!Stop
  <2> QED BY <2>4 DEF Plan!Next
<1>3. ASSUME NEW list \in [Ids -> Entry \cup {None}],
             NEW stamps \in SUBSET {id \in Ids : list[id] # None},
             NEW late \in SUBSET Ids, PutSchedules(list, stamps, late)
      PROVE  Plan!Next
  <2>1. ASSUME NEW i \in Ids
        PROVE  /\ DueOf(task'[i]) \in Plan!Planned(list[i])
               /\ DueOf(task'[i]) \in (1..D) \cup {None}
               /\ ~Running(i)' /\ ~Running(i)
    <3>1. i \notin overlapped /\ ~Running(i) BY <1>3 DEF PutSchedules
    <3>2. \A h \in Handles : IsArmed(i, h) => timers[i] = h
          BY <3>1 DEF SerialInv, Serial, ArmedInTable
    <3>3. /\ DueOf(task'[i]) \in Plan!Planned(list[i])
          /\ DueOf(task'[i]) \in (1..D) \cup {None}
          /\ \A h \in Handles : task'[i][h].pc # "running"
          BY <1>3, <3>1, <3>2, PlanReschedule DEF PutSchedules
    <3> QED BY <3>1, <3>3 DEF Running, IsRunning
  <2>2. /\ Due' \in [Ids -> (1..D) \cup {None}]
        /\ \A i \in Ids : Due'[i] \in Plan!Planned(schedules'[i])
        BY <1>3, <2>1 DEF Due, PutSchedules
  <2>3. R = {} /\ R' = {} BY <2>1
  <2>4. schedules' = list /\ now' = now /\ up /\ up' = up BY <1>3 DEF PutSchedules
  <2>5. list \in Plan!Lists BY DEF Plan!Lists, Entry
  <2>6. Plan!Replace BY <2>2, <2>3, <2>4, <2>5 DEF Plan!Replace
  <2> QED BY <2>6 DEF Plan!Next
<1>4. ASSUME NEW id \in Ids, NEW h \in Handles, NEW late \in BOOLEAN, TimerSkips(id, h, late)
      PROVE  Plan!Next
  <2>1. Serial(id) BY <1>4 DEF TimerSkips, SerialInv
  <2>2. IsArmed(id, h) /\ task[id][h].left = 0 BY <1>4 DEF TimerSkips
  <2>3. Due[id] = 0 /\ schedules[id] # None /\ task[id][h] # Free /\ ~Running(id)
        BY <2>1, <2>2, PlanIsDue
  <2>4. Unlisted(id) \in [Ids -> Handles \cup {None}] BY DEF Unlisted, TypeOK
  <2>5. /\ DueOf(task'[id]) \in Plan!Planned(schedules[id])
        /\ \A g \in Handles : task'[id][g].pc # "running"
        /\ \A i \in Ids : i # id => task'[i] = task[i]
        BY <1>4, <2>1, <2>3, <2>4, PlanRearm DEF TimerSkips
  <2>6. \E n \in Plan!Planned(schedules[id]) : Due' = [Due EXCEPT ![id] = n] BY <2>5 DEF Due
  <2>7. R' = R BY <2>3, <2>5 DEF Running, IsRunning
  <2>8. Plan!Skip(id) BY <1>4, <2>3, <2>6, <2>7 DEF TimerSkips, Plan!Skip
  <2> QED BY <2>8 DEF Plan!Next
<1>5. ASSUME NEW id \in Ids, NEW h \in Handles, TimerFires(id, h)
      PROVE  Plan!Next
  <2>1. Serial(id) BY <1>5 DEF TimerFires, SerialInv
  <2>2. IsArmed(id, h) /\ task[id][h].left = 0 BY <1>5 DEF TimerFires
  <2>3. Due[id] = 0 /\ task[id][h] # Free BY <2>1, <2>2, PlanIsDue
  <2>4. /\ task'[id][h].pc = "running"
        /\ \A g \in Handles : g # h => task'[id][g] = task[id][g]
        /\ \A i \in Ids : i # id => task'[i] = task[i]
        BY <1>5 DEF TimerFires, TypeOK
  <2>5. \A g \in Handles : g # h => task[id][g].pc = "free"
        BY <2>1, <2>3 DEF Serial, OneClosure, Free
  <2>6. DueOf(task'[id]) = None
    <3> DEFINE t == task'[id]
    <3>1. \A g \in Handles : t[g].pc # "armed" BY <2>4, <2>5
    <3> HIDE DEF t
    <3>2. DueOf(t) = None BY <3>1, DueOfNone
    <3> QED BY <3>2 DEF t
  <2>7. Due' = [Due EXCEPT ![id] = None] BY <2>4, <2>6 DEF Due
  <2>8. R' = R \cup {id} BY <2>4 DEF Running, IsRunning
  <2>9. Plan!Begin(id) BY <1>5, <2>3, <2>7, <2>8 DEF TimerFires, Plan!Begin
  <2> QED BY <2>9 DEF Plan!Next
<1>6. ASSUME NEW id \in Ids, NEW h \in Handles, NEW ok \in BOOLEAN, NEW late \in BOOLEAN,
             RunEnds(id, h, ok, late)
      PROVE  Plan!Next
  <2>1. Serial(id) BY <1>6 DEF RunEnds, SerialInv
  <2>2. Running(id) /\ task[id][h] # Free BY <1>6 DEF RunEnds, IsRunning, Running, Free
  <2>3. schedules[id] # None BY <2>1, <2>2 DEF Serial, RunInList
  <2>4. timers \in [Ids -> Handles \cup {None}] BY DEF TypeOK
  <2>5. /\ DueOf(task'[id]) \in Plan!Planned(schedules[id])
        /\ \A g \in Handles : task'[id][g].pc # "running"
        /\ \A i \in Ids : i # id => task'[i] = task[i]
        BY <1>6, <2>1, <2>2, <2>3, <2>4, PlanRearm DEF RunEnds
  <2>6. \E n \in Plan!Planned(schedules[id]) : Due' = [Due EXCEPT ![id] = n] BY <2>5 DEF Due
  <2>7. R' = R \ {id} BY <2>5 DEF Running, IsRunning
  <2>8. Plan!End(id) BY <1>6, <2>2, <2>6, <2>7 DEF RunEnds, Plan!End
  <2> QED BY <2>8 DEF Plan!Next
<1>7. CASE Tick
  <2>1. ASSUME NEW i \in Ids
        PROVE  /\ Due[i] # 0
               /\ DueOf(task'[i]) = IF Due[i] = None THEN None ELSE Due[i] - 1
    <3>1. i \notin overlapped /\ Serial(i) BY <1>7 DEF Tick, SerialInv
    <3>2. \A g \in Handles : task'[i][g].pc = task[i][g].pc BY <1>7, TickShape
    <3> DEFINE t == task'[i]
               u == task[i]
    <3>3. CASE \E h \in Handles : IsArmed(i, h)
      <4>1. PICK h \in Handles : IsArmed(i, h) BY <3>3
      <4>2. \A g \in Handles : u[g].pc = "armed" => g = h
            BY <3>1, <4>1 DEF Serial, OneClosure, IsArmed, Free
      <4>3. \A g \in Handles : t[g].pc = "armed" => g = h BY <3>2, <4>2
      <4>4. u[h].left \in 1..D /\ t[h].left = u[h].left - 1 BY <1>7, <4>1, TickShape
      <4>5. u[h].pc = "armed" /\ t[h].pc = "armed" BY <3>2, <4>1 DEF IsArmed
      <4> HIDE DEF t, u
      <4>6. DueOf(u) = u[h].left BY <4>2, <4>5, DueOfOne
      <4>7. DueOf(t) = t[h].left BY <4>3, <4>5, DueOfOne
      <4>8. Due[i] = u[h].left BY <4>6 DEF Due, u
      <4>9. u[h].left # None /\ u[h].left # 0 BY <4>4, SchedulerAssumption
      <4>10. DueOf(t) = u[h].left - 1 BY <4>4, <4>7
      <4> QED BY <4>8, <4>9, <4>10 DEF t
    <3>4. CASE ~\E h \in Handles : IsArmed(i, h)
      <4>1. \A g \in Handles : u[g].pc # "armed" /\ t[g].pc # "armed"
            BY <3>2, <3>4 DEF IsArmed
      <4> HIDE DEF t, u
      <4>2. DueOf(u) = None /\ DueOf(t) = None /\ None # 0
            BY SchedulerAssumption, <4>1, DueOfNone
      <4>3. Due[i] = None BY <4>2 DEF Due, u
      <4> QED BY <4>2, <4>3 DEF t
    <3> QED BY <3>3, <3>4
  <2>2. Due' = [i \in Ids |-> IF Due[i] = None THEN None ELSE Due[i] - 1]
        BY <2>1 DEF Due
  <2>3. R' = R BY <1>7, TickShape DEF Running, IsRunning
  <2>4. Plan!Tick BY <1>7, <2>1, <2>2, <2>3 DEF Tick, Plan!Tick
  <2> QED BY <2>4 DEF Plan!Next
<1>8. ASSUME task' = task, schedules' = schedules, now' = now, up' = up
      PROVE  UNCHANGED Plan!planVars
  <2>1. Due' = Due /\ R' = R BY <1>8 DEF Due, Running, IsRunning
  <2> QED BY <1>8, <2>1 DEF Plan!planVars
<1>9. ASSUME NEW id \in Ids, RunNow(id) PROVE UNCHANGED Plan!planVars
      BY <1>8, <1>9 DEF RunNow
<1>10. ASSUME NEW id \in Ids, NEW ok \in BOOLEAN, RunNowEnds(id, ok)
       PROVE  UNCHANGED Plan!planVars
       BY <1>8, <1>10 DEF RunNowEnds
<1>11. CASE UNCHANGED vars BY <1>8, <1>11 DEF vars
<1> QED BY <1>1, <1>2, <1>3, <1>4, <1>5, <1>6, <1>7, <1>9, <1>10, <1>11 DEF Next

(* Before the first boot nothing is planned. *)
LEMMA PlanInit == Init => Plan!Init
<1> SUFFICES ASSUME Init PROVE Plan!Init
    OBVIOUS
<1>1. ASSUME NEW i \in Ids PROVE DueOf(task[i]) = None /\ ~Running(i)
  <2> DEFINE t == task[i]
  <2>1. \A h \in Handles : t[h].pc = "free" BY DEF Init, Free
  <2>2. ~Running(i) BY <2>1 DEF Running, IsRunning
  <2> HIDE DEF t
  <2>3. DueOf(t) = None BY <2>1, DueOfNone
  <2> QED BY <2>2, <2>3 DEF t
<1>2. Due = Plan!Nothing BY <1>1 DEF Due, Plan!Nothing
<1>3. {i \in Ids : Running(i)} = {} BY <1>1
<1>4. schedules \in Plan!Lists BY DEF Init, Plan!Lists, Entry
<1> QED BY <1>2, <1>3, <1>4 DEF Init, Plan!Init

(* The scheduler implements the plan: whatever edits between runs, skipped and
   failed runs, requests to run at once, crashes and restarts happen, what comes
   next for an id is the next occurrence of the entry the list has. *)
THEOREM ImplementsPlan == Spec => FollowsPlan
<1>1. TypeOK /\ SerialInv /\ [Next]_vars
          => [Plan!Next \/ overlapped' # {}]_(Plan!planVars)
      BY PlanStep
<1> QED BY <1>1, PlanInit, TypeCorrect, SerialCorrect, PTL DEF Spec, FollowsPlan
===============================================================================
