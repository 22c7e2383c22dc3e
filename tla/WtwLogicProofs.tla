---------------------------- MODULE WtwLogicProofs ----------------------------
(***************************************************************************)
(* Proofs about module WtwLogic, for any number of logics of any kind.     *)
(*                                                                         *)
(* That every run can end: EndsArmed needs no more of the state than that  *)
(* the tables of the runtime have an entry for each logic, so the inductive*)
(* invariant is EndsArmed with that.                                       *)
(*                                                                         *)
(* That the unit ends up as wished needs the types (Typed) and what each   *)
(* choice that waits, each run and each boost will do to the unit (Quiet). *)
(***************************************************************************)
EXTENDS WtwLogic, TLAPS

\* The tables of the runtime have one entry per logic.
Tables ==
    /\ sensor = [l \in Logics |-> sensor[l]]
    /\ until = [l \in Logics |-> until[l]]
    /\ runs = [l \in Logics |-> runs[l]]
    /\ dur = [l \in Logics |-> dur[l]]

EndsInv == Tables /\ EndsArmed

\* The end of a logic takes its run and leaves the other logics alone.
LEMMA EndLogicKeeps ==
    ASSUME EndsInv, NEW l \in Logics, EndLogic(l)
    PROVE  EndsInv'
<1>1. /\ runs' = [runs EXCEPT ![l] = None]
      /\ until' = [until EXCEPT ![l] = FALSE]
      /\ dur' = [dur EXCEPT ![l] = FALSE]
      /\ sensor' = sensor
  BY DEF EndLogic
<1>2. Tables'
  BY <1>1 DEF EndsInv, Tables
<1>3. EndsArmed'
  BY <1>1 DEF EndsInv, Tables, EndsArmed, Running
<1> QED BY <1>2, <1>3 DEF EndsInv

\* A logic that starts does not run yet: its timers are cleared, the run is
\* recorded when the wait is over.
LEMMA StartLogicKeeps ==
    ASSUME EndsInv, NEW l \in Logics, StartLogic(l),
           sensor' = [k \in Logics |-> sensor'[k]],
           \A k \in Logics \ {l} : sensor'[k] = sensor[k]
    PROVE  EndsInv'
<1>1. /\ runs' = runs /\ dur' = dur
      /\ until' = [until EXCEPT ![l] = FALSE]
      /\ runs[l] = None
  BY DEF StartLogic, Running
<1>2. Tables'
  BY <1>1 DEF EndsInv, Tables
<1>3. EndsArmed'
  BY <1>1 DEF EndsInv, Tables, EndsArmed, Running
<1> QED BY <1>2, <1>3 DEF EndsInv

\* A telegram sets the timer of a running logic's end condition when that is
\* met, and clears it when it is not.
LEMMA TelegramKeeps ==
    ASSUME EndsInv, WtwAssumption, NEW l \in Logics, NEW v \in BOOLEAN, Telegram(l, v)
    PROVE  EndsInv'
<1>1. /\ sensor' = [k \in Logics |-> sensor'[k]]
      /\ \A k \in Logics \ {l} : sensor'[k] = sensor[k]
      /\ sensor'[l] = v
  BY DEF Telegram, EndsInv, Tables
<1>2. CASE StartLogic(l)
  BY <1>1, <1>2, StartLogicKeeps
<1>3. CASE /\ until' = IF Running(l) THEN [until EXCEPT ![l] = UntilTimed(l, v)] ELSE until
           /\ UNCHANGED <<runs, dur>>
  <2>1. Tables'
    BY <1>1, <1>3 DEF EndsInv, Tables
  <2>2. ASSUME NEW k \in Logics, Running(k)', End[k] # "duration", sensor'[k] = FALSE
        PROVE  until'[k]
    <3>1. Running(k)
      BY <1>3, <2>2 DEF Running
    <3>2. CASE k = l
      <4>1. End[l] = "until"
        BY <2>2, <3>2 DEF WtwAssumption
      <4>2. v = FALSE
        BY <1>1, <2>2, <3>2, <4>1
      <4> QED BY <1>3, <3>1, <3>2, <4>1, <4>2 DEF UntilTimed, EndsInv, Tables
    <3>3. CASE k # l
      <4>1. until'[k] = until[k] /\ sensor[k] = FALSE
        BY <1>1, <1>3, <2>2, <3>3 DEF EndsInv, Tables
      <4> QED BY <2>2, <3>1, <4>1 DEF EndsInv, EndsArmed
    <3> QED BY <3>2, <3>3
  <2>3. ASSUME NEW k \in Logics, Running(k)', End[k] = "duration"
        PROVE  dur'[k]
    BY <1>3, <2>3 DEF EndsInv, EndsArmed, Running
  <2>4. EndsArmed'
    BY <2>2, <2>3 DEF EndsArmed
  <2> QED BY <2>1, <2>4 DEF EndsInv
<1> QED BY <1>2, <1>3 DEF Telegram

\* The run that is recorded has its duration timer, or the timer of its end
\* condition if the cache shows that condition met by now.
LEMMA StartDoneKeeps ==
    ASSUME EndsInv, WtwAssumption, StartDone
    PROVE  EndsInv'
<1> DEFINE l == Head(jobs).logic
<1>1. /\ runs' = [runs EXCEPT ![l] = Head(jobs).restore]
      /\ dur' = [dur EXCEPT ![l] = End[l] = "duration"]
      /\ until' = [until EXCEPT ![l] = UntilTimed(l, sensor[l])]
      /\ sensor' = sensor
  BY DEF StartDone, UntilAtStart
<1>2. Tables'
  BY <1>1 DEF EndsInv, Tables
<1>3. ASSUME NEW k \in Logics, Running(k)'
      PROVE  IF End[k] = "duration" THEN dur'[k] ELSE sensor'[k] = FALSE => until'[k]
  <2>1. CASE k = l
    <3>1. dur'[k] = (End[l] = "duration") /\ until'[k] = UntilTimed(l, sensor[l])
      BY <1>1, <2>1 DEF EndsInv, Tables
    <3>2. End[k] \in {"duration", "until"}
      BY DEF WtwAssumption
    <3> QED BY <1>1, <2>1, <3>1, <3>2 DEF UntilTimed
  <2>2. CASE k # l
    <3>1. dur'[k] = dur[k] /\ until'[k] = until[k] /\ runs'[k] = runs[k]
      BY <1>1, <2>2 DEF EndsInv, Tables
    <3> QED BY <1>1, <1>3, <3>1 DEF EndsInv, EndsArmed, Running
  <2> QED BY <2>1, <2>2
<1>4. EndsArmed'
  BY <1>3 DEF EndsArmed
<1> QED BY <1>2, <1>4 DEF EndsInv

\* A user's choice and a restart leave no run.
LEMMA NoRunsKeeps ==
    ASSUME /\ sensor' = [l \in Logics |-> sensor'[l]]
           /\ until' = [l \in Logics |-> FALSE]
           /\ dur' = [l \in Logics |-> FALSE]
           /\ runs' = [l \in Logics |-> None]
    PROVE  EndsInv'
BY DEF EndsInv, Tables, EndsArmed, Running

\* Every handler, timer, press and restart keeps the invariant.
LEMMA StepKeeps ==
    ASSUME EndsInv, WtwAssumption, [Next]_vars
    PROVE  EndsInv'
<1>1. ASSUME UNCHANGED <<sensor, until, runs, dur>>
      PROVE  EndsInv'
  BY <1>1 DEF EndsInv, Tables, EndsArmed, Running
<1>2. ASSUME NEW c \in Choices, Press(c)
      PROVE  EndsInv'
  <2>1. sensor' = sensor /\ until' = Nothing /\ dur' = Nothing /\ runs' = RunsAfterPress
    BY <1>2 DEF Press
  <2> QED BY <2>1, NoRunsKeeps DEF Nothing, RunsAfterPress, EndsInv, Tables
<1>3. CASE PressDone \/ EndDone \/ JobFails \/ BoostTimer \/ DeviceBoostEnds \/ Report
  BY <1>1, <1>3 DEF PressDone, EndDone, JobFails, BoostTimer, DeviceBoostEnds, Report, timers
<1>4. CASE StartDone
  BY <1>4, StartDoneKeeps
<1>5. CASE Restart
  BY <1>5, NoRunsKeeps DEF Restart, Nothing
<1>6. ASSUME NEW l \in Logics, NEW v \in BOOLEAN, Telegram(l, v)
      PROVE  EndsInv'
  BY <1>6, TelegramKeeps
<1>7. ASSUME NEW l \in Logics, TrigTimer(l) \/ TemperatureRises(l)
      PROVE  EndsInv'
  <2>1. CASE StartLogic(l) /\ UNCHANGED sensor
    BY <2>1, StartLogicKeeps DEF EndsInv, Tables
  <2>2. CASE UNCHANGED <<sensor, until, runs, dur>>
    BY <1>1, <2>2
  <2> QED BY <1>7, <2>1, <2>2 DEF TrigTimer, TemperatureRises
<1>8. ASSUME NEW l \in Logics, EndLogic(l)
      PROVE  EndsInv'
  BY <1>8, EndLogicKeeps
<1>9. ASSUME NEW l \in Logics, UntilTimer(l) \/ DurationTimer(l) \/ LeakedTimer(l)
      PROVE  EndsInv'
  BY <1>1, <1>8, <1>9 DEF UntilTimer, DurationTimer, LeakedTimer, timers
<1>10. CASE UNCHANGED vars
  BY <1>1, <1>10 DEF vars, timers
<1> QED BY <1>2, <1>3, <1>4, <1>5, <1>6, <1>7, <1>9, <1>10 DEF Next

\* Every run has a timer that will end it, its own duration timer or that of
\* an end condition that is met, however telegrams, presses, failing writes
\* and restarts fall around the waits (startLogic, tickUntil, endLogic).
THEOREM RunsCanEnd == Spec => []EndsArmed
<1>1. Init => EndsInv
  BY DEF Init, EndsInv, Tables, EndsArmed, Running, Nothing
<1>2. EndsInv /\ [Next]_vars => EndsInv'
  BY StepKeeps, WtwAssumption
<1>3. EndsInv => EndsArmed
  BY DEF EndsInv
<1> QED BY <1>1, <1>2, <1>3, PTL DEF Spec
-------------------------------------------------------------------------------
\* What the queue of waiting choices and the timers keep to: a logic whose
\* start waits has room for one more leaked timer, only a run has timers of
\* its own, and while one runs there is room for the choice that ends it.
Waits ==
    /\ \A i \in 1..Len(jobs) : jobs[i].kind = "start" => leaked[jobs[i].logic] + i <= MaxJobs
    /\ \A l \in Logics : until[l] = TRUE \/ dur[l] = TRUE => Running(l)
    /\ (\E l \in Logics : Running(l)) => Len(jobs) <= MaxJobs

Typed == TypeOK /\ Waits

\* The queue with one choice more, and with one less.
LEMMA Longer ==
    ASSUME NEW s \in Seq(Job), NEW j \in Job
    PROVE  /\ Append(s, j) \in Seq(Job) /\ Len(Append(s, j)) = Len(s) + 1
           /\ Append(s, j)[Len(s) + 1] = j
           /\ \A i \in 1..Len(s) : Append(s, j)[i] = s[i]
  OBVIOUS

LEMMA Shorter ==
    ASSUME NEW s \in Seq(Job), s # <<>>
    PROVE  /\ Tail(s) \in Seq(Job) /\ Len(s) \in Nat /\ Len(s) >= 1 /\ Len(Tail(s)) = Len(s) - 1
           /\ Head(s) = s[1] /\ s[1] \in Job
           /\ \A i \in 1..Len(Tail(s)) : Tail(s)[i] = s[i + 1]
  OBVIOUS

\* A choice that is made finds Auto put off and joins the queue, or fails.
LEMMA ChoosesStand ==
    ASSUME TypeOK, NEW j \in Job, NEW quiet, ChooseStand(j, quiet)
    PROVE  /\ device' \in Device /\ jobs' \in Seq(Job) /\ (calm' = quiet \/ calm' = FALSE)
           /\ Len(jobs') <= Len(jobs) + 1
           /\ \A i \in 1..Len(jobs') : jobs'[i] = j \/ (i \in 1..Len(jobs) /\ jobs'[i] = jobs[i])
<1>t. device \in Device /\ jobs \in Seq(Job)
  BY DEF TypeOK
<1>1. CASE device' = [device EXCEPT !.auto = FALSE] /\ jobs' = Append(jobs, j) /\ calm' = quiet
  <2>1. device' \in Device
    BY <1>1, <1>t DEF Device
  <2>2. jobs' \in Seq(Job) /\ Len(jobs') = Len(jobs) + 1 /\ jobs'[Len(jobs) + 1] = j
        /\ \A i \in 1..Len(jobs) : jobs'[i] = jobs[i]
    BY <1>1, <1>t, Longer
  <2> QED
    BY <1>1, <1>t, <2>1, <2>2
<1>2. CASE device' = device /\ jobs' = jobs /\ calm' = FALSE
  BY <1>2, <1>t
<1> QED
  BY <1>1, <1>2 DEF ChooseStand

LEMMA ChoosesAuto ==
    ASSUME TypeOK, NEW on \in BOOLEAN, NEW quiet, ChooseAuto(on, quiet)
    PROVE  device' \in Device /\ jobs' = jobs /\ (calm' = quiet \/ calm' = FALSE)
  BY DEF TypeOK, ChooseAuto, Device

LEMMA WrittenIsDevice ==
    ASSUME NEW d \in Device, NEW stand \in Speeds \cup {"boost", "boostOff"}
    PROVE  Written(d, stand) \in Device
  BY DEF Written, Device, Speeds

\* What a queue may be used for once its first choice is taken.
LEMMA TakesFirst ==
    ASSUME Typed, jobs # <<>>, jobs' = Tail(jobs)
    PROVE  /\ jobs' \in Seq(Job) /\ Len(jobs') = Len(jobs) - 1 /\ Len(jobs) \in Nat
           /\ Head(jobs) \in Job /\ Head(jobs) = jobs[1] /\ Len(jobs) >= 1
           /\ \A i \in 1..Len(jobs') : jobs'[i] = jobs[i + 1] /\ i + 1 \in 1..Len(jobs)
  BY Shorter DEF Typed, TypeOK

LEMMA ActiveIsStand ==
    ASSUME NEW s \in Device \cup {None}
    PROVE  Active(s) \in Stands
  BY DEF Active, AutoIsOn, Device, Stands, Speeds

LEMMA JobKinds ==
    ASSUME NEW j \in Job
    PROVE  /\ j.kind \in {"press", "start", "end"}
           /\ j.kind = "press" => j.stand \in Speeds \cup {"boost", "boostOff"} /\ j.toAuto \in BOOLEAN
           /\ j.kind = "start" => j.logic \in Logics /\ j.stand \in Speeds \cup {"boost"} /\ j.restore \in Stands
           /\ j.kind = "end" => j.stand \in Speeds \cup {"boost"}
  BY DEF Job

LEMMA PressTyped == ASSUME Typed, WtwAssumption, NEW c \in Choices, Press(c) PROVE Typed'
<1>t. TypeOK /\ Waits /\ Len(jobs) < MaxJobs /\ jobs \in Seq(Job) /\ MaxJobs \in Nat /\ device \in Device
  BY DEF Typed, TypeOK, Press, WtwAssumption
<1> DEFINE quiet == jobs = <<>> /\ (c = "boost" => status = device)
           toAuto == c = "boost" /\ AutoIsOn(status)
           j == [kind |-> "press", stand |-> c, toAuto |-> toAuto]
<1>0. toAuto \in BOOLEAN /\ quiet \in BOOLEAN
  OBVIOUS
<1>1. device' \in Device /\ jobs' \in Seq(Job) /\ (calm' = quiet \/ calm' = FALSE) /\ Len(jobs') <= MaxJobs
      /\ \A i \in 1..Len(jobs') : jobs'[i].kind = "press" \/ (i \in 1..Len(jobs) /\ jobs'[i] = jobs[i])
  <2>1. CASE c \in {"auto", "autoOff"}
    <3>1. PICK on \in BOOLEAN : ChooseAuto(on, quiet)
      BY <2>1 DEF Press
    <3> HIDE DEF quiet
    <3>2. device' \in Device /\ jobs' = jobs /\ (calm' = quiet \/ calm' = FALSE)
      BY <3>1, <1>t, ChoosesAuto
    <3> QED
      BY <3>2, <1>t
  <2>2. CASE c \notin {"auto", "autoOff"}
    <3>1. c \in Speeds \cup {"boost", "boostOff"}
      BY <2>2 DEF Choices, Stands
    <3>2. j \in Job /\ j.kind = "press"
      BY <3>1, <1>0 DEF Job
    <3>3. ChooseStand(j, quiet)
      BY <2>2 DEF Press
    <3> HIDE DEF j, quiet
    <3>4. /\ device' \in Device /\ jobs' \in Seq(Job) /\ (calm' = quiet \/ calm' = FALSE)
          /\ Len(jobs') <= Len(jobs) + 1
          /\ \A i \in 1..Len(jobs') : jobs'[i] = j \/ (i \in 1..Len(jobs) /\ jobs'[i] = jobs[i])
      BY <3>2, <3>3, <1>t, ChoosesStand
    <3> QED
      BY <3>2, <3>4, <1>t
  <2> QED
    BY <2>1, <2>2
<1>2. calm' \in BOOLEAN
  BY <1>0, <1>1
<1> HIDE DEF quiet, toAuto, j
<1>3. /\ boostRestore' = RestoreAfterPress(c) /\ runs' = [l \in Logics |-> None]
      /\ trig' = Nothing /\ until' = Nothing /\ dur' = Nothing
      /\ alone' = TRUE /\ status' = status /\ sensor' = sensor /\ leaked' = leaked
      /\ wishes' = {IF c \in Speeds \cup {"auto"} THEN c
                    ELSE IF c = "boost" /\ (device.auto \/ boostRestore) THEN "auto"
                    ELSE device.speed}
  BY DEF Press, RunsAfterPress
<1>4. boostRestore' \in BOOLEAN
  BY <1>3 DEF RestoreAfterPress
<1>5. wishes' \subseteq Speeds \cup {"auto"}
  BY <1>3, <1>t DEF Device
<1>6. TypeOK'
  BY <1>1, <1>2, <1>3, <1>4, <1>5, <1>t DEF TypeOK, Nothing
<1>7. Waits'
  <2>1. \A i \in 1..Len(jobs') : jobs'[i].kind = "start" => leaked'[jobs'[i].logic] + i <= MaxJobs
    BY <1>1, <1>3, <1>t DEF Waits
  <2>2. \A l \in Logics : until'[l] = FALSE /\ dur'[l] = FALSE
    BY <1>3 DEF Nothing
  <2> QED
    BY <2>1, <2>2, <1>1 DEF Waits
<1> QED
  BY <1>6, <1>7 DEF Typed

LEMMA StartTyped ==
    ASSUME Typed, WtwAssumption, NEW l \in Logics, StartLogic(l),
           sensor' \in [Logics -> BOOLEAN \cup {None}]
    PROVE  Typed'
<1>t. TypeOK /\ Waits /\ Len(jobs) < MaxJobs /\ jobs \in Seq(Job) /\ MaxJobs \in Nat
  BY DEF Typed, TypeOK, StartLogic, WtwAssumption
<1> DEFINE quiet == /\ calm /\ jobs = <<>> /\ status = device
                    /\ ~device.boost /\ ~boostRestore
           others == \E k \in Logics : Running(k)
           j == [kind |-> "start", logic |-> l, stand |-> Stand[l], restore |-> Active(status)]
<1>0. quiet \in BOOLEAN /\ (alone /\ ~others) \in BOOLEAN
  OBVIOUS
<1>1. /\ trig' = [trig EXCEPT ![l] = FALSE] /\ until' = [until EXCEPT ![l] = FALSE]
      /\ ChooseStand(j, quiet) /\ leaked[l] = 0 /\ ~Running(l)
      /\ wishes' = (IF others \/ After[l] = "previous" THEN wishes ELSE {})
                     \cup ({After[l]} \ {"previous"})
      /\ alone' = (alone /\ ~others)
      /\ UNCHANGED <<status, dur, runs, leaked, boostRestore>>
  BY DEF StartLogic
<1>2. j \in Job /\ j.kind = "start" /\ j.logic = l
  <2>1. Stand[l] \in Speeds \cup {"boost"} /\ Active(status) \in Stands
    BY ActiveIsStand, <1>t DEF WtwAssumption, TypeOK
  <2> QED
    BY <2>1 DEF Job
<1>3. alone' \in BOOLEAN
  BY <1>0, <1>1
<1>4. wishes' \subseteq Speeds \cup {"auto"}
  <2>1. After[l] \in Speeds \cup {"previous", "auto"} /\ wishes \subseteq Speeds \cup {"auto"}
    BY <1>t DEF WtwAssumption, TypeOK
  <2> QED
    BY <2>1, <1>1
<1> HIDE DEF quiet, others, j
<1>5. /\ device' \in Device /\ jobs' \in Seq(Job) /\ (calm' = quiet \/ calm' = FALSE)
      /\ Len(jobs') <= Len(jobs) + 1
      /\ \A i \in 1..Len(jobs') : jobs'[i] = j \/ (i \in 1..Len(jobs) /\ jobs'[i] = jobs[i])
  BY <1>1, <1>2, <1>t, ChoosesStand
<1>6. calm' \in BOOLEAN
  BY <1>0, <1>5
<1>7. TypeOK'
  BY <1>1, <1>3, <1>4, <1>5, <1>6, <1>t DEF TypeOK
<1>8. Waits'
  <2>1. \A i \in 1..Len(jobs') : jobs'[i].kind = "start" => leaked'[jobs'[i].logic] + i <= MaxJobs
    BY <1>1, <1>2, <1>5, <1>t DEF Waits
  <2>2. \A k \in Logics : until'[k] = TRUE \/ dur'[k] = TRUE => runs'[k] # None
    BY <1>1, <1>t DEF Waits, TypeOK, Running
  <2> QED
    BY <2>1, <2>2, <1>5, <1>t DEF Waits, Running
<1> QED
  BY <1>7, <1>8 DEF Typed

LEMMA StartDoneTyped == ASSUME Typed, WtwAssumption, StartDone PROVE Typed'
<1> DEFINE l == Head(jobs).logic
<1>t. TypeOK /\ Waits /\ MaxJobs \in Nat /\ device \in Device /\ None \notin Stands
  BY DEF Typed, TypeOK, WtwAssumption
<1>1. /\ jobs # <<>> /\ Head(jobs).kind = "start" /\ jobs' = Tail(jobs)
      /\ device' = Written(device, Head(jobs).stand)
      /\ runs' = [runs EXCEPT ![l] = Head(jobs).restore]
      /\ dur' = [dur EXCEPT ![l] = End[l] = "duration"]
      /\ leaked' = [leaked EXCEPT ![l] = IF dur[l] THEN @ + 1 ELSE @]
      /\ until' = [until EXCEPT ![l] = UntilTimed(l, sensor[l])]
      /\ UNCHANGED <<status, sensor, trig, boostRestore, wishes, calm, alone>>
  BY DEF StartDone, UntilAtStart
<1>2. /\ jobs' \in Seq(Job) /\ Len(jobs') = Len(jobs) - 1 /\ Len(jobs) \in Nat
      /\ Head(jobs) \in Job /\ Head(jobs) = jobs[1] /\ Len(jobs) >= 1
      /\ \A i \in 1..Len(jobs') : jobs'[i] = jobs[i + 1] /\ i + 1 \in 1..Len(jobs)
  BY <1>1, TakesFirst
<1>3. l \in Logics /\ Head(jobs).restore \in Stands /\ Head(jobs).stand \in Speeds \cup {"boost"}
  BY <1>1, <1>2, JobKinds
<1>4. leaked[l] + 1 <= MaxJobs /\ leaked \in [Logics -> 0..MaxJobs]
  BY <1>1, <1>2, <1>t DEF Waits, TypeOK
<1> HIDE DEF l
<1>5. leaked' \in [Logics -> 0..MaxJobs] /\ \A k \in Logics : leaked'[k] <= leaked[k] + 1
  BY <1>1, <1>3, <1>4, <1>t
<1>6. until' \in [Logics -> BOOLEAN] /\ dur' \in [Logics -> BOOLEAN]
  <2>1. UntilTimed(l, sensor[l]) \in BOOLEAN
    BY <1>3, <1>t DEF UntilTimed, TypeOK
  <2>2. (End[l] = "duration") \in BOOLEAN
    OBVIOUS
  <2> QED
    BY <2>1, <2>2, <1>1, <1>t DEF TypeOK
<1>7. device' \in Device
  BY <1>1, <1>3, <1>t, WrittenIsDevice
<1>8. runs' \in [Logics -> Stands \cup {None}]
  BY <1>1, <1>3, <1>t DEF TypeOK
<1>9. TypeOK'
  BY <1>1, <1>2, <1>5, <1>6, <1>7, <1>8, <1>t DEF TypeOK
<1>10. Waits'
  <2>1. ASSUME NEW i \in 1..Len(jobs'), jobs'[i].kind = "start" PROVE leaked'[jobs'[i].logic] + i <= MaxJobs
    <3>1. jobs'[i] = jobs[i + 1] /\ i + 1 \in 1..Len(jobs) /\ jobs'[i] \in Job
      BY <1>2
    <3>2. jobs'[i].logic \in Logics
      BY <3>1, <2>1, JobKinds
    <3>3. leaked[jobs'[i].logic] + (i + 1) <= MaxJobs
      BY <3>1, <2>1, <1>t DEF Waits
    <3>4. leaked[jobs'[i].logic] \in Nat /\ leaked'[jobs'[i].logic] \in Nat /\ i \in Nat
      BY <3>2, <1>4, <1>5, <1>t
    <3> QED
      BY <3>2, <3>3, <3>4, <1>5, <1>t
  <2>2. \A k \in Logics : until'[k] = TRUE \/ dur'[k] = TRUE => runs'[k] # None
    BY <1>1, <1>3, <1>t DEF Waits, TypeOK, Running
  <2>3. Len(jobs') <= MaxJobs
    BY <1>2, <1>t DEF TypeOK
  <2> QED
    BY <2>1, <2>2, <2>3 DEF Waits, Running
<1> QED
  BY <1>9, <1>10 DEF Typed

LEMMA EndTyped ==
    ASSUME Typed, WtwAssumption, NEW l \in Logics, Running(l), EndLogic(l),
           leaked' \in [Logics -> 0..MaxJobs], \A k \in Logics : leaked'[k] <= leaked[k]
    PROVE  Typed'
<1> DEFINE target == IF After[l] = "previous" THEN runs[l] ELSE After[l]
           j == [kind |-> "end", stand |-> target]
           quiet == calm /\ jobs = <<>>
<1>t. /\ TypeOK /\ Waits /\ MaxJobs \in Nat /\ jobs \in Seq(Job) /\ runs[l] # None /\ calm \in BOOLEAN
      /\ runs \in [Logics -> Stands \cup {None}]
  BY DEF Typed, TypeOK, WtwAssumption, Running
<1>1. /\ runs' = [runs EXCEPT ![l] = None] /\ trig' = [trig EXCEPT ![l] = FALSE]
      /\ until' = [until EXCEPT ![l] = FALSE] /\ dur' = [dur EXCEPT ![l] = FALSE]
      /\ UNCHANGED <<status, sensor, boostRestore, wishes, alone>>
  BY DEF EndLogic
<1>0. quiet \in BOOLEAN
  OBVIOUS
<1>2. /\ device' \in Device /\ jobs' \in Seq(Job) /\ calm' \in BOOLEAN
      /\ Len(jobs') <= Len(jobs) + 1
      /\ \A i \in 1..Len(jobs') : jobs'[i].kind = "end" \/ (i \in 1..Len(jobs) /\ jobs'[i] = jobs[i])
      /\ (\E k \in Logics \ {l} : Running(k)) => jobs' = jobs
  <2>1. CASE \E k \in Logics \ {l} : Running(k)
    <3>1. UNCHANGED <<device, jobs, calm>>
      BY <2>1 DEF EndLogic
    <3>2. device \in Device
      BY <1>t DEF TypeOK
    <3> QED
      BY <3>1, <3>2, <1>t
  <2>2. CASE ~(\E k \in Logics \ {l} : Running(k)) /\ target = "auto"
    <3>1. ChooseAuto(TRUE, quiet)
      BY <2>2 DEF EndLogic
    <3> HIDE DEF quiet
    <3>2. device' \in Device /\ jobs' = jobs /\ (calm' = quiet \/ calm' = FALSE)
      BY <3>1, <1>t, ChoosesAuto
    <3>3. calm' \in BOOLEAN
      BY <3>2, <1>0
    <3> QED
      BY <3>2, <3>3, <1>t
  <2>3. CASE ~(\E k \in Logics \ {l} : Running(k)) /\ target # "auto"
    <3>1. target \in Speeds \cup {"boost"}
      <4>1. runs[l] \in Stands /\ After[l] \in Speeds \cup {"previous", "auto"}
        BY <1>t DEF WtwAssumption
      <4> QED
        BY <4>1, <2>3 DEF Stands
    <3>2. j \in Job /\ j.kind = "end"
      BY <3>1 DEF Job
    <3>3. ChooseStand(j, quiet)
      BY <2>3 DEF EndLogic
    <3> HIDE DEF j, quiet, target
    <3>4. /\ device' \in Device /\ jobs' \in Seq(Job) /\ (calm' = quiet \/ calm' = FALSE)
          /\ Len(jobs') <= Len(jobs) + 1
          /\ \A i \in 1..Len(jobs') : jobs'[i] = j \/ (i \in 1..Len(jobs) /\ jobs'[i] = jobs[i])
      BY <3>2, <3>3, <1>t, ChoosesStand
    <3> QED
      BY <3>2, <3>4, <2>3, <1>0
  <2> QED
    BY <2>1, <2>2, <2>3
<1> HIDE DEF target, j, quiet
<1>3. Len(jobs) <= MaxJobs /\ Len(jobs) \in Nat /\ Len(jobs') \in Nat
  BY <1>t, <1>2 DEF Waits
<1>4. TypeOK'
  BY <1>1, <1>2, <1>3, <1>t DEF TypeOK
<1>5. Waits'
  <2>1. ASSUME NEW i \in 1..Len(jobs'), jobs'[i].kind = "start" PROVE leaked'[jobs'[i].logic] + i <= MaxJobs
    <3>1. jobs'[i] = jobs[i] /\ i \in 1..Len(jobs) /\ jobs[i] \in Job
      BY <1>2, <1>t, <2>1
    <3>2. jobs[i].logic \in Logics /\ leaked[jobs[i].logic] + i <= MaxJobs
      BY <3>1, <2>1, <1>t, JobKinds DEF Waits
    <3>3. leaked[jobs[i].logic] \in Nat /\ leaked'[jobs[i].logic] \in Nat
      BY <3>2, <1>t DEF TypeOK
    <3> QED
      BY <3>1, <3>2, <3>3, <1>t
  <2>2. \A k \in Logics : until'[k] = TRUE \/ dur'[k] = TRUE => runs'[k] # None
    BY <1>1, <1>t DEF Waits, TypeOK, Running
  <2>3. ASSUME NEW k \in Logics, runs'[k] # None PROVE Len(jobs') <= MaxJobs
    BY <2>3, <1>1, <1>2, <1>3, <1>t DEF Running
  <2> QED
    BY <2>1, <2>2, <2>3 DEF Waits, Running
<1> QED
  BY <1>4, <1>5 DEF Typed
LEMMA TypedStep == ASSUME Typed, WtwAssumption, [Next]_vars PROVE Typed'
<1>t. /\ TypeOK /\ Waits /\ MaxJobs \in Nat /\ device \in Device /\ jobs \in Seq(Job)
      /\ leaked \in [Logics -> 0..MaxJobs] /\ calm \in BOOLEAN /\ sensor \in [Logics -> BOOLEAN \cup {None}]
  BY DEF Typed, TypeOK, WtwAssumption
<1>1. ASSUME NEW c \in Choices, Press(c) PROVE Typed'
  BY <1>1, PressTyped
<1>2. ASSUME device' \in Device, jobs # <<>>, jobs' = Tail(jobs), boostRestore' \in BOOLEAN, calm' \in BOOLEAN,
             UNCHANGED <<status, sensor, timers, runs, leaked, wishes, alone>>
      PROVE  Typed'
  <2>1. /\ jobs' \in Seq(Job) /\ Len(jobs') = Len(jobs) - 1 /\ Len(jobs) \in Nat
        /\ \A i \in 1..Len(jobs') : jobs'[i] = jobs[i + 1] /\ i + 1 \in 1..Len(jobs)
    BY <1>2, TakesFirst
  <2>2. TypeOK'
    BY <1>2, <2>1, <1>t DEF TypeOK, timers
  <2>3. ASSUME NEW i \in 1..Len(jobs'), jobs'[i].kind = "start" PROVE leaked'[jobs'[i].logic] + i <= MaxJobs
    <3>1. jobs'[i] = jobs[i + 1] /\ i + 1 \in 1..Len(jobs) /\ jobs'[i] \in Job
      BY <2>1
    <3>2. jobs'[i].logic \in Logics
      BY <3>1, <2>3, JobKinds
    <3>3. leaked[jobs'[i].logic] + (i + 1) <= MaxJobs
      BY <3>1, <2>3, <1>t DEF Waits
    <3>4. leaked[jobs'[i].logic] \in Nat /\ i \in Nat
      BY <3>2, <1>t
    <3> QED
      BY <3>3, <3>4, <1>2, <1>t
  <2>4. Waits'
    BY <1>2, <2>1, <2>3, <1>t DEF Waits, Running, timers
  <2> QED
    BY <2>2, <2>4 DEF Typed
<1>3. CASE PressDone
  <2>1. Head(jobs) \in Job /\ Head(jobs).kind = "press" /\ jobs # <<>>
    BY <1>3, <1>t, Shorter DEF PressDone
  <2>2. Head(jobs).stand \in Speeds \cup {"boost", "boostOff"} /\ Head(jobs).toAuto \in BOOLEAN
    BY <2>1, JobKinds
  <2>3. device' \in Device
    BY <1>3, <2>2, <1>t, WrittenIsDevice DEF PressDone
  <2>4. boostRestore' \in BOOLEAN
    BY <1>3 DEF PressDone
  <2> QED
    BY <1>2, <1>3, <2>1, <2>3, <2>4, <1>t DEF PressDone
<1>4. CASE StartDone
  BY <1>4, StartDoneTyped
<1>5. CASE EndDone
  <2>1. Head(jobs) \in Job /\ Head(jobs).kind = "end" /\ jobs # <<>>
    BY <1>5, <1>t, Shorter DEF EndDone
  <2>2. Head(jobs).stand \in Speeds \cup {"boost", "boostOff"}
    BY <2>1, JobKinds
  <2>3. device' \in Device
    BY <1>5, <2>2, <1>t, WrittenIsDevice DEF EndDone
  <2>4. boostRestore' \in BOOLEAN
    BY <1>5, <1>t DEF EndDone, TypeOK
  <2> QED
    BY <1>2, <1>5, <2>1, <2>3, <2>4, <1>t DEF EndDone
<1>6. CASE JobFails
  <2>1. boostRestore' \in BOOLEAN
    BY <1>6, <1>t DEF JobFails, TypeOK
  <2> QED
    BY <1>2, <1>6, <2>1, <1>t DEF JobFails
<1>7. ASSUME device' \in Device, status' \in Device \cup {None}, jobs' = jobs, boostRestore' \in BOOLEAN,
             calm' \in BOOLEAN, UNCHANGED <<sensor, timers, runs, leaked, wishes, alone>>
      PROVE  Typed'
  BY <1>7, <1>t DEF Typed, TypeOK, Waits, Running, timers
<1>8. ASSUME FinishBoostRestore PROVE device' \in Device /\ jobs' = jobs /\ boostRestore' = FALSE /\ calm' \in BOOLEAN
  <2>1. ChooseAuto(TRUE, calm) /\ boostRestore' = FALSE
    BY <1>8 DEF FinishBoostRestore
  <2> QED
    BY <2>1, <1>t, ChoosesAuto
<1>9. CASE BoostTimer
  BY <1>7, <1>8, <1>9, <1>t DEF BoostTimer, TypeOK
<1>10. CASE DeviceBoostEnds
  BY <1>7, <1>10, <1>t DEF DeviceBoostEnds, TypeOK, Device
<1>11. CASE Report
  <2>1. device' \in Device /\ jobs' = jobs /\ boostRestore' \in BOOLEAN /\ calm' \in BOOLEAN
    BY <1>8, <1>11, <1>t DEF Report, TypeOK
  <2> QED
    BY <1>7, <1>11, <2>1, <1>t DEF Report
<1>12. CASE Restart
  <2>1. jobs' = <<>> /\ jobs' \in Seq(Job) /\ Len(jobs') = 0
    BY <1>12 DEF Restart
  <2>2. boostRestore' \in BOOLEAN /\ calm' \in BOOLEAN
    BY <1>12 DEF Restart
  <2>3. TypeOK'
    BY <1>12, <2>1, <2>2, <1>t DEF Restart, TypeOK, Nothing
  <2>4. Waits'
    BY <1>12, <2>1, <1>t DEF Restart, Waits, Nothing, Running
  <2> QED
    BY <2>3, <2>4 DEF Typed
<1>13. ASSUME NEW l \in Logics, NEW v \in BOOLEAN, Telegram(l, v) PROVE Typed'
  <2>1. sensor' \in [Logics -> BOOLEAN \cup {None}]
    BY <1>13, <1>t DEF Telegram
  <2>2. CASE StartLogic(l)
    BY <2>1, <2>2, StartTyped
  <2>3. CASE /\ trig' = [trig EXCEPT ![l] = TrigTimed(l, v)]
             /\ until' = IF Running(l) THEN [until EXCEPT ![l] = UntilTimed(l, v)] ELSE until
             /\ UNCHANGED <<device, status, dur, runs, leaked, boostRestore, jobs, wishes, calm, alone>>
    <3>1. TrigTimed(l, v) \in BOOLEAN /\ UntilTimed(l, v) \in BOOLEAN
      BY <1>t DEF TrigTimed, UntilTimed, TypeOK
    <3>2. trig' \in [Logics -> BOOLEAN] /\ until' \in [Logics -> BOOLEAN]
      BY <2>3, <3>1, <1>t DEF TypeOK
    <3>3. TypeOK'
      BY <2>1, <2>3, <3>2, <1>t DEF TypeOK
    <3>4. Waits'
      BY <2>3, <1>t DEF Waits, Running, TypeOK
    <3> QED
      BY <3>3, <3>4 DEF Typed
  <2> QED
    BY <1>13, <2>2, <2>3 DEF Telegram
<1>14. ASSUME NEW l \in Logics, TemperatureRises(l) PROVE Typed'
  BY <1>14, <1>t, StartTyped DEF TemperatureRises
<1>15. ASSUME NEW l \in Logics, TrigTimer(l) PROVE Typed'
  <2>1. CASE StartLogic(l) /\ UNCHANGED sensor
    BY <2>1, <1>t, StartTyped
  <2>2. CASE /\ trig' = [trig EXCEPT ![l] = FALSE]
             /\ UNCHANGED <<device, status, sensor, until, dur, runs, leaked, boostRestore, jobs,
                            wishes, calm, alone>>
    BY <2>2, <1>t DEF Typed, TypeOK, Waits, Running
  <2> QED
    BY <1>15, <2>1, <2>2 DEF TrigTimer
<1>16. ASSUME NEW l \in Logics, UntilTimer(l) \/ DurationTimer(l) PROVE Typed'
  <2>1. Running(l) /\ EndLogic(l) /\ leaked' = leaked
    BY <1>16, <1>t DEF UntilTimer, DurationTimer, Waits, TypeOK
  <2> QED
    BY <2>1, <1>t, EndTyped
<1>17. ASSUME NEW l \in Logics, LeakedTimer(l) PROVE Typed'
  <2>1. leaked' \in [Logics -> 0..MaxJobs] /\ \A k \in Logics : leaked'[k] <= leaked[k]
    BY <1>17, <1>t DEF LeakedTimer
  <2>2. CASE Running(l) /\ EndLogic(l)
    BY <2>1, <2>2, EndTyped
  <2>3. CASE UNCHANGED <<device, status, sensor, timers, runs, boostRestore, jobs, wishes, calm, alone>>
    <3>1. TypeOK'
      BY <2>1, <2>3, <1>t DEF TypeOK, timers
    <3>2. ASSUME NEW i \in 1..Len(jobs), jobs[i].kind = "start" PROVE leaked'[jobs[i].logic] + i <= MaxJobs
      <4>1. jobs[i].logic \in Logics /\ leaked[jobs[i].logic] + i <= MaxJobs
        BY <3>2, <1>t, JobKinds DEF Waits
      <4> QED
        BY <4>1, <2>1, <1>t
    <3>3. Waits'
      BY <2>3, <3>2, <1>t DEF Waits, Running, timers
    <3> QED
      BY <3>1, <3>3 DEF Typed
  <2> QED
    BY <1>17, <2>2, <2>3 DEF LeakedTimer
<1>18. CASE UNCHANGED vars
  BY <1>18 DEF vars, timers, Typed, TypeOK, Waits, Running
<1> QED
  BY <1>1, <1>3, <1>4, <1>5, <1>6, <1>9, <1>10, <1>11, <1>12, <1>13, <1>14, <1>15, <1>16, <1>17, <1>18 DEF Next

LEMMA TypedStart == WtwAssumption /\ Init => Typed
<1> SUFFICES ASSUME WtwAssumption, Init PROVE Typed
  OBVIOUS
<1>0. device \in [auto : BOOLEAN, speed : {"low"}, boost : {FALSE}]
  BY DEF Init
<1>d. device \in Device
  BY <1>0 DEF Device, Speeds
<1>1. jobs = <<>> /\ jobs \in Seq(Job) /\ Len(jobs) = 0 /\ device \in Device
  BY <1>d DEF Init
<1>2. boostRestore \in BOOLEAN /\ calm \in BOOLEAN /\ alone \in BOOLEAN
  BY DEF Init
<1>3. Active(device) \in Speeds \cup {"auto"}
  BY DEF Init, Active, AutoIsOn, Speeds
<1>4. TypeOK
  BY <1>1, <1>2, <1>3 DEF Init, TypeOK, Nothing, WtwAssumption
<1>5. Waits
  BY <1>1 DEF Init, Waits, Nothing, WtwAssumption
<1> QED
  BY <1>4, <1>5 DEF Typed

\* The state has its type, whatever telegrams, presses and restarts come in: in
\* particular the stand a run goes back to is one that can be chosen
\* (readZehnderActiveStand), and no more timers are left over than starts waited.
THEOREM TypeAlwaysOK == Spec => []TypeOK
<1>1. Init => Typed
  BY WtwAssumption, TypedStart
<1>2. Typed /\ [Next]_vars => Typed'
  BY WtwAssumption, TypedStep
<1>3. Typed => TypeOK
  BY DEF Typed
<1> QED
  BY <1>1, <1>2, <1>3, PTL DEF Spec
\* The stand that the unit is in but for a boost, and the one that a logic is
\* to leave it in, from being in the given one.
Base == IF device.auto THEN "auto" ELSE device.speed
Back(l, from) == IF After[l] = "previous" THEN from ELSE After[l]

\* A choice that waits leaves the unit as wished: a logic's start its end, an
\* end or a speed its stand, and a boost what it began in.
Coming(j) ==
    /\ j.kind = "start" =>
         boostRestore = FALSE /\ device.auto = FALSE /\ Back(j.logic, j.restore) \in wishes
    /\ j.kind = "end" => boostRestore = FALSE /\ device.auto = FALSE /\ j.stand \in wishes
    /\ j.kind = "press" =>
         IF j.stand \in Speeds
         THEN boostRestore = FALSE /\ device.auto = FALSE /\ j.toAuto = FALSE /\ j.stand \in wishes
         ELSE IF boostRestore \/ j.toAuto THEN "auto" \in wishes ELSE Base \in wishes

\* While nothing overlapped one choice waits or one logic runs, and what it is
\* will leave the unit as wished; when there is neither, the unit is.
Quiet ==
    calm = TRUE /\ alone = TRUE =>
        /\ Len(jobs) <= 1
        /\ \A k, l \in Logics : Running(k) /\ Running(l) => k = l
        /\ \A l \in Logics : Running(l) =>
             /\ jobs = <<>> /\ boostRestore = FALSE /\ device.auto = FALSE
             /\ Back(l, runs[l]) \in wishes
        /\ jobs = <<>> /\ (\A l \in Logics : ~Running(l)) =>
             IF boostRestore THEN "auto" \in wishes ELSE Base \in wishes
        /\ jobs # <<>> => Coming(jobs[1])

\* The queue has one choice when it gets its first.
LEMMA FirstJob ==
    ASSUME NEW j \in Job
    PROVE  Append(<<>>, j) # <<>> /\ Len(Append(<<>>, j)) = 1 /\ Append(<<>>, j)[1] = j
  OBVIOUS

LEMMA WrittenBase ==
    ASSUME NEW d \in Device, NEW stand \in Speeds \cup {"boost", "boostOff"}
    PROVE  /\ stand \notin Speeds => Written(d, stand).auto = d.auto /\ Written(d, stand).speed = d.speed
           /\ stand \in Speeds /\ d.auto = FALSE => Written(d, stand).auto = FALSE /\ Written(d, stand).speed = stand
           /\ d.auto = FALSE => Written(d, stand).auto = FALSE
  BY DEF Written, Device, Speeds

LEMMA QuietPress ==
    ASSUME Typed, WtwAssumption, Quiet, NEW c \in Choices, Press(c), calm' = TRUE, alone' = TRUE PROVE Quiet'
<1>t. TypeOK /\ device \in Device /\ jobs \in Seq(Job) /\ boostRestore \in BOOLEAN
  BY DEF Typed, TypeOK
<1> DEFINE toAuto == c = "boost" /\ AutoIsOn(status)
           j == [kind |-> "press", stand |-> c, toAuto |-> toAuto]
           quiet == jobs = <<>> /\ (c = "boost" => status = device)
<1>1. /\ boostRestore' = (boostRestore /\ c = "boost")
      /\ \A l \in Logics : runs'[l] = None
      /\ wishes' = {IF c \in Speeds \cup {"auto"} THEN c
                    ELSE IF c = "boost" /\ (device.auto \/ boostRestore) THEN "auto"
                    ELSE device.speed}
  BY DEF Press, RestoreAfterPress, RunsAfterPress
<1>2. CASE c \in {"auto", "autoOff"}
  <2>1. \E on \in BOOLEAN : ChooseAuto(on, quiet) /\ (on = TRUE <=> c = "auto")
    BY <1>2 DEF Press
  <2>2. PICK on \in BOOLEAN : ChooseAuto(on, quiet) /\ (on = TRUE <=> c = "auto")
    BY <2>1
  <2>3. device' = [device EXCEPT !.auto = on] /\ jobs' = jobs /\ quiet
    BY <2>2 DEF ChooseAuto
  <2>4. device'.auto = on /\ device'.speed = device.speed /\ jobs' = <<>> /\ Len(jobs') = 0
    BY <2>3, <1>t DEF Device
  <2>5. boostRestore' = FALSE
    BY <1>1, <1>2
  <2>6. Base' \in wishes'
    BY <1>1, <1>2, <2>2, <2>4 DEF Base, Speeds
  <2> QED
    BY <1>1, <2>4, <2>5, <2>6 DEF Quiet, Running
<1>3. CASE c \notin {"auto", "autoOff"}
  <2>1. c \in Speeds \cup {"boost", "boostOff"}
    BY <1>3 DEF Choices, Stands
  <2>2. toAuto \in BOOLEAN
    OBVIOUS
  <2>3. j \in Job /\ j.kind = "press" /\ j.stand = c /\ j.toAuto = toAuto
    BY <2>1, <2>2 DEF Job
  <2>4. ChooseStand(j, quiet)
    BY <1>3 DEF Press
  <2> HIDE DEF j
  <2>k. PICK k \in Job : k = j
    BY <2>3
  <2>5. device' = [device EXCEPT !.auto = FALSE] /\ jobs' = Append(jobs, k) /\ quiet
    BY <2>4, <2>k DEF ChooseStand
  <2>6. device'.auto = FALSE /\ device'.speed = device.speed
    BY <2>5, <1>t DEF Device
  <2>7. Len(jobs') = 1 /\ jobs' # <<>> /\ jobs'[1] = k
    BY <2>5, FirstJob
  <2>c. k.kind = "press" /\ k.stand = c /\ k.toAuto = toAuto
    BY <2>3, <2>k
  <2> HIDE DEF toAuto
  <2>8. Coming(k)'
    <3>1. CASE c \in Speeds
      <4>1. c # "boost"
        BY <3>1 DEF Speeds
      <4>2. toAuto = FALSE
        BY <4>1 DEF toAuto
      <4> QED
        BY <3>1, <4>1, <1>1, <2>c, <2>6, <4>2 DEF Coming
    <3>2. CASE c = "boostOff"
      <4>1. Base' = device.speed /\ boostRestore' = FALSE /\ wishes' = {device.speed} /\ toAuto = FALSE
        BY <3>2, <1>1, <2>6 DEF Base, Speeds, toAuto
      <4> QED
        BY <3>2, <4>1, <2>c DEF Coming, Speeds
    <3>3. CASE c = "boost"
      <4>1. status = device
        BY <3>3, <2>5
      <4>2. toAuto = TRUE => device.auto = TRUE
        BY <4>1, <1>t DEF AutoIsOn, Device, toAuto
      <4>3. wishes' = {IF device.auto \/ boostRestore THEN "auto" ELSE device.speed} /\ boostRestore' = boostRestore
        BY <3>3, <1>1, <1>t DEF Speeds
      <4>4. Base' = device.speed
        BY <2>6 DEF Base
      <4>5. (boostRestore' = TRUE \/ toAuto = TRUE) => "auto" \in wishes'
        BY <4>2, <4>3
      <4>6. ~(boostRestore' = TRUE \/ toAuto = TRUE) => Base' \in wishes'
        <5>1. SUFFICES ASSUME boostRestore = FALSE, toAuto = FALSE PROVE device.auto = FALSE
          BY <4>3, <4>4, <2>2, <1>t
        <5>2. ~AutoIsOn(status) /\ device # None
          BY <5>1, <3>3, <1>t DEF toAuto, WtwAssumption
        <5> QED
          BY <5>2, <4>1, <1>t DEF AutoIsOn, Device
      <4> QED
        BY <3>3, <4>3, <4>5, <4>6, <2>2, <2>c, <1>t DEF Coming, Speeds
    <3> QED
      BY <2>1, <3>1, <3>2, <3>3
  <2>9. Coming(jobs[1])'
    BY <2>7, <2>8 DEF Coming
  <2> QED
    BY <1>1, <2>7, <2>9 DEF Quiet, Running
<1> QED
  BY <1>2, <1>3
\* A choice of Auto or a stand that nobody disturbed.
LEMMA CalmChoice ==
    ASSUME NEW j, NEW quiet, ChooseStand(j, quiet), calm' = TRUE
    PROVE  device' = [device EXCEPT !.auto = FALSE] /\ jobs' = Append(jobs, j) /\ quiet
  BY DEF ChooseStand

LEMMA QuietStart ==
    ASSUME Typed, WtwAssumption, Quiet, NEW l \in Logics, StartLogic(l), calm' = TRUE, alone' = TRUE
    PROVE  Quiet'
<1>t. TypeOK /\ device \in Device /\ jobs \in Seq(Job) /\ boostRestore \in BOOLEAN
      /\ calm \in BOOLEAN /\ alone \in BOOLEAN /\ wishes \subseteq Speeds \cup {"auto"}
  BY DEF Typed, TypeOK
<1> DEFINE quiet == /\ calm /\ jobs = <<>> /\ status = device
                    /\ ~device.boost /\ ~boostRestore
           others == \E i \in Logics : Running(i)
           j == [kind |-> "start", logic |-> l, stand |-> Stand[l], restore |-> Active(status)]
<1>1. /\ ChooseStand(j, quiet) /\ ~Running(l)
      /\ wishes' = (IF others \/ After[l] = "previous" THEN wishes ELSE {})
                     \cup ({After[l]} \ {"previous"})
      /\ alone' = (alone /\ ~others) /\ runs' = runs /\ boostRestore' = boostRestore
  BY DEF StartLogic
<1>2. j \in Job /\ j.kind = "start" /\ j.logic = l /\ j.restore = Active(status)
  <2>1. Stand[l] \in Speeds \cup {"boost"} /\ Active(status) \in Stands
    BY ActiveIsStand, <1>t DEF WtwAssumption, TypeOK
  <2> QED
    BY <2>1 DEF Job
<1>3. device' = [device EXCEPT !.auto = FALSE] /\ jobs' = Append(jobs, j) /\ quiet
  BY <1>1, CalmChoice
<1>4. /\ calm = TRUE /\ jobs = <<>> /\ status = device /\ device.boost = FALSE /\ boostRestore = FALSE
      /\ alone = TRUE /\ ~others
  BY <1>1, <1>3, <1>t DEF Device
<1> HIDE DEF quiet, j
<1>k. PICK k \in Job : k = j
  BY <1>2
<1>5. Len(jobs') = 1 /\ jobs' # <<>> /\ jobs'[1] = k
  BY <1>3, <1>4, <1>k, FirstJob
<1>6. Active(status) = Base
  BY <1>4, <1>t DEF Active, AutoIsOn, Base, Device, WtwAssumption
<1>7. Base \in wishes
  BY <1>4, <1>t DEF Quiet
<1>8. Back(l, Active(status)) \in wishes'
  <2>1. CASE After[l] = "previous"
    BY <2>1, <1>1, <1>6, <1>7 DEF Back
  <2>2. CASE After[l] # "previous"
    BY <2>2, <1>1 DEF Back
  <2> QED
    BY <2>1, <2>2
<1>9. device'.auto = FALSE
  BY <1>3, <1>t DEF Device
<1>10. k.kind = "start" /\ k.logic = l /\ k.restore = Active(status)
  BY <1>2, <1>k
<1>11. Back(k.logic, k.restore) \in wishes'
  BY <1>8, <1>10
<1>12. Coming(k)'
  BY <1>1, <1>4, <1>9, <1>10, <1>11 DEF Coming, Back
<1>13. Coming(jobs[1])'
  BY <1>5, <1>12 DEF Coming
<1> QED
  BY <1>1, <1>4, <1>5, <1>13 DEF Quiet, Running

LEMMA QuietStartDone ==
    ASSUME Typed, WtwAssumption, Quiet, StartDone, calm = TRUE, alone = TRUE PROVE Quiet'
<1> DEFINE j == Head(jobs)
<1>t. TypeOK /\ device \in Device /\ jobs \in Seq(Job) /\ runs \in [Logics -> Stands \cup {None}]
      /\ None \notin Stands
  BY DEF Typed, TypeOK, WtwAssumption
<1>1. /\ jobs # <<>> /\ j.kind = "start" /\ jobs' = Tail(jobs)
      /\ device' = Written(device, j.stand) /\ runs' = [runs EXCEPT ![j.logic] = j.restore]
      /\ boostRestore' = boostRestore /\ wishes' = wishes
  BY DEF StartDone
<1>2. /\ j = jobs[1] /\ j \in Job /\ Len(jobs') = Len(jobs) - 1 /\ Len(jobs) >= 1 /\ Len(jobs) \in Nat
      /\ jobs' \in Seq(Job)
  BY <1>1, TakesFirst
<1>3. j.logic \in Logics /\ j.restore \in Stands /\ j.stand \in Speeds \cup {"boost"}
  BY <1>1, <1>2, JobKinds
<1>4. Len(jobs) = 1 /\ Coming(j)
  BY <1>1, <1>2 DEF Quiet
<1>5. jobs' = <<>> /\ Len(jobs') = 0
  BY <1>2, <1>4
<1> HIDE DEF j
<1>6. \A l \in Logics : ~Running(l)
  BY <1>1 DEF Quiet
<1>w. boostRestore = FALSE /\ device.auto = FALSE /\ Back(j.logic, j.restore) \in wishes
  BY <1>1, <1>4 DEF Coming
<1>v. Written(device, j.stand).auto = FALSE
  <2>1. PICK stand \in Speeds \cup {"boost", "boostOff"} : stand = j.stand
    BY <1>3
  <2>2. Written(device, stand).auto = FALSE
    BY <1>w, <1>t, WrittenBase
  <2> QED
    BY <2>1, <2>2
<1>7. device'.auto = FALSE /\ boostRestore' = FALSE /\ Back(j.logic, j.restore) \in wishes
  BY <1>1, <1>w, <1>v
<1>8. \A l \in Logics : runs'[l] # None <=> l = j.logic
  BY <1>1, <1>3, <1>6, <1>t DEF Running
<1>9. runs'[j.logic] = j.restore
  BY <1>1, <1>3, <1>t
<1>10. \A l \in Logics : runs'[l] # None => Back(l, runs'[l]) \in wishes
  BY <1>7, <1>8, <1>9
<1>11. \E l \in Logics : runs'[l] # None
  BY <1>3, <1>8
<1> QED
  BY <1>1, <1>5, <1>7, <1>8, <1>10, <1>11 DEF Quiet, Running, Back

LEMMA QuietEnd ==
    ASSUME Typed, WtwAssumption, Quiet, NEW l \in Logics, Running(l), EndLogic(l), calm' = TRUE, alone' = TRUE
    PROVE  Quiet'
<1> DEFINE target == Back(l, runs[l])
           j == [kind |-> "end", stand |-> target]
           quiet == calm /\ jobs = <<>>
<1>t. /\ TypeOK /\ jobs \in Seq(Job) /\ runs[l] # None /\ calm \in BOOLEAN /\ device \in Device
      /\ runs \in [Logics -> Stands \cup {None}] /\ wishes \subseteq Speeds \cup {"auto"}
  BY DEF Typed, TypeOK, WtwAssumption, Running
<1>1. /\ runs' = [runs EXCEPT ![l] = None] /\ boostRestore' = boostRestore /\ wishes' = wishes /\ alone' = alone
  BY DEF EndLogic
<1>2. calm = TRUE
  <2>1. CASE \E k \in Logics \ {l} : Running(k)
    BY <2>1, <1>t DEF EndLogic
  <2>2. CASE ~(\E k \in Logics \ {l} : Running(k))
    BY <2>2, <1>t DEF EndLogic, ChooseAuto, ChooseStand
  <2> QED
    BY <2>1, <2>2
<1>3. /\ ~(\E k \in Logics \ {l} : Running(k))
      /\ jobs = <<>> /\ boostRestore = FALSE /\ device.auto = FALSE /\ target \in wishes
  BY <1>1, <1>2 DEF Quiet
<1>4. \A k \in Logics : runs'[k] = None
  BY <1>1, <1>3, <1>t DEF Running
<1>5. CASE target = "auto"
  <2>1. ChooseAuto(TRUE, quiet)
    BY <1>3, <1>5 DEF EndLogic, Back
  <2>2. device' = [device EXCEPT !.auto = TRUE] /\ jobs' = jobs
    BY <2>1 DEF ChooseAuto
  <2>3. device'.auto = TRUE /\ jobs' = <<>> /\ Len(jobs') = 0
    BY <2>2, <1>3, <1>t DEF Device
  <2>4. Base' \in wishes'
    BY <2>3, <1>1, <1>3, <1>5 DEF Base
  <2> QED
    BY <2>3, <2>4, <1>1, <1>3, <1>4 DEF Quiet, Running
<1>6. CASE target # "auto"
  <2>1. ChooseStand(j, quiet)
    BY <1>3, <1>6 DEF EndLogic, Back
  <2>2. device' = [device EXCEPT !.auto = FALSE] /\ jobs' = Append(jobs, j)
    BY <2>1, CalmChoice
  <2>3. target \in Speeds
    BY <1>3, <1>6, <1>t
  <2>4. j \in Job /\ j.kind = "end" /\ j.stand = target
    BY <2>3 DEF Job
  <2> HIDE DEF j
  <2>k. PICK k \in Job : k = j
    BY <2>4
  <2>5. Len(jobs') = 1 /\ jobs' # <<>> /\ jobs'[1] = k
    BY <2>2, <2>k, <1>3, FirstJob
  <2>6. device'.auto = FALSE
    BY <2>2, <1>t DEF Device
  <2>7. k.kind = "end" /\ k.stand \in wishes'
    BY <2>k, <2>4, <1>1, <1>3
  <2>8. Coming(k)'
    BY <2>6, <2>7, <1>1, <1>3 DEF Coming
  <2>9. Coming(jobs[1])'
    BY <2>5, <2>8 DEF Coming
  <2> QED
    BY <2>5, <2>9, <1>1, <1>4 DEF Quiet, Running
<1> QED
  BY <1>5, <1>6

\* The first choice is taken by a press or an end.
LEMMA QuietDone ==
    ASSUME Typed, WtwAssumption, Quiet, PressDone \/ EndDone, calm = TRUE, alone = TRUE PROVE Quiet'
<1> DEFINE j == Head(jobs)
<1>t. TypeOK /\ device \in Device /\ jobs \in Seq(Job) /\ boostRestore \in BOOLEAN
      /\ wishes \subseteq Speeds \cup {"auto"}
  BY DEF Typed, TypeOK
<1>1. /\ jobs # <<>> /\ jobs' = Tail(jobs) /\ device' = Written(device, j.stand)
      /\ runs' = runs /\ wishes' = wishes
      /\ \/ j.kind = "press" /\ boostRestore' = (boostRestore \/ j.toAuto)
         \/ j.kind = "end" /\ boostRestore' = boostRestore
  BY DEF PressDone, EndDone
<1>2. /\ j = jobs[1] /\ j \in Job /\ Len(jobs') = Len(jobs) - 1 /\ Len(jobs) >= 1 /\ Len(jobs) \in Nat
      /\ jobs' \in Seq(Job)
  BY <1>1, TakesFirst
<1>3. Len(jobs) = 1 /\ Coming(j)
  BY <1>1, <1>2 DEF Quiet
<1>4. jobs' = <<>> /\ Len(jobs') = 0
  BY <1>2, <1>3
<1>5. j.stand \in Speeds \cup {"boost", "boostOff"} /\ (j.kind = "press" => j.toAuto \in BOOLEAN)
  BY <1>1, <1>2, JobKinds
<1> HIDE DEF j
<1>6. \A l \in Logics : ~Running(l)
  BY <1>1 DEF Quiet
<1>w. /\ j.stand \notin Speeds => device'.auto = device.auto /\ device'.speed = device.speed
      /\ j.stand \in Speeds /\ device.auto = FALSE => device'.auto = FALSE /\ device'.speed = j.stand
  <2>1. PICK stand \in Speeds \cup {"boost", "boostOff"} : stand = j.stand
    BY <1>5
  <2>2. /\ stand \notin Speeds => Written(device, stand).auto = device.auto /\ Written(device, stand).speed = device.speed
        /\ stand \in Speeds /\ device.auto = FALSE => Written(device, stand).auto = FALSE /\ Written(device, stand).speed = stand
    BY <1>t, WrittenBase
  <2> QED
    BY <1>1, <2>1, <2>2
<1>7. IF boostRestore' THEN "auto" \in wishes ELSE Base' \in wishes
  <2>1. CASE j.kind = "end"
    <3>1. boostRestore' = FALSE /\ device.auto = FALSE /\ j.stand \in wishes
      BY <2>1, <1>1, <1>3 DEF Coming
    <3>2. j.stand \in Speeds
      <4>1. j.stand # "auto"
        BY <1>5 DEF Speeds
      <4> QED
        BY <3>1, <4>1, <1>t
    <3> QED
      BY <3>1, <3>2, <1>w DEF Base
  <2>2. CASE j.kind = "press" /\ j.stand \in Speeds
    <3>1. boostRestore' = FALSE /\ device.auto = FALSE /\ j.stand \in wishes
      BY <2>2, <1>1, <1>3 DEF Coming
    <3> QED
      BY <3>1, <2>2, <1>w DEF Base
  <2>3. CASE j.kind = "press" /\ j.stand \notin Speeds
    <3>1. IF boostRestore \/ j.toAuto THEN "auto" \in wishes ELSE Base \in wishes
      BY <2>3, <1>3 DEF Coming
    <3>2. boostRestore' = (boostRestore \/ j.toAuto)
      BY <2>3, <1>1
    <3>3. Base' = Base
      BY <2>3, <1>w DEF Base
    <3> QED
      BY <3>1, <3>2, <3>3
  <2> QED
    BY <1>1, <2>1, <2>2, <2>3
<1> QED
  BY <1>1, <1>4, <1>6, <1>7 DEF Quiet, Running

\* What a boost began in comes back.
LEMMA QuietRestore ==
    ASSUME Typed, WtwAssumption, Quiet, boostRestore = TRUE, FinishBoostRestore, UNCHANGED <<runs, wishes>>,
           calm' = TRUE, alone = TRUE
    PROVE  Quiet'
<1>t. TypeOK /\ device \in Device /\ jobs \in Seq(Job) /\ calm \in BOOLEAN
  BY DEF Typed, TypeOK
<1>1. device' = [device EXCEPT !.auto = TRUE] /\ jobs' = jobs /\ calm = TRUE /\ boostRestore' = FALSE
  BY <1>t DEF FinishBoostRestore, ChooseAuto
<1>2. device'.auto = TRUE
  BY <1>1, <1>t DEF Device
<1>3. Base' = "auto"
  BY <1>2 DEF Base
<1>4. \A l \in Logics : ~Running(l)
  BY <1>1 DEF Quiet
<1>5. CASE jobs = <<>>
  BY <1>1, <1>3, <1>4, <1>5 DEF Quiet, Running
<1>6. CASE jobs # <<>>
  <2>1. Coming(jobs[1]) /\ Len(jobs) <= 1
    BY <1>1, <1>6 DEF Quiet
  <2>k. PICK k : k = jobs[1]
    OBVIOUS
  <2>2. k \in Job
    BY <1>6, <1>t, <2>k, Shorter
  <2>3. k.kind = "press" /\ k.stand \notin Speeds /\ "auto" \in wishes
    BY <2>1, <2>2, <2>k, JobKinds DEF Coming
  <2>4. Coming(k)'
    BY <2>3, <1>1, <1>3 DEF Coming
  <2>5. Coming(jobs[1])'
    BY <2>4, <2>k, <1>1 DEF Coming
  <2> QED
    BY <1>1, <1>4, <1>6, <2>1, <2>5 DEF Quiet, Running
<1> QED
  BY <1>5, <1>6

LEMMA QuietStep == ASSUME Typed, WtwAssumption, Quiet, [Next]_vars PROVE Quiet'
<1> SUFFICES ASSUME calm' = TRUE, alone' = TRUE PROVE Quiet'
  BY DEF Quiet
<1>t. TypeOK /\ Waits /\ device \in Device /\ calm \in BOOLEAN /\ alone \in BOOLEAN
  BY DEF Typed, TypeOK
<1>u. ASSUME UNCHANGED <<jobs, runs, wishes, boostRestore, calm, alone>>,
             device'.auto = device.auto, device'.speed = device.speed
      PROVE  Quiet'
  BY <1>u DEF Quiet, Running, Coming, Base, Back
<1>1. ASSUME NEW c \in Choices, Press(c) PROVE Quiet'
  BY <1>1, QuietPress
<1>2. CASE PressDone \/ EndDone
  <2>1. calm = TRUE /\ alone = TRUE
    BY <1>2 DEF PressDone, EndDone
  <2> QED
    BY <1>2, <2>1, QuietDone
<1>3. CASE StartDone
  BY <1>3, QuietStartDone DEF StartDone
<1>4. CASE JobFails
  BY <1>4 DEF JobFails
<1>5. CASE BoostTimer
  <2>1. boostRestore = TRUE /\ FinishBoostRestore /\ UNCHANGED <<runs, wishes, alone>>
    BY <1>5, <1>t DEF BoostTimer, TypeOK
  <2> QED
    BY <2>1, QuietRestore
<1>6. CASE DeviceBoostEnds
  <2>1. device'.auto = device.auto /\ device'.speed = device.speed
    BY <1>6, <1>t DEF DeviceBoostEnds, Device
  <2> QED
    BY <1>6, <2>1, <1>u DEF DeviceBoostEnds
<1>7. CASE Report
  <2>1. CASE boostRestore /\ status # None /\ status.boost /\ ~device.boost
    <3>1. boostRestore = TRUE /\ FinishBoostRestore /\ UNCHANGED <<runs, wishes, alone>>
      BY <1>7, <2>1, <1>t DEF Report, TypeOK
    <3> QED
      BY <3>1, QuietRestore
  <2>2. CASE UNCHANGED <<device, boostRestore, jobs, calm, runs, wishes, alone>>
    BY <2>2, <1>u
  <2> QED
    BY <1>7, <2>1, <2>2 DEF Report
<1>8. CASE Restart
  BY <1>8 DEF Restart
<1>9. ASSUME NEW l \in Logics, StartLogic(l) PROVE Quiet'
  BY <1>9, QuietStart
<1>10. ASSUME NEW l \in Logics, NEW v \in BOOLEAN, Telegram(l, v) PROVE Quiet'
  BY <1>9, <1>10, <1>u DEF Telegram
<1>11. ASSUME NEW l \in Logics, TemperatureRises(l) \/ TrigTimer(l) PROVE Quiet'
  BY <1>9, <1>11, <1>u DEF TemperatureRises, TrigTimer
<1>12. ASSUME NEW l \in Logics, UntilTimer(l) \/ DurationTimer(l) \/ LeakedTimer(l) PROVE Quiet'
  <2>1. CASE EndLogic(l) /\ Running(l)
    BY <2>1, QuietEnd
  <2>2. CASE UNCHANGED <<device, runs, boostRestore, jobs, wishes, calm, alone>>
    BY <2>2, <1>u
  <2>3. until[l] = TRUE \/ dur[l] = TRUE => Running(l)
    BY <1>t DEF Waits
  <2>4. until[l] \in BOOLEAN /\ dur[l] \in BOOLEAN
    BY <1>t DEF TypeOK
  <2> QED
    BY <1>12, <2>1, <2>2, <2>3, <2>4 DEF UntilTimer, DurationTimer, LeakedTimer
<1>13. CASE UNCHANGED vars
  BY <1>13, <1>u DEF vars
<1> QED
  BY <1>1, <1>2, <1>3, <1>4, <1>5, <1>6, <1>7, <1>8, <1>10, <1>11, <1>12, <1>13 DEF Next

\* When all is quiet the unit is in the stand that the user chose last or that
\* a later logic was to leave it in, for any number of logics, if none of them
\* overlapped and nothing was pending, stale or lost when a stand was chosen
\* (press, startLogic, endLogic and the boost's return to Auto).
THEOREM AlwaysReturns == Spec => []ReturnsToWish
<1>1. Init => Typed /\ Quiet
  <2> SUFFICES ASSUME Init PROVE Typed /\ Quiet
    OBVIOUS
  <2>1. Typed
    BY WtwAssumption, TypedStart
  <2>2. jobs = <<>> /\ Len(jobs) = 0 /\ boostRestore = FALSE /\ \A l \in Logics : ~Running(l)
    BY DEF Init, Running
  <2>3. device \in Device
    BY <2>1 DEF Typed, TypeOK
  <2>4. Active(device) = Base
    <3>1. device.boost = FALSE
      BY DEF Init
    <3> QED
      BY <2>3, <3>1, WtwAssumption DEF Active, AutoIsOn, Base, WtwAssumption
  <2>5. Quiet
    BY <2>2, <2>4 DEF Init, Quiet
  <2> QED
    BY <2>1, <2>5
<1>2. (Typed /\ Quiet) /\ [Next]_vars => (Typed /\ Quiet)'
  BY WtwAssumption, TypedStep, QuietStep
<1>3. Typed /\ Quiet => ReturnsToWish
  <2> SUFFICES ASSUME Typed, Quiet, calm, alone, Settled PROVE Active(device) \in wishes
    BY DEF ReturnsToWish
  <2>1. device \in Device /\ calm = TRUE /\ alone = TRUE
    BY DEF Typed, TypeOK
  <2>2. Base \in wishes
    BY <2>1 DEF Quiet, Settled, Typed, TypeOK
  <2>3. Active(device) = Base
    BY <2>1, WtwAssumption DEF Active, AutoIsOn, Base, WtwAssumption, Settled
  <2> QED
    BY <2>2, <2>3
<1> QED
  BY <1>1, <1>2, <1>3, PTL DEF Spec
===============================================================================
