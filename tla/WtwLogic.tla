------------------------------- MODULE WtwLogic -------------------------------
(***************************************************************************)
(* The logic runtime of one ventilation unit with a Zehnder interface      *)
(* (wtwRuntime.ts, wtw.ts).  A logic watches a group address; when its     *)
(* condition comes true it puts the unit in a stand, and after a duration, *)
(* or once its end condition has held for some minutes, it puts the unit   *)
(* back.  A user may choose a stand at any time, which cancels the logics; *)
(* a boost chosen while the unit is in Auto returns to Auto when it ends.  *)
(*                                                                         *)
(* A stand other than Auto is chosen in two writes: Auto off, 200 ms for   *)
(* the unit to take that in, then the stand.  What is to be done after the *)
(* wait is a member of jobs; the waits are equally long and end in order.  *)
(* The other families (Duco, MV, Modbus) have the same handlers with one   *)
(* write per stand and thus without the wait.                              *)
(*                                                                         *)
(* Each logic has one condition and one sensor of its own, whose telegram  *)
(* TRUE is the wanted value of the start condition and FALSE that of the   *)
(* end condition (untilGa ?? triggerGa).  Durations are abstract: a timer  *)
(* that runs may fire at any later moment.                                 *)
(***************************************************************************)
EXTENDS Naturals, Sequences

CONSTANTS
    Logics,    \* the unit's enabled logics
    Stand,     \* the stand each logic chooses (never Auto)
    Trigger,   \* "instant" (0 minutes), "held" (N minutes) or "rise" (tempRise)
    End,       \* "duration" or "until" (untilStatus)
    After,     \* "previous", or the stand chosen for afterwards (never boost)
    MayFail,   \* BOOLEAN: may a write find the bus not connected?
    MaxJobs,   \* BOUND: no press or start with so many waits for Auto off
    None

Speeds == {"low", "high"}                 \* stands 1 to 3 and away, two of them
Stands == Speeds \cup {"auto", "boost"}

Device == [auto : BOOLEAN, speed : Speeds, boost : BOOLEAN]

ASSUME WtwAssumption ==
    /\ Stand \in [Logics -> Speeds \cup {"boost"}]
    /\ Trigger \in [Logics -> {"instant", "held", "rise"}]
    /\ End \in [Logics -> {"duration", "until"}]
    /\ After \in [Logics -> Speeds \cup {"previous", "auto"}]
    /\ MayFail \in BOOLEAN
    /\ MaxJobs \in Nat
    /\ None \notin Stands \cup Device

VARIABLES
    device,       \* the unit: Auto on?, the speed chosen last, boosting?
    status,       \* what the bus cache holds of it; None: not reported yet
    sensor,       \* the last telegram of each logic's sensor (prev and cache)
    trig,         \* is the timer of a "held" start condition running?
    until,        \* is the timer of the end condition running?
    runs,         \* logicRuns: None, or the stand to go back to
    dur,          \* does the run have its duration timer running?
    leaked,       \* duration timers still running of runs that were overwritten
    boostRestore, \* is Auto to come back after a boost?
    jobs,         \* choices waiting for Auto to be off, oldest first
    wishes,       \* history: the stands the unit may be in when all is quiet
    calm,         \* history: nothing overlapped or failed since a user's choice
    alone         \* history: nor did a logic start while another one ran

timers == <<trig, until, dur>>
vars == <<device, status, sensor, timers, runs, leaked, boostRestore, jobs, wishes, calm, alone>>

Choices == Stands \cup {"autoOff", "boostOff"}      \* the buttons of the app
Job == [kind : {"press"}, stand : Speeds \cup {"boost", "boostOff"}, toAuto : BOOLEAN]
       \cup [kind : {"start"}, logic : Logics, stand : Speeds \cup {"boost"}, restore : Stands]
       \cup [kind : {"end"}, stand : Speeds \cup {"boost"}]

\* The state has its type: in particular the stand to go back to is one that
\* can be chosen, which startLogic takes from readZehnderActiveStand.
TypeOK ==
    /\ device \in Device
    /\ status \in Device \cup {None}
    /\ sensor \in [Logics -> BOOLEAN \cup {None}]
    /\ trig \in [Logics -> BOOLEAN]
    /\ until \in [Logics -> BOOLEAN]
    /\ dur \in [Logics -> BOOLEAN]
    /\ runs \in [Logics -> Stands \cup {None}]
    /\ leaked \in [Logics -> 0..MaxJobs]
    /\ boostRestore \in BOOLEAN
    /\ jobs \in Seq(Job) /\ Len(jobs) <= MaxJobs + 1
    /\ wishes \subseteq Speeds \cup {"auto"}
    /\ calm \in BOOLEAN /\ alone \in BOOLEAN
-------------------------------------------------------------------------------
(* The unit, as the comments of wtw.ts describe it.                        *)

\* A stand takes only when Auto is off; choosing a speed ends a boost.
Written(d, stand) ==
    IF stand = "boostOff" THEN [d EXCEPT !.boost = FALSE]
    ELSE IF d.auto THEN d
    ELSE IF stand = "boost" THEN [d EXCEPT !.boost = TRUE]
    ELSE [d EXCEPT !.speed = stand, !.boost = FALSE]

AutoIsOn(s) == s # None /\ s.auto

\* MUTANT: the reading of a unit that reports no stand (as MV units by scene).
ActiveUnread(s) == IF AutoIsOn(s) THEN "auto" ELSE None

\* The stand that the cached status bits show; Auto wins, and is the answer
\* when none of them is known.
Active(s) ==
    IF s = None \/ AutoIsOn(s) THEN "auto"
    ELSE IF s.boost THEN "boost" ELSE s.speed

Running(l) == runs[l] # None
Nothing == [l \in Logics |-> FALSE]

Init ==
    /\ device \in [auto : BOOLEAN, speed : {"low"}, boost : {FALSE}]
    /\ status = None
    /\ sensor = [l \in Logics |-> None]
    /\ trig = Nothing /\ until = Nothing /\ dur = Nothing
    /\ runs = [l \in Logics |-> None]
    /\ leaked = [l \in Logics |-> 0]
    /\ boostRestore = FALSE
    /\ jobs = <<>>
    /\ wishes = {Active(device)}
    /\ calm = TRUE /\ alone = TRUE
-------------------------------------------------------------------------------
(* Choosing a stand.                                                       *)

\* A write of Auto, in a handler that was undisturbed so far or not.
ChooseAuto(on, quiet) ==
    /\ UNCHANGED jobs
    /\ \/ device' = [device EXCEPT !.auto = on] /\ calm' = quiet
       \/ MayFail /\ UNCHANGED device /\ calm' = FALSE

\* A write of Auto off; the job follows after the wait.
ChooseStand(job, quiet) ==
    \/ /\ device' = [device EXCEPT !.auto = FALSE]
       /\ jobs' = Append(jobs, job)
       /\ calm' = quiet
    \/ MayFail /\ UNCHANGED <<device, jobs>> /\ calm' = FALSE

\* MUTANT: the timers are stopped and the runs are kept.
RunsKept == runs
\* cancelDeviceLogics: the runs that are left when a user chooses a stand.
RunsAfterPress == [l \in Logics |-> None]

\* MUTANT: the return to Auto survives the choice of a stand.
RestoreKept(choice) == boostRestore
\* cancelBoostRestore: only another boost leaves the return to Auto as it is.
RestoreAfterPress(choice) == boostRestore /\ choice = "boost"

\* A user presses a button: the boost's return to Auto is dropped unless this
\* is a boost again, all logics of the unit are cancelled, the stand is chosen.
Press(choice) ==
    LET quiet == jobs = <<>> /\ (choice = "boost" => status = device)
        toAuto == choice = "boost" /\ AutoIsOn(status)
    IN /\ Len(jobs) < MaxJobs
       /\ boostRestore' = RestoreAfterPress(choice)
       /\ runs' = RunsAfterPress
       /\ trig' = Nothing /\ until' = Nothing /\ dur' = Nothing
       /\ CASE choice = "auto"    -> ChooseAuto(TRUE, quiet)
            [] choice = "autoOff" -> ChooseAuto(FALSE, quiet)
            [] OTHER -> ChooseStand([kind |-> "press", stand |-> choice, toAuto |-> toAuto], quiet)
       /\ wishes' = {IF choice \in Speeds \cup {"auto"} THEN choice
                     ELSE IF choice = "boost" /\ (device.auto \/ boostRestore) THEN "auto"
                     ELSE device.speed}
       /\ alone' = TRUE
       /\ UNCHANGED <<status, sensor, leaked>>

\* The wait of a press is over: the stand is written, and a boost that began
\* in Auto will return to it.
PressDone ==
    /\ jobs # <<>> /\ Head(jobs).kind = "press"
    /\ device' = Written(device, Head(jobs).stand)
    /\ boostRestore' = (boostRestore \/ Head(jobs).toAuto)
    /\ jobs' = Tail(jobs)
    /\ UNCHANGED <<status, sensor, timers, runs, leaked, wishes, calm, alone>>

\* The bus is gone when a wait is over: the handler stops where it is.
JobFails ==
    /\ MayFail /\ jobs # <<>>
    /\ jobs' = Tail(jobs)
    /\ calm' = FALSE
    /\ UNCHANGED <<device, status, sensor, timers, runs, leaked, boostRestore, wishes, alone>>

\* Auto comes back after a boost (a write that may fail).
FinishBoostRestore ==
    /\ boostRestore' = FALSE
    /\ ChooseAuto(TRUE, calm)

\* The boost's time, and a margin, is over.
BoostTimer ==
    /\ boostRestore
    /\ FinishBoostRestore
    /\ UNCHANGED <<status, sensor, timers, runs, leaked, wishes, alone>>

\* The unit ends a boost by itself.
DeviceBoostEnds ==
    /\ device.boost
    /\ device' = [device EXCEPT !.boost = FALSE]
    /\ UNCHANGED <<status, sensor, timers, runs, leaked, boostRestore, jobs, wishes, calm, alone>>

\* The unit's status telegrams come in; the end of a boost is seen in them.
Report ==
    /\ status # device
    /\ status' = device
    /\ IF boostRestore /\ status # None /\ status.boost /\ ~device.boost
       THEN FinishBoostRestore
       ELSE UNCHANGED <<device, boostRestore, jobs, calm>>
    /\ UNCHANGED <<sensor, timers, runs, leaked, wishes, alone>>
-------------------------------------------------------------------------------
(* Starting and ending a logic.                                            *)

\* startLogic up to its wait, for a logic that does not run: its timers are
\* cleared and the stand to go back to is read.  (The second line is a bound
\* of the model, on waits and on duration timers without a run.)
StartLogic(l) ==
    LET quiet == /\ calm /\ jobs = <<>> /\ status = device
                 /\ ~device.boost /\ ~boostRestore
        others == \E k \in Logics : Running(k)
    IN /\ ~Running(l)
       /\ Len(jobs) < MaxJobs /\ leaked[l] = 0
       /\ trig' = [trig EXCEPT ![l] = FALSE]
       /\ until' = [until EXCEPT ![l] = FALSE]
       /\ ChooseStand([kind |-> "start", logic |-> l, stand |-> Stand[l],
                       restore |-> Active(status)], quiet)
       /\ wishes' = (IF others \/ After[l] = "previous" THEN wishes ELSE {})
                     \cup ({After[l]} \ {"previous"})
       /\ alone' = (alone /\ ~others)
       /\ UNCHANGED <<status, dur, runs, leaked, boostRestore>>

\* Does the end condition's timer of a running logic run once its sensor is
\* known to be at v?
UntilTimed(l, v) ==
    IF End[l] = "until" THEN v = FALSE ELSE until[l]

\* MUTANT: the end condition is looked at from the next telegram on only.
UntilLater(l) == until
\* startLogic looks at what the cache has of the end condition.
UntilAtStart(l) == [until EXCEPT ![l] = UntilTimed(l, sensor[l])]

\* The start's wait is over: the run is recorded, over an older one if that
\* came first, and its duration timer or its end condition is set going.
StartDone ==
    LET l == Head(jobs).logic
    IN /\ jobs # <<>> /\ Head(jobs).kind = "start"
       /\ device' = Written(device, Head(jobs).stand)
       /\ runs' = [runs EXCEPT ![l] = Head(jobs).restore]
       /\ dur' = [dur EXCEPT ![l] = End[l] = "duration"]
       /\ leaked' = [leaked EXCEPT ![l] = IF dur[l] THEN @ + 1 ELSE @]
       /\ until' = UntilAtStart(l)
       /\ jobs' = Tail(jobs)
       /\ UNCHANGED <<status, sensor, trig, boostRestore, wishes, calm, alone>>

\* endLogic: the run and its timers go.  Unless another logic runs the unit
\* goes to the stand chosen for afterwards or that from before.
EndLogic(l) ==
    LET target == IF After[l] = "previous" THEN runs[l] ELSE After[l]
    IN /\ runs' = [runs EXCEPT ![l] = None]
       /\ trig' = [trig EXCEPT ![l] = FALSE]
       /\ until' = [until EXCEPT ![l] = FALSE]
       /\ dur' = [dur EXCEPT ![l] = FALSE]
       /\ IF \E k \in Logics \ {l} : Running(k) THEN UNCHANGED <<device, jobs, calm>>
          ELSE IF target = "auto" THEN ChooseAuto(TRUE, calm /\ jobs = <<>>)
          ELSE ChooseStand([kind |-> "end", stand |-> target], calm /\ jobs = <<>>)
       /\ UNCHANGED <<status, sensor, boostRestore, wishes, alone>>

EndDone ==
    /\ jobs # <<>> /\ Head(jobs).kind = "end"
    /\ device' = Written(device, Head(jobs).stand)
    /\ jobs' = Tail(jobs)
    /\ UNCHANGED <<status, sensor, timers, runs, leaked, boostRestore, wishes, calm, alone>>
-------------------------------------------------------------------------------
(* Telegrams of the sensors, and timers.                                   *)

\* Does a telegram start a logic that does not run?
Starts(l, v) ==
    ~Running(l) /\ v /\ Trigger[l] = "instant" /\ sensor[l] = FALSE

\* The start condition's timer after a telegram that does not start the logic.
TrigTimed(l, v) ==
    IF Running(l) THEN trig[l] ELSE v /\ Trigger[l] = "held"

\* A telegram of the sensor, which a logic has unless it starts by a rise and
\* ends by duration.
Telegram(l, v) ==
    /\ Trigger[l] # "rise" \/ End[l] = "until"
    /\ sensor' = [sensor EXCEPT ![l] = v]
    /\ \/ Starts(l, v) /\ StartLogic(l)
       \/ /\ ~Starts(l, v)
          /\ trig' = [trig EXCEPT ![l] = TrigTimed(l, v)]
          /\ until' = IF Running(l) THEN [until EXCEPT ![l] = UntilTimed(l, v)] ELSE until
          /\ UNCHANGED <<device, status, dur, runs, leaked, boostRestore, jobs, wishes, calm, alone>>

\* A temperature comes in that is so much above the lowest of the last seconds.
TemperatureRises(l) ==
    /\ Trigger[l] = "rise"
    /\ StartLogic(l)
    /\ UNCHANGED sensor

\* The start condition has held for its minutes; it starts the logic unless
\* that runs already or the condition no longer holds.
TrigTimer(l) ==
    /\ trig[l]
    /\ \/ ~Running(l) /\ sensor[l] = TRUE /\ StartLogic(l) /\ UNCHANGED sensor
       \/ /\ Running(l) \/ sensor[l] # TRUE
          /\ trig' = [trig EXCEPT ![l] = FALSE]
          /\ UNCHANGED <<device, status, sensor, until, dur, runs, leaked, boostRestore, jobs,
                         wishes, calm, alone>>

\* The end condition has held for its minutes.
UntilTimer(l) ==
    /\ until[l] /\ sensor[l] = FALSE
    /\ EndLogic(l)
    /\ UNCHANGED leaked

\* The duration is over.
DurationTimer(l) ==
    /\ dur[l]
    /\ EndLogic(l)
    /\ UNCHANGED leaked

\* The duration timer of an overwritten run fires: it ends the run of the
\* logic that it finds.
LeakedTimer(l) ==
    /\ leaked[l] > 0
    /\ leaked' = [leaked EXCEPT ![l] = @ - 1]
    /\ \/ Running(l) /\ EndLogic(l)
       \/ ~Running(l) /\ UNCHANGED <<device, status, sensor, timers, runs, boostRestore, jobs,
                                     wishes, calm, alone>>

\* The process restarts: all the runtime knows is in memory.
Restart ==
    /\ status' = None
    /\ sensor' = [l \in Logics |-> None]
    /\ trig' = Nothing /\ until' = Nothing /\ dur' = Nothing
    /\ runs' = [l \in Logics |-> None]
    /\ leaked' = [l \in Logics |-> 0]
    /\ boostRestore' = FALSE
    /\ jobs' = <<>>
    /\ calm' = FALSE
    /\ UNCHANGED <<device, wishes, alone>>

Next ==
    \/ \E c \in Choices : Press(c)
    \/ PressDone \/ StartDone \/ EndDone \/ JobFails
    \/ BoostTimer \/ DeviceBoostEnds \/ Report \/ Restart
    \/ \E l \in Logics :
        \/ \E v \in BOOLEAN : Telegram(l, v)
        \/ TemperatureRises(l) \/ TrigTimer(l) \/ UntilTimer(l) \/ DurationTimer(l) \/ LeakedTimer(l)

Spec == Init /\ [][Next]_vars

\* Timers that are running fire and waits end: that is the event loop's.
FairSpec ==
    /\ Spec
    /\ WF_vars(PressDone) /\ WF_vars(StartDone) /\ WF_vars(EndDone)
    /\ \A l \in Logics : WF_vars(UntilTimer(l)) /\ WF_vars(DurationTimer(l))
-------------------------------------------------------------------------------
\* A run always has something that will end it: its own duration timer, or
\* the timer of its end condition once that is met, whatever telegrams came
\* in while the start waited (startLogic, tickUntil).
EndsArmed ==
    \A l \in Logics : Running(l) =>
        IF End[l] = "duration" THEN dur[l] ELSE sensor[l] = FALSE => until[l]

Settled ==
    /\ jobs = <<>> /\ ~boostRestore /\ ~device.boost
    /\ \A l \in Logics : ~Running(l)

\* When all is quiet the unit is in the stand that the user chose last, or in
\* the one that a later logic was told to leave it in, provided that logics
\* did not overlap and that nothing was pending, stale or lost when a stand
\* was chosen (press, startLogic, endLogic and the boost's return to Auto).
ReturnsToWish == calm /\ alone /\ Settled => Active(device) \in wishes

\* The same of logics that overlap: afterwards the unit is in the stand from
\* before they ran or in one chosen for afterwards, "vorige stand (incl. Auto)
\* of een gekozen stand" (types.ts:955).  Does not hold: the later logic goes
\* back to the stand of the earlier one.
GoesBack == calm /\ Settled => Active(device) \in wishes

\* No run lasts for ever once its end condition stays met.
EveryRunEnds ==
    \A l \in Logics : []<>(~Running(l) \/ (End[l] = "until" /\ sensor[l] # FALSE))
===============================================================================
