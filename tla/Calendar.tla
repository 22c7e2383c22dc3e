------------------------------- MODULE Calendar -------------------------------
(***************************************************************************)
(* The calendar arithmetic of the scheduler (src/backend/src/scheduler.ts, *)
(* nextFireTime and the time zone plumbing under it): when a trigger fires *)
(* next, seen from any instant, in a zone with summer time.                *)
(*                                                                         *)
(* An instant is an hour of UTC, a day is 24 of them, counted from the     *)
(* first day of a season; local time is UTC + 1, in summer UTC + 2         *)
(* (Europe/Amsterdam, the default zone).  SunCalc is external: as the code *)
(* uses it, it gives the event of the UTC day of the probe; here at a      *)
(* fixed hour.  Places where the sun does not rise are not modelled.       *)
(***************************************************************************)
EXTENDS Integers, FiniteSets, FiniteSetsExt

CONSTANTS
    Seasons,   \* stretches of the calendar that are looked at
    Triggers,  \* the triggers a schedule may have
    Sun,       \* event -> UTC hour of sunrise and sunset
    None

Events == {"sunrise", "sunset"}

(* A stretch from one instant to another in months of 28 to 31 days; summer time
   begins at one o'clock UTC and ends an hour short of it, in a month of 31 days. *)
IsSeason(s) ==
    /\ s.weekday \in 0..6
    /\ \E n \in 1..13 :
          /\ s.firsts \in [1..n -> Int]
          /\ \A m, k \in 1..n : m < k => s.firsts[m] < s.firsts[k]
          /\ \A m \in 1..n - 1 :
                /\ s.firsts[m + 1] - s.firsts[m] \in 28..31
                /\ s.firsts[m + 1] - s.firsts[m] # 31 =>
                      \A t \in {s.summer.first, s.summer.last} :
                          t \notin (24 * s.firsts[m])..(24 * s.firsts[m + 1])
    /\ s.start \in Int /\ s.end \in Int /\ s.start <= s.end
    /\ 24 * s.firsts[1] <= s.start
    /\ s.summer \in [{"first", "last"} -> Int]
    /\ s.summer.first % 24 = 1 /\ s.summer.last % 24 = 0

(* routes.ts: an offset of at most 720 minutes. *)
IsGuard(g) ==
    \/ g.kind = "time" /\ g.hour \in 0..23
    \/ g.kind = "astro" /\ g.event \in Events /\ g.offset \in -12..12
IsTrigger(tr) ==
    \/ tr.kind = "time" /\ tr.hour \in 0..23
    \/ /\ tr.kind = "astro" /\ tr.event \in Events /\ tr.offset \in -12..12
       /\ tr.notBefore = None \/ IsGuard(tr.notBefore)
       /\ tr.notAfter = None \/ IsGuard(tr.notAfter)

ASSUME CalendarAssumption ==
    /\ \A s \in Seasons : IsSeason(s)
    /\ \A tr \in Triggers : IsTrigger(tr)
    /\ Sun \in [Events -> 0..23]
    /\ None \notin Int

VARIABLES
    season,   \* where we are in the year; fixed
    trigger,  \* the trigger of the schedule; fixed
    from,     \* the instant at which it was last armed
    armed     \* the instant at which it fires, or None

vars == <<season, trigger, from, armed>>

-----------------------------------------------------------------------------
(* localParts: an instant in local time.  A date is named by its day number. *)

Offset(t) == IF season.summer.first <= t /\ t <= season.summer.last THEN 2 ELSE 1
LocalDay(t) == (t + Offset(t)) \div 24
LocalHour(t) == (t + Offset(t)) % 24
Weekday(day) == (season.weekday + day) % 7          \* 0 = Monday

(* year * 12 * 31 + month * 31 + day, the code's number of a date, from the
   first days of the months of the season. *)
Month(day) == Cardinality({m \in DOMAIN season.firsts : season.firsts[m] <= day})
Stamp(day) == 31 * Month(day) + (day - season.firsts[Month(day)]) + 1

(* Mutant: local time is taken for UTC. *)
FromLocalUncorrected(day, hour) == 24 * day + hour

(* fromLocal: read the wall time as UTC, see what the clock shows then, and
   correct by the difference. *)
FromLocal(day, hour) ==
    LET guess == 24 * day + hour
    IN  guess + 24 * (Stamp(day) - Stamp(LocalDay(guess))) + hour - LocalHour(guess)

StartOfLocalDay(t) == FromLocal(LocalDay(t), 0)
AtLocalTime(t, hour) == FromLocal(LocalDay(t), hour)
AddDays(t, n) == t + 24 * n

AllowedOnWeekday(days, t) == Weekday(LocalDay(t)) \in days

(* sunEvent: the event of the UTC day of local noon. *)
SunEvent(t, event) == 24 * ((t + 12) \div 24) + Sun[event]

(* resolveGuard *)
ResolveGuard(g, t) ==
    IF g.kind = "time" THEN AtLocalTime(t, g.hour) ELSE SunEvent(t, g.event) + g.offset

-----------------------------------------------------------------------------
(* nextFireTime *)

(* notBefore moves an astro time up to the bound. *)
Raised(tr, t, day) ==
    IF tr.notBefore # None THEN Max({t, ResolveGuard(tr.notBefore, day)}) ELSE t

(* Mutant: notBefore skips the day, as notAfter does. *)
TooLateOrEarly(tr, t, day) ==
    \/ tr.notAfter # None /\ t > ResolveGuard(tr.notAfter, day)
    \/ tr.notBefore # None /\ t <= ResolveGuard(tr.notBefore, day)

(* notAfter skips the day. *)
TooLate(tr, t, day) == tr.notAfter # None /\ t > ResolveGuard(tr.notAfter, day)

(* The occurrence on a candidate day, or None. *)
Occurrence(tr, day) ==
    IF ~AllowedOnWeekday(tr.days, day) THEN None
    ELSE IF tr.kind = "time" THEN AtLocalTime(day, tr.hour)
    ELSE LET t == Raised(tr, SunEvent(day, tr.event) + tr.offset, day)
         IN  IF TooLate(tr, t, day) THEN None ELSE t

(* Mutant: `t >= from`. *)
NotBefore(t, start) == t # None /\ t >= start

(* t && t > from *)
IsLater(t, start) == t # None /\ t > start

(* The first of 14 candidate days with an occurrence that is still to come. *)
NextFireTime(tr, start) ==
    LET days == {AddDays(StartOfLocalDay(start), n) : n \in 0..13}
        good == {day \in days : IsLater(Occurrence(tr, day), start)}
    IN  IF good = {} THEN None ELSE Occurrence(tr, Min(good))

-----------------------------------------------------------------------------
Init ==
    /\ season \in Seasons
    /\ trigger \in Triggers
    /\ from = season.start
    /\ armed = NextFireTime(trigger, from)

Arm(t) ==
    /\ t <= season.end                              \* BOUND: the season ends
    /\ from' = t
    /\ armed' = NextFireTime(trigger, t)
    /\ UNCHANGED <<season, trigger>>

(* The timeout fires and arms the next one. *)
Fire == armed # None /\ Arm(armed)

(* The table is rebuilt at a later moment: an edit, or a restart. *)
Reschedule == (armed # None => from + 1 <= armed) /\ Arm(from + 1)

Next == Fire \/ Reschedule
Spec == Init /\ [][Next]_vars

-----------------------------------------------------------------------------
(* What a trigger promises, said without the code's arithmetic. *)

(* The instants at which the clock shows this hour of this day. *)
WallTimes(day, hour) ==
    {t \in (24 * day + hour - 2)..(24 * day + hour) : LocalDay(t) = day /\ LocalHour(t) = hour}

GuardTime(g, day) ==
    IF g.kind = "time" THEN Min(WallTimes(day, g.hour)) ELSE 24 * day + Sun[g.event] + g.offset

(* The instants at which the trigger may fire for a day of the local calendar. *)
Promised(tr, day) ==
    IF Weekday(day) \notin tr.days THEN {}
    ELSE IF tr.kind = "time" THEN WallTimes(day, tr.hour)
    ELSE LET event == 24 * day + Sun[tr.event] + tr.offset
             t == IF tr.notBefore = None THEN event
                  ELSE Max({event, GuardTime(tr.notBefore, day)})
         IN  {u \in {t} : tr.notAfter = None \/ u <= GuardTime(tr.notAfter, day)}

(* The first promise after an instant, in the days that nextFireTime looks at. *)
NextPromised(tr, start) ==
    LET later == {t \in UNION {Promised(tr, d) : d \in (LocalDay(start) - 1)..(LocalDay(start) + 13)} :
                     t > start}
    IN  IF later = {} THEN None ELSE Min(later)

(* Summer time ends between the day of `from` and the next promise, or the last of
   the days looked at when there is none. *)
ClockGoesBack ==
    LET next == NextPromised(trigger, from)
        until == IF next = None THEN AddDays(StartOfLocalDay(from), 13) ELSE next
    IN  Offset(StartOfLocalDay(from)) > Offset(until)

(* The moments of an astro trigger and its bounds lie on the day of their event,
   and bounds by the clock not in the night, when it changes. *)
OnDay(m) == Sun[m.event] + m.offset \in 0..21
BoundOnDay(g) == g = None \/ IF g.kind = "time" THEN g.hour \in 3..21 ELSE OnDay(g)
StaysOnDay(tr) == OnDay(tr) /\ BoundOnDay(tr.notBefore) /\ BoundOnDay(tr.notAfter)

-----------------------------------------------------------------------------
(* Properties *)

(* The state has its type: a timeout lies in the future, at most the 14 days
   that nextFireTime looks ahead and an offset. *)
TypeOK ==
    /\ season \in Seasons
    /\ trigger \in Triggers
    /\ from \in season.start..season.end
    /\ armed = None \/ armed \in (from + 1)..(from + 15 * 24)

(* A time trigger fires at its wall time on the very next allowed day, from
   whatever instant it is armed and whatever clock change lies between; for the
   hours whose reading as UTC falls on the same local day and after the clocks
   change. *)
TimeOnSchedule ==
    trigger.kind = "time" /\ trigger.hour \in 3..21 => armed = NextPromised(trigger, from)

(* An astro trigger fires at its event, within its bounds, on the very next
   allowed day, unless the clocks go back before that; for moments on the day of
   the event. *)
AstroOnSchedule ==
    trigger.kind = "astro" /\ StaysOnDay(trigger) /\ ~ClockGoesBack =>
        armed = NextPromised(trigger, from)

(* What nextFireTime finds is the very next promised occurrence. *)
OnSchedule == TimeOnSchedule /\ AstroOnSchedule

(* "DST transitions don't accidentally fire scenes twice" (scheduler.ts:3): two
   consecutive fires are on different local days, also for the hours that a clock
   change repeats or skips; of an astro trigger for moments on the day of the event,
   and unless it has a bound by the clock and the clocks go back, see
   OncePerDayAlways. *)
DraggedBack ==
    trigger.notBefore # None /\ trigger.notBefore.kind = "time" /\ ClockGoesBack
OncePerLocalDay ==
    [][Fire /\ armed' # None /\ (trigger.kind = "astro" => StaysOnDay(trigger) /\ ~DraggedBack) =>
           LocalDay(armed') > LocalDay(armed)]_vars

(* The same without exception, as scheduler.ts:3-6 has it.  After the clocks went
   back a candidate is the evening before, and so is its notBefore: the trigger
   fires at an event before the bound, and again at the bound. *)
OncePerDayAlways ==
    [][Fire /\ armed' # None => LocalDay(armed') > LocalDay(armed)]_vars

(* "Find the UTC instant whose local time in tz is the given y/m/d h:m"
   (scheduler.ts:314), which leaves out only the hours around a clock change. *)
WallTimeKept ==
    trigger.kind = "time" /\ trigger.hour >= 3 => armed = NextPromised(trigger, from)

(* "Walks forward up to 14 days before giving up" (scheduler.ts:169): a trigger
   with an occurrence in the coming week is armed. *)
NeverGivesUp == NextPromised(trigger, from) # None => armed # None
=============================================================================
