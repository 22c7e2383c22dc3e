# Verification of the Archie backend

TLA+ models of Archie, a house controller: one Node.js process (`src/backend`)
between a KNX bus, an intercom (Asterisk), media players, a lighting gateway and
the apps of the residents; a small Python service for the alarm panel
(`src/satel`); and a script on the host that updates both (`src/docker`). The
modules model the parts that keep state over time and are entered from several
sides; TLC checks them on small instances and TLAPS proves most of
the properties for every value of the constants.

Everything is translated from the source. `PROJECT.json` holds, for
each definition that models code, the lines it stands for ("map"), the list of
hazards with the properties aimed at them, and for each property a plausible bug
of the code that breaks it ("mutants").

Contents: 1 the system, 2 what is hard, 3 the modules, 4 the runs, 5 where code
and documentation differ, 6 fairness, 7 proofs, 8 what is left out, 9 plan,
10 how to run.

---

## 1. The system

The backend is one single-threaded event loop. Its state is shared by HTTP
handlers, timers, socket callbacks and telegram listeners; a handler runs without
interruption from one `await` to the next, and that is where all interleaving
happens. What must survive a restart is in JSON files, above all `house.json`.

| Component | State it keeps | Operations | Talks to |
|---|---|---|---|
| Time scheduler (`scheduler.ts`) | `timers`: one timeout per schedule; the list and `lastRun` stamps in `house.json` | boot, stop, `rescheduleAll`, the timeout handler, `runNow` | routes and house saves rebuild it; it runs scenes and commands |
| Calendar (`scheduler.ts:160-339`) | none | `nextFireTime`: triggers, weekday masks, bounds, time zone, sun | called by the scheduler |
| KNX tunnel (`knxBus.ts`) | `connection`, `busConnected`, `datapoints`, `closing`, `reconnectTimer`, `reconnecting`, `disabled` | `connect`, its handlers and give-up timer, `markDropped`, `reconnect`, `refreshGroupAddresses` | the `knx` library; routes; the scene learner |
| KNX group I/O (`knxBus.ts`) | value cache, outbound chain, own-write window | read, write, boot reads, subscriptions | everything that touches a device |
| Intercom line (`voip/lineState.ts`, `voip/manager.ts`) | a row per intercom: phase, holder, age; noted door channels | claim, release, the AMI events | Asterisk over AMI; panels over HTTP and WebSocket |
| Door release, DTMF, ring broadcast (`intercoms.ts`, `voip/*Release.ts`) | which intercom rang last, which call was answered | pulse, HTTP or DTMF release | KNX, AMI, the door station |
| AMI link, Asterisk process (`voip/ami.ts`, `voip/manager.ts`, `voip/asterisk*.ts`) | `ami`, who is registered; `child` and its timer; the generated dialplan | log in, watch, reload; start, restart; generate | Asterisk |
| Device logics (`wtwRuntime.ts`, `wtw.ts`) | `logicRuns`, timers per logic, `boostRestore`, sensor values | press, telegram, timers, `startLogic`, `endLogic` | KNX group I/O |
| Device commands (`commands.ts` and helpers) | heat/cool locks, running pulses, delayed writes | one per device function | KNX, media, Lutron |
| Scenes and scene learning | the one listen session of the wizard | run, learn, conditions | commands, KNX |
| Media (`media/*`) | zone states, groups, volume holds | poll, command, group, dim | players, KNX |
| Lutron (`lutron/*`) | login state, reconnect timer, levels | send, receive, debounce | telnet gateway, KNX |
| Satel (`src/satel`) | one TCP session with the alarm panel; what is armed; its configuration in memory and in a file | poll, arm, read names, save | alarm panel |
| Configuration store (`config.ts`) | `house.json`, version counter | load, save, migrate | everything |
| Routes, WebSocket hub | sockets and their rights | about 100 routes | everything |
| Sessions, pairing, accounts | session file, pair codes | login, refresh, revoke, pair | routes |
| Update agent, enrolment, restart (`serverUpdate.ts`, `remoteEnroll.ts`, `docker/update-agent.sh`) | request, status and lock files, a copy of `house.json` | ask, poll, update, enrol, restart | the two sides see each other only through files |
| Energy, logging, push | samples in files | sample, sum, send | KNX |
| Cameras, KNX import, Flutter app, cloud | | configuration, parsing, user interface | |

The correctness of a component, in a sentence each, for those that are modelled:

* **Scheduler**: an enabled schedule always has exactly one timeout, that of its
  next occurrence as the list has it now, unless it was armed in the very instant of that
  occurrence; an occurrence runs once.
* **Calendar**: a trigger fires at the next moment its settings name, on every day
  of the year, and at most once a day.
* **KNX tunnel**: `connected` means that there is a tunnel; without one an enabled
  bus keeps trying; nothing is written into a dead tunnel.
* **Group I/O**: what clients are shown catches up with the bus; every address is
  listened to and read by the type of what it is for.
* **Intercom line**: one call at a time; a call in the book ends when the call
  ends; the clients are told.
* **Doors**: the panels show the ring that is on; a digit opens the door it is for.
* **Device logics**: a run always ends, and the unit then is in the stand that was
  wished for.
* **Commands**: contacts are open again when a pulse is over; locks survive a restart.
* **Scene learning**: what is learned is what the scene does, for the room that asked.
* **Media**: a zone is shown in the group it is in; a held rocker moves one timer;
  next and previous go round; the Spotify link is the last login.
* **Gateways** (Lutron, alarm panel): one socket or one timer each; what is shown
  is what the gateway says.
* **Processes** (Asterisk, go2rtc, the link to Asterisk, the update agent): one of
  each, and it comes back.
* **Accounts and telephone book**: a new password signs out; numbers are unique unless the
  installer typed them, and one that is unique reaches whom it should, whatever copies are
  saved in whatever order.

## 2. What is hard

* **A handler suspended in `await` while another one runs.** The scheduler's
  handler awaits a scene while the list is replaced; a reconnect awaits the
  teardown while the reconnect timer fires; a logic waits 200 ms for the unit to
  leave Auto while a user presses a button or the logic is triggered again.
* **Callbacks of objects that are no longer current**: the knx library goes on
  calling the handlers of a connection object that was given up.
* **Reports that arrive late, twice or not at all**: AMI events of the previous call
  are handled after the next claim; `cleared` is sent twice; AMI may be down.
* **Timers that race with what they guard**: the 20 s give-up, the 25 s reservation
  against the 45 s a door rings, the end of a boost against a choice by hand, rounds of polls
  that begin while the last one is out, an occurrence that comes while it is being armed.
* **Restarts**: all timers, runs, claims and caches are memory only.
* **Copies**: the installer's editor, the list of users and the update agent read a
  file, take their time, and write all of it back; a reconnect goes on with the addresses it
  read before its teardown.
* **Shared streams and shared slots**: the alarm panel's answers carry no mark of
  their request; all doors share "the intercom that rang last", all rooms one listen
  session; a member that is replaced during an `await` is not the one that is closed.
* **Groups of speakers** whose members, polls and group map are three opinions on one
  thing.
* **Dates**: a zone with summer time, month lengths, triggers relative to the sun.

`PROJECT.json` lists these as hazards at the line where they bite. A hazard
without a property says why it has none.

## 3. The modules

| Module | Models | Used by |
|---|---|---|
| `Scheduler` | timer table, handlers, edits, run now, crash | `MCScheduler`, `SchedulerProofs` |
| `DayPlan` | what the scheduler promises: one occurrence to come per schedule, and no table | `SchedulerPlan` |
| `SchedulerPlan` | the refinement mapping from `Scheduler` to `DayPlan` | `MCScheduler`, `SchedulerProofs` |
| `Calendar` | `nextFireTime` against what a trigger promises | `MCCalendar`, `CalendarProofs` |
| `KnxTunnel` | connection lifecycle | `KnxTunnelLife` |
| `BusLife` | what the bus promises its users: five stages, and no connection objects | `KnxTunnelLife` |
| `KnxTunnelLife` | the refinement mapping from `KnxTunnel` to `BusLife`; the run `knx` is of it | `KnxTunnelProofs` |
| `IntercomLine` | line book, AMI events, claims, the calls themselves | `MCIntercomLine`, `IntercomLineProofs` |
| `WtwLogic` | logics, presses, boosts of one Zehnder unit | `MCWtwLogic`, `WtwLogicProofs` |
| `KnxGroups` | value cache, paced chain, reads, own-write window | `BusParts` |
| `GroupRoles` | every field that holds an address: listened to, read by which type | `BusParts` |
| `SceneListen`, `SceneContrast` | the wizard's listen session; how it tells what a scene does | `BusParts` |
| `DeviceCommands`, `HvacLock` | commands as programs of writes and waits; the heat/cool lock and its file | `BusParts` |
| `VentLogic` | logics of the Duco, MV and Modbus units, with joined conditions and minutes | `BusParts` |
| `MediaZones` | drivers, polls, groups, group volume | `HouseParts` |
| `VolumeHold`, `MediaSkip` | rockers and buttons of a zone; the ring of favourites | `HouseParts` |
| `SpotifyLink` | credentials, logins, tokens | `HouseParts` |
| `LutronGateway` | slots, sockets, login, mappings | `HouseParts` |
| `SatelBridge`, `SatelConfig` | the session with the alarm panel; its configuration | `HouseParts` |
| `ChildProcs`, `AmiLink` | Asterisk and go2rtc as processes; the link to Asterisk | `HouseParts` |
| `HostAgent` | update and enrolment between backend and host | `HouseParts` |
| `DoorRings` | several doors: overlay, answers, digits, releases | `HouseParts` |
| `Accounts`, `VoipBook` | sessions, codes and the list of users; SIP accounts, groups, dialplan | `HouseParts` |
| `Filtering` | what filtering a list leaves, and the first place of some | `VoipBook`, `MediaSkip` |
| `BusParts`, `HouseParts` | the smaller components side by side, for any constants | `MCBus`, `BusProofs`; `MCHouse`, `HouseProofs` |
| `MCBus`, `MCHouse` | a small house, as constants of the two above | the runs |
| `SchedulerProofs`, `KnxTunnelProofs`, `IntercomLineProofs`, `CalendarProofs`, `WtwLogicProofs`, `BusProofs`, `HouseProofs`, `HouseProgramsProofs` | the theorems of section 7 | |

The `MC` modules give constants their values. `BusParts` and `HouseParts` hold the smaller
components side by side: each has variables and constants of its own, `part` says which of
them moves in a behaviour, and the others stand still. They share a run and a proof, not
state: the components in them do not interact in what they promise. `MCBus` and `MCHouse`
name the values of one small house. Where the code lets one act
on another (a save of the house, a tunnel that is lost, reports of Asterisk) each
module has that as an action of its own. Operators marked *Mutant* stand in a module
to be put in the place of the definition below them; no specification uses them. One
of them is named in `PROJECT.json` for each property of a run; where a property
joins several, the others break its other parts.

An action is one uninterrupted stretch of a handler. Where a handler awaits, its
rest is an action of its own, and what it remembers over the await is in the state
(`task[id][h].s`, `reconnecting`, `pending`, `jobs`). Variables marked *history*
are not in the code: they record what a property has to know of the past.

### Scheduler

`task[id][h]` is a `setTimeout` closure of schedule `id`: free, armed with so many
slots to go and the entry it captured, or running, that is suspended in
`await fire(live)`. `timers` is the map of the code, which names at most one of
them per id; the difference between the two is where orphans come from.
`TimerSkips`, `TimerFires` and `RunEnds` are the handler with conditions that fail,
up to the await, and after it (`ok`, or caught); `PutSchedules` is every route that
replaces the list and calls `rescheduleAll`; `RunNow` and `RunNowEnds` the manual
run, which does not touch the table. A day is `D` slots. Time passes (`Tick`) only
when no callback is due, as callbacks run before the clock is of interest again.
`nextFireTime` is abstracted to "the next time this slot comes, strictly after now".

`arm` reads the clock a second time to get the delay, and returns silently when that is
not positive (`scheduler.ts:53`). `late` is the choice that the next slot begins between the
two readings (`TooLate`): an entry of that slot is then left without a timeout until
the list is rebuilt, and its id is in the history `missed`. `NeverLost` and `KeepsComingDue`
leave these ids out, and say that nothing else loses an entry.

`DayPlan` says the same without closures or handles: `due[id]` is how long it is until
the one occurrence to come, `running` the ids being run. Each of its actions decides
what comes next by looking for it on the clock (`DueIn`), in the list as it is then.
`SchedulerPlan` maps `due` to the armed closure and `running` to the suspended one,
and `FollowsPlan` says that each step of the table is a step of the plan or leaves it
alone. An id whose occurrence comes while it is planned may be left out (`Planned`), as `arm`
does. Excepted are the steps that end in a state with an overlapped run, where the code
does not follow it (section 5). This is what excludes a
late or early occurrence, a second one, one that a crash leaves behind, and one that
an edit, a run by hand or a run of another id moves.

A consequence that the model shows and no document rules out: a list that is saved
in the slot in which an occurrence is due cancels that occurrence, and the next one
is a day away. The strict comparison that loses it is what keeps a restart in that
slot from running the schedule twice.

### Calendar

An instant is an hour of UTC. `FromLocal` keeps the arithmetic of the code,
including its numbering of dates with 31 days a month and its single correction
step. Beside it stands what a trigger promises (`Promised`, `NextPromised`), said
without that arithmetic, by looking for the instants at which the clock shows the
hour. `Fire` and `Reschedule` walk through the days, so each instant of a season is
looked at as the moment of arming. `OnSchedule` leaves out what the code does not
promise or keep: hours whose reading as UTC falls on another local day, astro moments
that an offset moves to another day (`StaysOnDay`), and astro triggers once the clocks
have gone back before the next promise (`ClockGoesBack`). Five facts that the properties
leave out or that are too fine for this grain:

* after the clocks went back on a Sunday, an astro trigger for Sundays fires on the
  Monday, and one for Monday to Friday armed on Friday skips the Monday: the second
  candidate of `addDays` is then 23:00 of the Sunday, with the sun of the Monday;
* the same candidate has the bounds of the Sunday, see `OncePerDayAlways` in section 5;
* 02:00 on the day the clocks go back exists twice; `fromLocal` gives the later
  instant, its comment (`scheduler.ts:316-317`) says the earlier;
* an hour just after midnight is off by an hour on the days of a change (this is why
  `TimeOnSchedule`, one part of `OnSchedule`, starts at 3 o'clock);
* `setTimeout` may fire up to a millisecond early.

### KnxTunnel

`connection`, `busConnected`, `closing`, `timer`, `disabled` are the fields of the
class; `bound` says to which connection objects the datapoints belong; `settled` the
attempts whose `connect()` promise is settled; `reconnecting` where the one
`doReconnect` is; `lib` is what the library does with each object, also with those
nobody holds. Each handler that `connect()` hands to the library is an action, with
the guards (`this.connection === conn`, `settled`) that the code has; the give-up
timeout, the reconnect timer, the route and the scene learner are the others. The
library is external: it may lose a tunnel, may retry an object on its own, and is
silent after `Disconnect()`.

`BusLife` is what a user of the bus sees of this: it is off, waiting, trying, up or closing,
has datapoints or not, is on or off, and someone waits for a reconnect or not. A tunnel that
is up is lost with the gateway only; every attempt that fails is followed by a wait, and a bus
that is on is never just without a tunnel. `KnxTunnelLife` reads the stage off the current
object and the timer, and calls any state in which these do not fit together `"astray"`,
which `BusLife` does not know. `FollowsLife` says that each step, those of late handlers of
older objects included, is a step of that life or none of it: a give-up that comes late
takes no tunnel down, and the switch in the file counts from the next reconnect on, not
before.

### IntercomLine

`row` is the book's row. The operators `AfterRing`, `AfterBusy`, `Looked`,
`MayClaim`, `MayRelease` are the methods of `IntercomLineBook`; note that `phase()`
deletes a reservation that has lapsed, so that looking is a write. `call` is what
really goes on in Asterisk, as far as the generated dialplan tells: the button
rings the panels, a panel dials the door, a DoorBird calls back. Each step of a call
appends its reports to `events`, in order; `HandleEvent` is `onAmiEvent` for the
first of them. Claims, releases and the DoorBird's `makecall` are the routes. A release
only deletes the row (`routes.ts:1891-1897`) and may come at any moment: a DoorBird that was
asked to call is not recalled, and calls the panel also after another one claimed the line.
`clean` is a history variable: it stays true as long as the line is used by one call
at a time, and by a callback only for the panel that holds it; this is what the properties of
the code as designed are stated for, and the violation run shows what happens otherwise.

### WtwLogic

`device` is the ventilation unit, `status` what the bus cache holds of it. A stand
other than Auto is written in two steps, with 200 ms between: what a handler does
after the wait is a member of `jobs`, and as the waits are equally long they end in
the order in which they began. `runs`, `trig`, `until`, `dur` are `logicRuns` and
the timers of a logic. If a logic is triggered a second time during its wait, the
second `StartDone` overwrites the run of the first, whose duration timer goes on
(`leaked`). `wishes` is the set of stands the unit may be left in: the choice of the
user and what logics since then were told to leave. `calm` and `alone` say that
nothing overlapped; they are set again by a choice made when nothing is pending.

Facts worth knowing that no property states: a logic that interrupts a boost goes
back to "boost"; a boost that is ended by hand does not bring Auto back; a unit
whose stands are scenes reports no stand, so that "previous" cannot be restored and
the unit stays as it is.

### Around the bus: `KnxGroups`, `GroupRoles`, `SceneListen`, `SceneContrast`

`KnxGroups` takes the tunnel as up, in its handshake, closing before a reconnect, or none,
and lets it be dead before that is noticed. `write` goes out and into the cache at once;
`writeRaw` waits in `chain` and is cached when carried out; a connect and a change of the
house read what is wanted. A reconnect takes the addresses of the house before its awaited
teardown (`asked`), and `Connected` binds and reads those: an address that a save adds in
between is not looked at again. `mine` is the window in which a telegram counts as one's own
echo. `CacheFollowsBus` speaks of quiet moments and leaves out the addresses in `unsure`:
those added during a reconnect, those whose own write crossed a telegram, and those whose
answer never came; the code has no sequence to tell them apart.

`GroupRoles` holds each place of `types.ts` where an address can be entered, with the
options that change its meaning, and both tables the code makes of them
(`collectAllGAs`, `buildGAIndex`): an address in one only would be silent or read as a
switch. A house starts with everything filled in or nothing, and each save fills in or
clears one field, to at most `MaxFilled` of them. The points of a Modbus unit share one
type. Left out are `displayPanel.temperatureGa` and `LogEntry.ga`, which
`collectAllGAs` does not list. Two roles of one byte on the same address cannot be told
apart; that a bit and two bytes always can is `DecodesByLength`.

`SceneListen` is the wizard's one session for the house: prepared, listening, busy,
with its 20 s timer, and the last answer that every app polls. `SceneContrast` is how
the wizard finds out what a scene does, by putting the room out, recalling the scene,
putting the rest full and recalling again; statuses may lag. Two starts that overlap
leave a timer that nobody clears; the properties are stated for starts that do not.

### Commands and logics: `DeviceCommands`, `HvacLock`, `VentLogic`

A command is the list of its writes and waits; other commands run in its waits and the
tunnel may go, after which the rest is left out. `CommandsSettle` is about programs that
did not overlap (the delayed flame write of `fireplace.on` does come after a
`fireplace.off` in between, and nothing in the code guards against it). `HvacLock` has
memory and the file with all locks, saves that fail, and times that lapse.

`VentLogic` has what `WtwLogic` leaves out: conditions joined by and/or, each over
minutes, saves that take a logic away and bring it back, restarts. A stand is one write
in these families, so nothing comes between the start and its record.

### Media: `MediaZones`, `VolumeHold`, `MediaSkip`, `SpotifyLink`

`hw` is what the speakers really do, `view` the cached states the app is shown,
`groupMap` what the code takes the groups to be. Polls, joins, leaves and volume writes
are begun and answered in steps of their own, so that a poll's answer may be older than
the command it meets. Rounds overlap, as the interval starts one every 3 s whether or not
the last is in: each has the zones it still waits for (`left`) and the one whose UUID it asks
(`asks`), and an answer may come before others or wait in `polls` until after the next round.
Each of the queries for the state, the volume and the track may fail by itself (`Replies`): a
zone whose track is not had is stored online without a URI, and the round then takes it out of
the group it is shown in. `GroupsCatchUp` therefore is about zones whose URI is known, after a
round in which nothing but rounds moved (`calm`).

`VolumeHold` is the 250 ms timer of a held rocker with a request out each time.

`MediaSkip` is the presets of a zone, the playback a poll last found, and the remembered hint;
steps, skips, polls, groups and saves of the list in any order. A favourite is an address and a
name, and `Shows` is what a poll may find while it plays: another form of the address, none,
a source or a title with the name in it, or only the label of a radio (`isRadioSource`). `Match`
looks where the code does, in its order: the same address, then the address without its
parameters, both with the poll's and the hint, then the name inside the source, then the
name as the head of the title. Thus 'Radio 1' is found while 'Radio 10' plays, if addresses do
not tell them apart; `RingsComeRound` is stated for lists where nothing of the kind happens
(`ToldApart`), and the run has both sorts.
`SpotifyLink` has the requests for tokens that are out while credentials change;
`crossed` marks the ones for which the code does not look again after the answer.

### Gateways: `LutronGateway`, `SatelBridge`, `SatelConfig`

A Lutron slot is thrown away by every save and made anew; sockets have numbers, so that
what an old one still does is seen. The lines are whole; a login prompt without a
newline, which the code does not recognise, depends on the processor.

`SatelBridge` is the poller, the orders and the reading of names on one session, plain
(all queries at once, then whatever comes in 0.8 s) or encrypted (one exchange each).
Answers come in order and are matched by nothing but `_io_lock`. `link` holds those
not yet read, also the results of orders, which a plain session leaves there: the next
reading of a name takes such a result for an unused slot. `LayoutWhole` therefore
excepts a reading that got another's answer or none in time (`slow`); what it shows is
that the poller never takes one. `ShownFollowsPanel` needs each mode answered since the
panel last changed. `SatelConfig` is the file and the memory with 50 ms between them; a PIN
that is set within these is taken back by the reload, in memory only (`crossed`).

### Processes: `ChildProcs`, `AmiLink`, `HostAgent`

`ChildProcs` is one machine for both programs with the two differences the code has:
Asterisk keeps the handle of its restart timer and looks before it starts, go2rtc does
neither. `AmiLink` has the clients, which of them is `ami`, and the reports on each
socket; `ensureAmi` sets `ami` after the login, so a second caller may begin a second
client (`overlapped`), and the `catch` of `amiReload` closes whichever is `ami` by then.
What comes in is handled a chunk at a time: all its blocks before the list of registrations
that one of them completed is filled in, since that waits for a promise (`After`). A change
behind the list in its chunk is undone by it, and the registrations are wrong until the next
list or report (`outrun`).

`HostAgent` is the agent's loop, `pc` by `pc`, with the files as the two sides see
them: a status is torn while it is being written (and reads as idle), a request is there
until it is removed, a heartbeat grows old. Both sides may die anywhere. It shows that an
update that was cut short does not block the next, that a code is used once, and that
every save of the house survives but those made while the program is fetched: see section
5. A second request can be accepted between the agent's taking the first one and its
writing "running" (`hasty`).

### Doors, accounts, numbers: `DoorRings`, `Accounts`, `VoipBook`

`DoorRings` has two doors and what they share. Reports are handled as they are sent:
delay and loss are in `IntercomLine`. `crossed` marks rings that overlap, for which one
remembered door cannot be right.

`Accounts` has `PUT /users` as it is: the list is read, passwords are hashed, the list is
written, with logins and pairings between. A list written late undoes another one; the
house editor revokes no session; both are left out of `CutOff` (`loose`). A pairing code
made before a change of password and claimed after it opens a session with the new password,
which `CutOff` does not count as one of the old.

`VoipBook` is
`normalizeVoip`, a function per loop of it in their order (`Linked`, `Kept`, `Noted`,
`Numbered`, `Grouped`, `Homed`, `Doored`), and the editor's merge, followed by the dialplan
generated from it; a dialled number is looked up in it (`Rings`). `Edits` are the elementary
changes of the installer's app to the copy it saves, among them the number and the password of an account and
of the door, which are typed: the server keeps them as they are and does not look whether a
number is another's. `typed` is the numbers that were; `BookSound` says that only those are
ever shared, and `DialSound` is about the numbers that are one party's alone. `PUT /users`
reads the house, awaits the hashing of a new password (`put`), saves that house with the new
list whatever was saved since, and does not write the dialplan (`behind`). `PasswordsKept`
names all that changes a password: a reset, typing, and the two copies, the editor's and that
one, which bring an older one back. An empty group of button 2 falls to the general pattern.

## 4. The runs

| Run | Instance | States | What it shows |
|---|---|---|---|
| `scheduler` | 1 id, 3 handles, D = 3, slots 0, 1 and none | 33,224 | `TypeOK`, `NeverLost`, `TableSound`, `SerialSound`, `KeepsComingDue`, `FollowsPlan` |
| `sched_double` | same | | an occurrence runs twice after an edit during a run |
| `knx` | 3 connection objects | 2,848 | `TypeOK`, `TunnelSound`, `FollowsLife`, `ReconnectSettles`, `EventuallyConnected` |
| `intercom` | 2 panels, 2 door channels, 4 reports | 555,880 | `TypeOK`, `LoneCallSound`, `DoorChannelsLive`, `ShownFree`, `LineComesFree` |
| `intercom_stuck` | same, dialled door only | | a line that stays busy for ever |
| `calendar` | six stretches of 2026, 56 triggers | 52,752 | `TypeOK`, `OnSchedule`, `OncePerLocalDay` |
| `cal_month_end` | same | | a late trigger is skipped on the last day of a short month |
| `wtw` | 2 logics, 2 waits | 693,529 | `TypeOK`, `EndsArmed`, `ReturnsToWish`, `EveryRunEnds` |
| `bus` | the seven parts of `BusParts` | 1.5 million | `TypesOK`, `CacheFollowsBus`, `GroupRolesSound`, `LearningSound`, `AnswersItsRoom`, `CommandsSound`, `ClimateSound` |
| `house` | the thirteen parts of `HouseParts` | 1.9 million | `TypesOK`, `ZonesSound`, `ButtonsSound`, `LinkIsTheWish`, `GatewaysKept`, `ProcsSound`, `LoneRing`, `CutOff`, `ListsSound`, `PasswordsKept` |
| `gate_dtmf` | same | | the digit of a gate that a panel called opens nothing |
| `update_save` | `HostAgent` alone | | a save made during an update is lost |

Some properties join what belongs together: `TableSound` is `TableNamesLive` and
`TableFollowsList`; `SerialSound` is `NoOrphans` and `SerialAtMostOnce`; `TunnelSound` is
`ConnectedIsAlive`, `BoundToCurrent`, `AlwaysRetrying` and `NoSpuriousReconnect`; `LoneCallSound` is `FreedAfterLoneCall`, `NoSecondPartyToLoneCall`
and `BusyWhileTalking`; `OnSchedule` is `TimeOnSchedule` and `AstroOnSchedule`. In `house`,
`GatewaysKept` is about the Lutron gateways, the alarm panel and its configuration,
`ProcsSound` about child processes, the link to Asterisk and the update agent, `ButtonsSound`
about volume holds and the ring of favourites (`RingsComeRound`), and `ListsSound` about the
telephone book (`BookSound`, `DialSound`). In `bus`, `LearningSound` is about both modules of the
scene wizard and `ClimateSound` about locks and ventilation logics.

Why these bounds are enough:

* **scheduler**: ids do not interact (every action of one id leaves the closures of
  the others alone except `rescheduleAll`, which treats each id by itself; the proofs
  are for any number of them). Three handles allow the one in the table, an orphan,
  and a suspended run together. Three slots give an occurrence now, one later today
  and one tomorrow. `fired` counts to 2, which is what the properties tell apart.
* **knx**: the current object, the one before it whose events come late, and one that
  is being torn down. A name is taken again only when nobody holds or awaits it.
* **intercom**: two panels contend, two channels overlap, and four reports are more
  than a whole call of one kind leaves unhandled, so the reports of one call meet
  the requests of the next.
* **calendar**: the last days of a month of 31, 30 and 28 days, the turn of the year,
  both clock changes; the hours around midnight and around a change, and noon; every
  day, no day, working days and Sundays; each kind of bound of an astro trigger. The
  seasons end, so the deadlock check is off.
* **wtw**: one logic by rise and duration with boost, one by held condition and end
  condition with a speed, so that every kind of trigger timer, end and "afterwards"
  but a status trigger of 0 minutes (`Starts`) occurs; that one starts a logic with the
  same action, `StartLogic`, as the others, and the proof covers it. With two waits each
  pair of handlers overlaps.
* **bus**: two fields of a device filled in, which do not interact, or all of them;
  two addresses, one written raw, one that a save takes away; one telegram and
  one raw write waiting, so that a read, a write and a telegram of another cross; two
  rooms and two starts; a light and a shade, each of which the scene sets or not and whose
  status lags or not; three locks, so that one save fails while two others are armed;
  programs two at a time; three logics that cover a rise, a clause with minutes and two
  clauses joined.
* **house**: two Sonos zones and a Bluesound (a leader, a member and one that can be
  neither), two of them in a house; one level and two moves, each a group call, a volume, a
  save or an answer that fails; two rounds of polls, of which either may be the older (their
  names are interchangeable, hence the symmetry), and one answer that comes later than its
  round; favourites with addresses, without, and with a name inside another's; two holds,
  one of which a turn of the rocker replaces; three logins and two requests out; the house's
  Lutron processor and a second one with three saves, so that the slot, the one it replaced
  and a late socket of it are there together; four starts of a child; two doors with
  different ways of release; two people, two sessions and one code; four saves of the book,
  so that a copy is read, something is saved, and the copy comes back; two numbers to type,
  one that the program hands out as well and one that it reserves for a group. Three clients
  of Asterisk: the one in use, the one that replaces it and one that overlaps; two reports
  and the list on a socket, in chunks of up to three. Two saves and two starts of the agent:
  one save before the copy and one after it, one start after a death. Two arm modes, two
  slots and two requests or answers under way: an order's result ahead of a name. Three
  saves of the alarm configuration: two waiting and a PIN.

Parts of `MCBus` and `MCHouse` come to rest when their bounds are used up; therefore these
runs do not check for deadlock. The other passing runs do, except `calendar`.

## 5. Where code and documentation differ

Each of these is a violation run; TLC prints the shortest sequence.

1. **An occurrence runs twice** (`sched_double`, `scheduler.ts:72`). A schedule is
   due and its scene takes some seconds; meanwhile the list is saved, which arms it;
   then the handler arms it again and overwrites the handle. Two timeouts are due the
   next day. The file says a schedule fires at most once a day.
2. **A line stays busy** (`intercom_stuck`, `voip/manager.ts:443`). A panel claims the
   line and dials; the door answers after 25 s, within the 45 s that it rings, and
   somebody looked at the phase between: the reservation is gone, the conversation has
   no holder, and the hangup frees only lines that have one.
3. **A skipped evening** (`cal_month_end`, `scheduler.ts:332`). On 30 November a 23:00
   trigger is computed to be on the 29th, thus in the past.
4. **A digit that opens nothing** (`gate_dtmf`, `voip/manager.ts:456`). The dialplan tags
   a call with the intercom, but a DTMF report carries no channel variables. In a call
   that a panel made no ring was remembered, and the digit is for no door, or for the one
   that rang before.
5. **A save lost in an update** (`update_save`, `docker/update-agent.sh:276`). The agent
   copies `house.json`, fetches the program for minutes, and copies it back. The house
   works meanwhile, and whatever is saved is gone after the restart.

Other expectations fail in the models too. They are stated in the modules and have no run,
as each needs a reading of the documentation or repeats one of the above:

* `Scheduler!OnlyListedArmed`: a schedule deleted during its run is armed again.
* `IntercomLine!NoSecondParty`: a DoorBird's callback is not recorded as answered; 25 s
  later a second panel is granted the line.
* `Calendar!OncePerDayAlways`: "sunset, not before 18:00", once the clocks went back: the next
  day's sunset is compared with 18:00 of the day before, so that the trigger fires at 17:00,
  before its bound, and again at 18:00. `scheduler.ts:3-6` rules out both. `OncePerLocalDay`,
  which the run checks and `CalendarProofs` proves, leaves out this one case (`DraggedBack`) and
  events that an offset moves to another day.
* `Calendar!NeverGivesUp`: an astro trigger with a `notAfter` time finds no day once the
  clocks go back, and is armed again only at the next restart or edit.
* `WtwLogic!GoesBack`: two logics overlap, the second reads the stand of the first as the
  one to go back to (`wtwRuntime.ts:1530`, `1609`), and the unit stays there.
* `VentLogic!PutBackAlways`: a unit by scene reports no stand to go back to.
* `GroupRoles!FieldsReadAsDocumented`: brightness and colour temperature of a tunable white
  and the byte of a fan are read by other types than `types.ts` says.
* `ChildProcs!OneGo2rtc`: the restart timer of a go2rtc that fell over starts a second
  one beside the one a save has started (`go2rtcSpawn.ts:111-116`).
* `AmiLink!AlwaysOneLink`: two logins overlap, and the first to be ready stays open,
  delivering every report a second time.
* `SatelBridge!NeverFalselyDisarmed`: after a reconnect the first mode that is answered
  is taken for all, and an armed partition is shown as disarmed for a moment.

And one that the model is too small for: the id of an encrypted session with the alarm panel
is a counter of the process put into one byte (`encryption.py:88-101`); from the 257th
connection on none succeeds until the service is restarted.

## 6. Fairness

Liveness is stated under what the event loop and the timers give, never under what
people or networks do.

* `Scheduler`: due callbacks run and time passes; a run that is awaited ends; the
  supervisor starts a process that died. That a run ends is an assumption: the write
  callback of a lost tunnel may never come, which is listed as a hazard.
* `KnxTunnel`: the timers fire, a teardown is answered or times out after 5 s, a
  handshake with a gateway that answers is completed. Strong fairness only for
  the give-up timer: it runs from the start of the attempt, also while the gateway
  comes and goes, whereas the model's action is disabled while the gateway answers.
* `IntercomLine`: reports are handled and calls end.
* `MCBus` and `MCHouse` have safety properties only and no fairness; what "catches up" is
  stated for the states in which nothing is under way.
* `WtwLogic`: a wait of 200 ms ends, and a running timer fires. Nothing is assumed
  of the timers of start conditions.

## 7. Proofs

Each theorem is stated of the specification that a run checks, and most of a property that
a run states: TLC shows it on a small instance, TLAPS for every value of the constants
that meets the assumptions. These are named and stand in the module that declares the
constants. They say of which kind the constants are (sets, numbers, `None` apart from what it
is the absence of), and nothing of how many there are; TLC evaluates them in each run.

### Scheduler

`SchedulerProofs` (`SchedulerAssumption`: a day has a slot, slots lie in
it or are the one past its end, `None` is no handle and no entry) proves, for any ids,
handles and day length:

* `TypeCorrect`: the type invariant.
* `NothingLost`: `NeverLost`. It is inductive with the types: each action that ends a
  closure of an armable entry either arms it again in the same step, leaves a run
  behind that will, or came too late to (`missed`).
* `TableIsLive`, `TableFollows`: the table names live timeouts, due in the slot of the
  entry that the list has. Neither is inductive alone, as a handler that re-arms must
  know that no *other* entry of the table names its closure; together (`TableInv`)
  they are. They hold without exception, also for overlapped runs.
* `TableAlwaysSound`, `SerialAlwaysSound`: these as the runs state them, `TableSound` and
  `SerialSound`.
* `SerialCorrect`, `NoOrphansEver`, `SerialRunsOnce`: for ids whose list was not
  replaced during a run, each live closure is in the table, and an occurrence runs
  once. The invariant `SerialInv` has four parts per id that need each other: there is
  one live closure; if armed, it is the one in the table and due in its slot; a run
  belongs to a listed entry (so that the handler arms by the list, not the capture);
  and after a fire nothing is due before tomorrow. That a tick leaves the last part
  true is the strictness of `NextDelay`. The fifth part, that a process that is down
  has no closures, makes the boot that follows a crash start from nothing.
* `ImplementsPlan`, that is `FollowsPlan`, from `SerialInv`. With one live closure per id
  the `CHOOSE` of the mapping has one candidate, so that `due` is its distance; what
  `scheduleOne` computes by comparing slots is the one number that `DueIn` looks for
  (`WaitOfPlan`). There is a case per action: the boot is the plan's start, the crash its
  stop, a replaced list its replacement (whose guard says that nothing runs), the three
  parts of the handler skip, begin and end an occurrence, a tick brings all of them closer,
  and runs by hand change nothing.

### KNX tunnel

`KnxTunnelProofs` (`KnxAssumption`: `None` is no object) proves the four safety
invariants of the tunnel for any number of connection objects, and from them
`TunnelAlwaysSound`, which the run states. None of them is inductive.
The invariant `TunnelInv` adds to the types

* `AwaitedInv`: an attempt that a `connect()` still awaits is the current one or was
  disconnected, and has no tunnel yet;
* `CurrentInv`: the current object is awaited or has a tunnel with datapoints, and no other
  has any;
* `ReconnectInv`: where `doReconnect` is, against `closing` and the current object;
* `TimerInv`: the timer runs when nothing else will bring the tunnel back, and never while
  there is an object that it would tear down; a bus that is off has neither.

`ImplementsLife`, that is `FollowsLife`, follows from it. `StageFits` shows that the invariant leaves
five ways in which object, timer and reconnect can stand to each other, one per stage. A
handler that drops the current object is `Lost`, one that is late changes nothing of the life
(`DropLoses`, `ConnectedAnswers`); the timer and a request are both `Again`.

The proof shows that the branch of the reconnect timer that finds a reconnect in flight
is never taken: the two are never there together.

### Intercom line

`IntercomLineProofs` (`LineAssumption`: the kinds of the constants) proves the
type invariant, `ShownFree` and `DoorChannelsLive`, also for overlapping calls and while the
connection to Asterisk comes and goes. `ShownFree` needs that a reservation is shown as
one (`ShownInv`), since its lapse is silent. `DoorChannelsLive` needs the same of the
channels that reports still to be handled will note (`NotedInv`): for each of them a
hangup comes later in the queue, or the call goes on. The calls' many actions are treated
together: each appends some reports and keeps that shape (`CallStepEffect`).

`LoneCallAlwaysSound` is `LoneCallSound`: a line used by one call at a time is free when that
call is over, busy while it is talked on, and refuses a second party. The property speaks of a
line whose reports were all handled; the invariant `LoneInv` is about all other moments. As long
as the line is `clean`, Asterisk is connected, the reports due are in the order in which a
call makes them (`InOrder`), and

* either it is `Resting`: no call, no reports, and only the panel that holds the claim may
  dial upon it, while a DoorBird, which is never dialled, may still call panels that released
  (their callback is not a lone one);
* or one channel uses it, and is `Rung`, `Dialled`, `CalledBack` or `Over`: four shapes that say,
  for what the call has come to, how far the book is behind and which of the reports due will
  bring it there. `Over` has three ways to end: a `cleared` is due, it was handled, or the row
  still has the holder whose hangup frees it.

### Calendar

`CalendarProofs` (`CalendarAssumption`: a season is a stretch in months of 28 to 31 days in a
zone an hour ahead of UTC, with summer time that begins and ends at one o'clock UTC in months of
31 days; triggers are as the routes take them, with offsets of at most 12 hours; the sun has a
fixed hour) proves

* `CalendarTyped`: the types, a timeout is for later and at most 15 days away.
* `AlwaysOnSchedule`, that is `OnSchedule`, for any seasons, sun and triggers. The invariant
  is that what is armed is `NextFireTime` of `from`, and the rest is about that function:
  `fromLocal` inverts the clock by day, whatever the months before and the clock changes
  (`FromLocalFacts`, `Daytime`); the candidates, 24 hours apart from a midnight that may be in
  the other time, walk through the days, staying on one of them once if the clocks go back
  but leaving none out (`CandFacts`, `Walk`); the occurrence on a candidate is the promise for
  its day (`BoundFacts`, `AstroDay`), so that the first candidate with one still to come
  has the first promise (`TimeNext`, `AstroNext`).
* `OnceALocalDay`, that is `OncePerLocalDay`, for triggers by the clock at every hour. What
  `fromLocal` gives for an hour that it reads on a wrong day is another day's right answer
  (`ReadOnItsDay`): a whole number of days early, because the clocks do not change in a month
  that is short of 31 days. Thus two occurrences on one local day are the same instant, and the
  second is not after the first. For triggers by the sun the first is the moment of its day
  (`AstroOnItsDay`), and a later candidate has a later day's event.

The proof showed two weak places of the statement that TLC had not met. A trigger of which
the fourteen days hold no promise was taken to be one that the clocks do not go back before; and
an offset may move an event over midnight, to a day whose mask was not looked at. Both are
left out now, by name.

### Ventilation

`WtwLogicProofs` (`WtwAssumption`: the kinds of the constants) proves for any logics

* `RunsCanEnd`: every run has a timer that will end it. `EndsArmed` is
  inductive together with the fact that the runtime's tables have an entry for each logic.
  The delicate step is `StartDone`, where the end condition is looked at in the cache and
  not in the next telegram.
* `TypeAlwaysOK`: the types. That a logic has at most one timer of an overwritten run
  needs `Waits`: there are never more waits under way than `MaxJobs` allows, and what
  a wait will do is of a known kind.
* `AlwaysReturns`, that is `ReturnsToWish`: logics that do not overlap leave the unit where its
  users wanted it. The invariant `Quiet` looks ahead: when something is under way there is one
  thing, a wait or a run, and the stand it will lead to (`Coming` of the wait, `Back` of
  the run) is the wish.

### Around the bus

`BusProofs` is about `BusParts`. Each component has its own invariant, shown in a lemma to follow
from its start (`...Start`), to be kept by each of its actions (`...Step`) and to give the
property; `InitOf` and `StepOf` say that a step of the composition is a step of one of them.

* `CacheAlwaysFollows`, `CacheFollowsBus`. `GroupGood` says it of one address with the telegrams
  under way. The *last* of them has the value of the bus; while the address is sure, the echo
  of an own write finds the cache right already, and one of a raw write has no other before
  it; an address that is owed no read is cached right or has a telegram coming. A
  connect owes a read to what it was asked to bind, and what was added since is unsure.
* `LearningAlwaysSound`, `LearningSound`. `ListenOne`: while nothing overlaps one start is prepared or
  one wizard runs. For the contrast there is an invariant per phase: what was put
  out is seen out (`ContrastPut`), after the recall the members are where the scene puts them
  and the others where they were (`ContrastFirst`), what is not learned yet is put to 0 by the
  scene and takes part in the second test (`ContrastLeft`), which finds it (`ContrastSecond`).
* `AnswersAlwaysItsRoom`: the action property, from the invariant of the sessions.
* `ClimateAlwaysSound`, `ClimateSound`. The lock's invariant is its property with the types.
  `VentGood` says of each logic which of its clauses have minutes running or held, and that an end
  which is met is not missed; `VentAlone` and `VentPut` that in calm one logic runs, and leaves
  the unit as wished. Proving it for every configuration, not the three of the run, showed
  two that TLC had not met: an end without clauses joined by "and", which is never met
  (`EndsAreWatched` says so now), and a stand that the unit cannot be put into, after which
  nothing is calm.
* `CommandsAlwaysSound`, `CommandsSound`. What a command does up to its next wait is computed along
  its program (`Run`, a function of how much of it is done); the proof takes it as a trace
  (`Traced`) and follows each program one step at a time. `CmdInv` says that in calm at most one
  program waits, that what is left of it is one of eight tails (`CmdTags`), and how the contacts
  and the shown fire stand for each of them (`CmdLeft`).
* `GroupRolesAlwaysSound`, `GroupRolesSound`. `RolesInv` says that the two tables are those of the
  last save. `AllIndexed` compares them kind by kind, `ReadAsTypesSay` follows each documented field
  to the type of its role, and `ReadByLength` is about the choice between two types. The run has at
  most two fields filled in or all; the theorem has any.
* `BusAlwaysTyped`, `TypesOK`: the types of all seven parts, also of the group addresses' roles, as
  a consequence of the invariants above or of their own (`GroupTyped`, `RolesTyped`).

### The house

`HouseProofs` and `HouseProgramsProofs` are about `HouseParts`, laid out the same.

* `GatewaysAlwaysKept`. Lutron: `LutronSlots` says per slot that it has an open socket or a
  timer and never both; that there are as many follows from two bijections (`OneEach`).
  `LutronSent` makes monitoring asked for once. Alarm panel: one at a time has the lock and the
  answer to a name comes last (`SatelTurns`); a fresh answer is right and comes behind the stale
  ones (`SatelFresh`); what is known of a mode is so (`SatelKnown`); a reading without a strange answer
  has every name it has come past (`SatelNames`). Its configuration: the file is what memory will
  be when the last reload has come.
* `ButtonsSoundAlways`: the timer of a hold is the only one, each hold has at most one request
  out and none is out for a hold still to come (`HoldInv`). Favourites: in a list that can be
  told apart each is found in its own place by whatever a poll shows of it (`MatchOwn`); so it is
  in the ring of its radios (`RadiosFacts`, by counting up along the list, `AloneInRing`);
  a place one on and one back is the place (`AroundAndBack`); and a walk of as many steps
  as the list is long is at one favourite at a time and passes each (`WalkGoesOn`,
  `WalkPasses`). That no skip leaves the radios needs no telling apart (`SkipsFilter`).
  Where no favourite has an address (Bluesound) the ring is the whole list, so that a skip
  from a radio may play something else.
* `ZonesSoundAlways`: `Agrees`, that what is shown of each zone is what the group map says, is
  kept by answers early and late, whole and in part, a call, a write, a round's end and a save;
  `AsksQuietly` follows the rounds that began since nothing else moved: a zone that is no
  longer waited for was stored as it is, or without a URI. The end of such a round puts the map
  right (`SyncStep`), and a later answer without a URI leaves it so. That a group's volumes keep
  their order is a lemma on rounded division.
* `ProcsAlwaysSound`. Processes: the handle in `restartTimer` is that of a timer which will fire
  (`ProcsHeld`). Update agent: a status that is half written reads as one without an
  agent (`HostRunning`), so that a second update is refused in that moment too; `HostSaves`
  says which copies of the house hold a save; `HostCodes` that a code that can still be taken was
  not used. Link to Asterisk: without overlap one client is open and it is `ami` when logged in
  (`AmiOne`), and the last report on its socket is what Asterisk has, a list that was outrun
  excepted (`AmiNews`).
* `LoneRingAlways`: without crossing there is one call, and what is shown and remembered is of it.
* `CutOffAlways`: a session that is live and not loose has the password of its account or a later
  one; and a list that is about to be written is honest about which passwords it changes and was
  read no later than those there are (`AcctEdit`).
* `LinkIsTheWishAlways`: while nothing crossed, requests under way are of the app in the store.
* `ListsAlwaysSound` and `PasswordsAlwaysKept`, `ListsSound` and `PasswordsKept`, from one invariant,
  `BookInv`: the book is normalised (`Normal`), each copy, the editor's and the one of a list of
  users (`BookCopy`), is a book that was, with names older than those to come, and
  Asterisk has the book unless users were saved since. A draft (`BookDraft`) has names that are
  apart, and numbers that are apart but for typed ones (`ExtsApart`); `NormalizeKeeps`
  takes it through the loops of `normalizeVoip`, one lemma per loop: filtering keeps each account
  where it was relative to the others (`PickedFacts`, by counting up along the list), and the
  number a loop hands out is one of so many that one is free (`NextExt`), of the typed
  ones too. On a normalised book every loop changes nothing. `EditsKeep` and `MergeKeeps` say
  that what the editor sends is such a draft again. The dial plan: groups come before accounts, and
  for a number that is one party's alone the first line with it is that party's (`LinesAre`).
* `HouseAlwaysTyped`, `TypesOK`: the types of all thirteen parts, from their invariants; `HostRest` and
  `ProcsYamls` add what the properties of the agent and the processes do not need.

### What the proofs changed

Stating the parts for all constants found weak places of the models, now mended: `CASE`s whose
arms overlapped; constants that could be confused with `None`; and recursive operators. Where
what a loop leaves is proved it is a recursive function now (`Filtering`, `Numbered`): the provers
cannot use the library's induction theorems, but there is no least number at which a set that
has 0 and each successor could fail (`NatLessThanWellFounded`), and that set may be "the
lengths up to which the loop is right".

### What is model-checked only

* Liveness (`KeepsComingDue`, `ReconnectSettles`, `EventuallyConnected`, `LineComesFree`,
  `EveryRunEnds`): fairness and `ENABLED` are out of the provers' reach.

## 8. Left out

Of the modelled components:

* **Scheduler**: `stopScheduler` is the crash. Entries are slots, conditions a choice.
* **Calendar**: the minutes of the day; places where the sun does not rise; the
  library SunCalc, replaced by a fixed hour per event of the UTC day it is asked for.
* **KnxTunnel**: `KNX_SIMULATE`; the first load of the library module during boot is
  not interleaved with a reconnect; `connGen`, the outbound chain and the attempt
  counter belong to group I/O.
* **IntercomLine**: one intercom; the variables that all intercoms share, DTMF and door
  release are in `DoorRings`. A panel has its number as long as its claim or call lasts.
* **WtwLogic**: the Zehnder family and one condition per logic (for the others see
  `VentLogic`); a sensor for each logic; the status
  telegrams of a unit come in one step; the minutes of a boost; a stand switched off
  by its own button; lengths of time. The unit's behaviour is external: a stand takes
  only when Auto is off, and choosing a speed ends a boost (`wtw.ts`). At most one
  timer of an overwritten run is left when a logic is started anew.

* **KnxGroups**: one of each kind of address; the boot reads' pacing is the chain's.
* **DeviceCommands**: the checks of a command's text; one device of each kind that has a
  program of several steps (the others are a single write).
* **Scenes**: the numbers of KNX scenes (`knxScene.ts`) and the conditions of schedules,
  which are a choice in `Scheduler`.
* **Media**: what a zone plays, search, artwork and the players' wire formats (the address
  without its parameters, and which texts hold which names, are tables of the instance); the Spotify
  API beyond the tokens.
* **Lutron**: the formats of output commands; levels that are reported back.
* **Satel**: zones, entry and exit times go the way of the armed modes; eight slots in a
  row without an answer end a reading; the cipher; the simulated panel.
* **AmiLink**: where a block ends in what has come in (a chunk is any number of whole ones);
  one phone.
* **HostAgent**: `house.json` is copied and written in one step each (it is renamed into
  place by the backend; the agent's `cp` is not); so is the enrolment status; two saves, two
  starts; what git, docker and the cloud do is a choice of success and failure.
* **VoipBook**: two users; a book has one door station; one `PUT /users` awaits its hashing at a
  time. The app's editor has no field for the number of a ring group, so none is typed.
  **Accounts**: roles are fixed.

Components with status `partly` or `not_modelled` in `PROJECT.json` say there what is missing.
What has no model keeps no state that interleaves: the ETS import is a parser, energy and
logs are sums over samples in files, push is a request per event; the Flutter app is a
user interface over the routes; images and installer scripts run once.

## 9. Plan

The plan's components are modelled, in the order: what decides whether a house works
unattended (scheduler, KNX tunnel, intercom line, calendar, device logics), what goes over
the bus, what works beside it, what is outside of it. Next would be

1. an abstract specification with a refinement, as `DayPlan` and `BusLife` have, for a line
   that is free, reserved or in a call;
2. `KnxGroups` on top of `KnxTunnel`, to say which writes of a lost tunnel are never
   answered and to discharge the scheduler's assumption that a run ends.

## 10. How to run

    tlc -workers 2 -config MCScheduler.cfg MCScheduler      # any run of PROJECT.json
    tlapm SchedulerProofs.tla                               # likewise the other modules named ...Proofs

The longest runs (`house`, `wtw`, `bus`) take one to three minutes on two cores.
